------------------------ MODULE FrameProcessorProofs ------------------------
(***************************************************************************)
(* Theorems about FrameProcessor, for every set of frames and every kind   *)
(* they may have.                                                          *)
(***************************************************************************)
EXTENDS FrameProcessor, TLAPS

USE FrameAssumption DEF InputPcs, TaskPcs, Outcomes, IsSystem,
    IsUninterruptible, inputVars, inputTaskVars, systemPauseVars, statusVars,
    queueVars, taskVars, pauseVars, historyVars

(* Each part of TypeOK is preserved; a part has one step per task.         *)

LEMMA InputTypeStep ==
    ASSUME TypeOK, [Next]_vars PROVE InputType'
<1> USE DEF TypeOK, InputType
<1>1. CASE InputTaskStep
  BY <1>1 DEF InputTaskStep, InputGet, InputWake, HandleStart,
       HandleInterruption, HandleCancel, HandleSystem, InputCancelled,
       InputDone, Dispatch
<1>2. CASE ProcessTaskStep
  BY <1>2 DEF ProcessTaskStep, ProcessEnter, ProcessGet, ProcessWake,
       ProcessDone, ProcessStopped
<1>3. CASE Calls
  BY <1>3 DEF Calls, QueueFrame, PauseFrames, ResumeFrames,
       PauseSystemFrames, ResumeSystemFrames, BroadcastInterruption,
       CleanupInput
<1>4. CASE CleanupProcess
  BY <1>4 DEF CleanupProcess
<1>5. CASE UNCHANGED vars
  BY <1>5 DEF vars
<1> QED
  BY <1>1, <1>2, <1>3, <1>4, <1>5 DEF Next

LEMMA TaskTypeStep ==
    ASSUME TypeOK, [Next]_vars PROVE TaskType'
<1> USE DEF TypeOK, InputType, TaskType
<1>1. CASE InputTaskStep
  BY <1>1 DEF InputTaskStep, InputGet, InputWake, HandleStart,
       HandleInterruption, HandleCancel, HandleSystem, InputCancelled,
       InputDone, Dispatch, CreateProcessTask, ResetProcessTask,
       ResetProcessQueue, StopProcessTask
<1>2. CASE ProcessTaskStep
  BY <1>2 DEF ProcessTaskStep, ProcessEnter, ProcessGet, ProcessWake,
       ProcessDone, ProcessStopped, Begin, IsOldestPut
<1>3. CASE Calls
  BY <1>3 DEF Calls, QueueFrame, PauseFrames, ResumeFrames,
       PauseSystemFrames, ResumeSystemFrames, BroadcastInterruption,
       CleanupInput, ResetProcessTask, ResetProcessQueue
<1>4. CASE CleanupProcess
  BY <1>4 DEF CleanupProcess, StopProcessTask
<1>5. CASE UNCHANGED vars
  BY <1>5 DEF vars
<1> QED
  BY <1>1, <1>2, <1>3, <1>4, <1>5 DEF Next

LEMMA SystemPauseTypeStep ==
    ASSUME TypeOK, [Next]_vars PROVE SystemPauseType'
<1> USE DEF TypeOK, SystemPauseType
<1>1. CASE InputTaskStep
  BY <1>1 DEF InputTaskStep, InputGet, InputWake, HandleStart,
       HandleInterruption, HandleCancel, HandleSystem, InputCancelled,
       InputDone
<1>2. CASE ProcessTaskStep
  BY <1>2 DEF ProcessTaskStep, ProcessEnter, ProcessGet, ProcessWake,
       ProcessDone, ProcessStopped
<1>3. CASE Calls
  BY <1>3 DEF Calls, QueueFrame, PauseFrames, ResumeFrames,
       PauseSystemFrames, ResumeSystemFrames, BroadcastInterruption,
       CleanupInput
<1>4. CASE CleanupProcess
  BY <1>4 DEF CleanupProcess
<1>5. CASE UNCHANGED vars
  BY <1>5 DEF vars
<1> QED
  BY <1>1, <1>2, <1>3, <1>4, <1>5 DEF Next

LEMMA PauseTypeStep ==
    ASSUME TypeOK, [Next]_vars PROVE PauseType'
<1> USE DEF TypeOK, PauseType
<1>1. CASE InputTaskStep
  BY <1>1 DEF InputTaskStep, InputGet, InputWake, HandleStart,
       HandleInterruption, HandleCancel, HandleSystem, InputCancelled,
       InputDone, CreateProcessTask, ResetProcessTask, StopProcessTask
<1>2. CASE ProcessTaskStep
  BY <1>2 DEF ProcessTaskStep, ProcessEnter, ProcessGet, ProcessWake,
       ProcessDone, ProcessStopped
<1>3. CASE Calls
  BY <1>3 DEF Calls, QueueFrame, PauseFrames, ResumeFrames,
       PauseSystemFrames, ResumeSystemFrames, BroadcastInterruption,
       CleanupInput, ResetProcessTask
<1>4. CASE CleanupProcess
  BY <1>4 DEF CleanupProcess, StopProcessTask
<1>5. CASE UNCHANGED vars
  BY <1>5 DEF vars
<1> QED
  BY <1>1, <1>2, <1>3, <1>4, <1>5 DEF Next

LEMMA StatusTypeStep ==
    ASSUME TypeOK, [Next]_vars PROVE StatusType'
<1> USE DEF TypeOK, StatusType
<1>1. CASE InputTaskStep
  BY <1>1 DEF InputTaskStep, InputGet, InputWake, HandleStart,
       HandleInterruption, HandleCancel, HandleSystem, InputCancelled,
       InputDone
<1>2. CASE ProcessTaskStep
  BY <1>2 DEF ProcessTaskStep, ProcessEnter, ProcessGet, ProcessWake,
       ProcessDone, ProcessStopped
<1>3. CASE Calls
  BY <1>3 DEF Calls, QueueFrame, PauseFrames, ResumeFrames,
       PauseSystemFrames, ResumeSystemFrames, BroadcastInterruption,
       CleanupInput
<1>4. CASE CleanupProcess
  BY <1>4 DEF CleanupProcess
<1>5. CASE UNCHANGED vars
  BY <1>5 DEF vars
<1> QED
  BY <1>1, <1>2, <1>3, <1>4, <1>5 DEF Next

LEMMA HistoryTypeStep ==
    ASSUME TypeOK, [Next]_vars PROVE HistoryType'
<1> USE DEF TypeOK, HistoryType
<1>1. CASE InputTaskStep
  BY <1>1 DEF InputTaskStep, InputGet, InputWake, HandleStart,
       HandleInterruption, HandleCancel, HandleSystem, InputCancelled,
       InputDone, CreateProcessTask, ResetProcessTask, ResetProcessQueue,
       StopProcessTask
<1>2. CASE ProcessTaskStep
  BY <1>2 DEF ProcessTaskStep, ProcessEnter, ProcessGet, ProcessWake,
       ProcessDone, ProcessStopped, Begin
<1>3. CASE Calls
  BY <1>3 DEF Calls, QueueFrame, PauseFrames, ResumeFrames,
       PauseSystemFrames, ResumeSystemFrames, BroadcastInterruption,
       CleanupInput, ResetProcessTask, ResetProcessQueue
<1>4. CASE CleanupProcess
  BY <1>4 DEF CleanupProcess, StopProcessTask
<1>5. CASE UNCHANGED vars
  BY <1>5 DEF vars
<1> QED
  BY <1>1, <1>2, <1>3, <1>4, <1>5 DEF Next

LEMMA InitType == Init => TypeOK
<1> SUFFICES ASSUME Init PROVE TypeOK
  OBVIOUS
<1> USE DEF Init
<1>1. InputType
  BY DEF InputType
<1>2. TaskType
  BY DEF TaskType
<1>3. SystemPauseType /\ PauseType
  BY DEF SystemPauseType, PauseType
<1>4. StatusType /\ HistoryType
  BY DEF StatusType, HistoryType
<1> QED
  BY <1>1, <1>2, <1>3, <1>4 DEF TypeOK

LEMMA NextType == TypeOK /\ [Next]_vars => TypeOK'
  BY InputTypeStep, TaskTypeStep, SystemPauseTypeStep, PauseTypeStep,
     StatusTypeStep, HistoryTypeStep DEF TypeOK

\* The variables keep their types, and a task that is working on a frame
\* names it in inputFrame or in currentFrame.
THEOREM TypeCorrect == Spec => []TypeOK
  BY InitType, NextType, PTL DEF Spec

-----------------------------------------------------------------------------
(* Cleanup.                                                                *)

CleanupInv ==
    /\ closing \in {"cancelProcess", "done"} => inputPc = "dead"
    /\ closing = "cancelProcess" => processTask = "stopping"
    /\ closing = "done" => processTask = "none"

LEMMA CleanupStep ==
    ASSUME TypeOK, CleanupInv, [Next]_vars PROVE CleanupInv'
<1> USE DEF TypeOK, StatusType, InputType, TaskType, CleanupInv
<1>1. CASE InputTaskStep
  BY <1>1 DEF InputTaskStep, InputGet, InputWake, HandleStart,
       HandleInterruption, HandleCancel, HandleSystem, InputCancelled,
       InputDone, CreateProcessTask, StopProcessTask, InputRuns
<1>2. CASE ProcessTaskStep
  BY <1>2 DEF ProcessTaskStep, ProcessEnter, ProcessGet, ProcessWake,
       ProcessDone, ProcessStopped, Begin
<1>3. CASE Calls
  BY <1>3 DEF Calls, QueueFrame, PauseFrames, ResumeFrames,
       PauseSystemFrames, ResumeSystemFrames, BroadcastInterruption,
       CleanupInput
<1>4. CASE CleanupProcess
  BY <1>4 DEF CleanupProcess, StopProcessTask
<1>5. CASE UNCHANGED vars
  BY <1>5 DEF vars
<1> QED
  BY <1>1, <1>2, <1>3, <1>4, <1>5 DEF Next

\* cleanup() leaves neither task behind, in whatever state it finds them.
THEOREM CleanupComplete == Spec => []NoTaskOutlivesCleanup
<1>1. Init => CleanupInv
  BY DEF Init, CleanupInv
<1>2. CleanupInv => NoTaskOutlivesCleanup
  BY DEF CleanupInv, NoTaskOutlivesCleanup
<1> QED
  BY <1>1, <1>2, CleanupStep, TypeCorrect, PTL DEF Spec

-----------------------------------------------------------------------------
(* Uninterruptible frames.                                                 *)

LEMMA UninterruptibleStep ==
    ASSUME TypeOK, UninterruptibleKept, [Next]_vars
    PROVE  UninterruptibleKept'
<1> USE DEF TypeOK, StatusType, TaskType, HistoryType, UninterruptibleKept
<1>1. CASE InputTaskStep
  BY <1>1 DEF InputTaskStep, InputGet, InputWake, HandleStart,
       HandleInterruption, HandleCancel, HandleSystem, InputCancelled,
       InputDone, CreateProcessTask, StopProcessTask, ResetProcessTask,
       ResetProcessQueue, Flushed
<1>2. CASE ProcessTaskStep
  BY <1>2 DEF ProcessTaskStep, ProcessEnter, ProcessGet, ProcessWake,
       ProcessDone, ProcessStopped, Begin
<1>3. CASE Calls
  BY <1>3 DEF Calls, QueueFrame, PauseFrames, ResumeFrames,
       PauseSystemFrames, ResumeSystemFrames, BroadcastInterruption,
       CleanupInput, ResetProcessTask, ResetProcessQueue, Flushed
<1>4. CASE CleanupProcess
  BY <1>4 DEF CleanupProcess, StopProcessTask
<1>5. CASE UNCHANGED vars
  BY <1>5 DEF vars
<1> QED
  BY <1>1, <1>2, <1>3, <1>4, <1>5 DEF Next

\* No interruption, however it interleaves with the two tasks, removes an
\* uninterruptible frame or cancels the task that is processing it.
THEOREM UninterruptibleSafe == Spec => []UninterruptibleKept
<1>1. Init => UninterruptibleKept
  BY DEF Init, UninterruptibleKept
<1> QED
  BY <1>1, UninterruptibleStep, TypeCorrect, PTL DEF Spec

-----------------------------------------------------------------------------
(* Where a frame is.                                                       *)

PlaceInv ==
    /\ OnePlace
    /\ inputPc = "get" => inputFrame = NoFrame

LEMMA PlaceStep ==
    ASSUME TypeOK, PlaceInv, [Next]_vars PROVE PlaceInv'
<1> USE DEF TypeOK, InputType, TaskType, HistoryType, PlaceInv, OnePlace,
      HeldByTask
<1>1. ASSUME NEW f \in Frame, InputGet(f) PROVE PlaceInv'
  BY <1>1 DEF InputGet, Dispatch
<1>2. CASE InputWake
  BY <1>2 DEF InputWake, Dispatch
<1>3. CASE HandleStart
  BY <1>3 DEF HandleStart, CreateProcessTask, ResetProcessTask,
       ResetProcessQueue, Flushed
<1>4. CASE HandleInterruption
  BY <1>4 DEF HandleInterruption, CreateProcessTask, ResetProcessTask,
       ResetProcessQueue, Flushed, StopProcessTask
<1>5. CASE HandleCancel
  BY <1>5 DEF HandleCancel, StopProcessTask
<1>6. CASE HandleSystem
  BY <1>6 DEF HandleSystem
<1>7. CASE InputCancelled
  BY <1>7 DEF InputCancelled, CreateProcessTask, ResetProcessTask,
       ResetProcessQueue, Flushed
<1>8. CASE InputDone
  BY <1>8 DEF InputDone
<1>9. ASSUME NEW f \in Frame, ProcessGet(f) PROVE PlaceInv'
  BY <1>9 DEF ProcessGet, Begin, IsOldestPut
<1>10. CASE ProcessEnter \/ ProcessWake \/ ProcessStopped
  BY <1>10 DEF ProcessEnter, ProcessWake, ProcessStopped, Begin
<1>11. CASE ProcessDone
  BY <1>11 DEF ProcessDone
<1>12. ASSUME NEW f \in Frame, QueueFrame(f) PROVE PlaceInv'
  BY <1>12 DEF QueueFrame, MayQueue
<1>13. CASE PauseFrames \/ ResumeFrames \/ PauseSystemFrames
            \/ ResumeSystemFrames \/ CleanupInput
  BY <1>13 DEF PauseFrames, ResumeFrames, PauseSystemFrames,
       ResumeSystemFrames, CleanupInput
<1>14. CASE BroadcastInterruption
  BY <1>14 DEF BroadcastInterruption, ResetProcessTask, ResetProcessQueue,
       Flushed
<1>15. CASE CleanupProcess
  BY <1>15 DEF CleanupProcess, StopProcessTask
<1>16. CASE UNCHANGED vars
  BY <1>16 DEF vars
<1> QED
  BY <1>1, <1>2, <1>3, <1>4, <1>5, <1>6, <1>7, <1>8, <1>9, <1>10, <1>11,
     <1>12, <1>13, <1>14, <1>15, <1>16
     DEF Next, InputTaskStep, ProcessTaskStep, Calls

LEMMA PlaceInvariant == Spec => []PlaceInv
<1>1. Init => PlaceInv
  BY DEF Init, PlaceInv, OnePlace, HeldByTask
<1> QED
  BY <1>1, PlaceStep, TypeCorrect, PTL DEF Spec

\* Between acceptance and its end a frame is in exactly one queue or task.
THEOREM FramesConserved == Spec => []OnePlace
<1>1. PlaceInv => OnePlace
  BY DEF PlaceInv
<1> QED
  BY <1>1, PlaceInvariant, PTL

-----------------------------------------------------------------------------
(* Order.  A frame moves from the input queue to the input task, the       *)
(* process queue and the process task; the invariant says that an older    *)
(* frame is never behind a younger one on that way.                        *)

InInput(f) == f \in inputQueue \/ f = inputFrame

\* Ranks never exceed their counters, and say how far a frame has come.
RankInv ==
    \A f \in Frame :
        /\ arrival[f] <= counter /\ putOrder[f] <= puts /\ begun[f] <= begins
        /\ outcome[f] \in {"none", "refused"} <=> arrival[f] = 0
        /\ InInput(f) \/ f \in processQueue => begun[f] = 0
        /\ processTask = "blocked" => begun[currentFrame] = 0
        /\ arrival[f] = 0 => begun[f] = 0
        /\ processTask = "processing" => begun[currentFrame] > 0
        /\ outcome[f] = "done" /\ ~IsSystem(f) => begun[f] > 0
        /\ IsSystem(f) => f \notin processQueue /\ ~HeldByTask(f)

OrderInv ==
    \A f, g \in Frame :
        Older(f, g) =>
            /\ InInput(f) => g \in inputQueue
            /\ f \in processQueue /\ g \in processQueue
                  => putOrder[f] < putOrder[g]
            /\ f \in processQueue => ~HeldByTask(g) /\ begun[g] = 0
            /\ HeldByTask(f) /\ begun[f] = 0 => begun[g] = 0

LEMMA RankStep ==
    ASSUME TypeOK, PlaceInv, RankInv, [Next]_vars PROVE RankInv'
<1> USE DEF TypeOK, InputType, TaskType, HistoryType, PlaceInv, OnePlace,
      HeldByTask, RankInv, InInput
<1>1. ASSUME NEW h \in Frame, InputGet(h) PROVE RankInv'
  BY <1>1 DEF InputGet, Dispatch, Precedes
<1>2. CASE InputWake
  BY <1>2 DEF InputWake, Dispatch
<1>3. CASE HandleStart
  BY <1>3 DEF HandleStart, CreateProcessTask, ResetProcessTask,
       ResetProcessQueue, Flushed
<1>4. CASE HandleInterruption
  BY <1>4 DEF HandleInterruption, CreateProcessTask, ResetProcessTask,
       ResetProcessQueue, Flushed, StopProcessTask
<1>5. CASE HandleCancel \/ HandleSystem
  BY <1>5 DEF HandleCancel, StopProcessTask, HandleSystem
<1>6. CASE InputCancelled
  BY <1>6 DEF InputCancelled, CreateProcessTask, ResetProcessTask,
       ResetProcessQueue, Flushed
<1>7. CASE InputDone
  BY <1>7 DEF InputDone
<1>8. ASSUME NEW h \in Frame, ProcessGet(h) PROVE RankInv'
  BY <1>8 DEF ProcessGet, Begin, IsOldestPut
<1>9. CASE ProcessEnter \/ ProcessStopped
  BY <1>9 DEF ProcessEnter, ProcessStopped
<1>10. CASE ProcessWake
  BY <1>10 DEF ProcessWake, Begin
<1>11. CASE ProcessDone
  BY <1>11 DEF ProcessDone
<1>12. ASSUME NEW h \in Frame, QueueFrame(h) PROVE RankInv'
  BY <1>12 DEF QueueFrame, MayQueue
<1>13. CASE PauseFrames \/ ResumeFrames \/ PauseSystemFrames
            \/ ResumeSystemFrames \/ CleanupInput
  BY <1>13 DEF PauseFrames, ResumeFrames, PauseSystemFrames,
       ResumeSystemFrames, CleanupInput
<1>14. CASE BroadcastInterruption
  BY <1>14 DEF BroadcastInterruption, ResetProcessTask, ResetProcessQueue,
       Flushed
<1>15. CASE CleanupProcess
  BY <1>15 DEF CleanupProcess, StopProcessTask
<1>16. CASE UNCHANGED vars
  BY <1>16 DEF vars
<1> QED
  BY <1>1, <1>2, <1>3, <1>4, <1>5, <1>6, <1>7, <1>8, <1>9, <1>10, <1>11,
     <1>12, <1>13, <1>14, <1>15, <1>16
     DEF Next, InputTaskStep, ProcessTaskStep, Calls

LEMMA OrderStep ==
    ASSUME TypeOK, PlaceInv, RankInv, OrderInv, [Next]_vars PROVE OrderInv'
<1> USE DEF TypeOK, InputType, TaskType, HistoryType, PlaceInv, OnePlace,
      HeldByTask, RankInv, InInput, OrderInv, Older
<1>1. ASSUME NEW h \in Frame, InputGet(h) PROVE OrderInv'
  BY <1>1 DEF InputGet, Dispatch, Precedes
<1>2. CASE InputWake
  BY <1>2 DEF InputWake, Dispatch
<1>3. CASE HandleStart
  BY <1>3 DEF HandleStart, CreateProcessTask, ResetProcessTask,
       ResetProcessQueue, Flushed
<1>4. CASE HandleInterruption
  BY <1>4 DEF HandleInterruption, CreateProcessTask, ResetProcessTask,
       ResetProcessQueue, Flushed, StopProcessTask
<1>5. CASE HandleCancel \/ HandleSystem
  BY <1>5 DEF HandleCancel, StopProcessTask, HandleSystem
<1>6. CASE InputCancelled
  BY <1>6 DEF InputCancelled, CreateProcessTask, ResetProcessTask,
       ResetProcessQueue, Flushed
<1>7. CASE InputDone
  BY <1>7 DEF InputDone
<1>8. ASSUME NEW h \in Frame, ProcessGet(h) PROVE OrderInv'
  BY <1>8 DEF ProcessGet, Begin, IsOldestPut
<1>9. CASE ProcessEnter \/ ProcessStopped
  BY <1>9 DEF ProcessEnter, ProcessStopped
<1>10. CASE ProcessWake
  BY <1>10 DEF ProcessWake, Begin
<1>11. CASE ProcessDone
  BY <1>11 DEF ProcessDone
<1>12. ASSUME NEW h \in Frame, QueueFrame(h) PROVE OrderInv'
  BY <1>12 DEF QueueFrame, MayQueue
<1>13. CASE PauseFrames \/ ResumeFrames \/ PauseSystemFrames
            \/ ResumeSystemFrames \/ CleanupInput
  BY <1>13 DEF PauseFrames, ResumeFrames, PauseSystemFrames,
       ResumeSystemFrames, CleanupInput
<1>14. CASE BroadcastInterruption
  BY <1>14 DEF BroadcastInterruption, ResetProcessTask, ResetProcessQueue,
       Flushed
<1>15. CASE CleanupProcess
  BY <1>15 DEF CleanupProcess, StopProcessTask
<1>16. CASE UNCHANGED vars
  BY <1>16 DEF vars
<1> QED
  BY <1>1, <1>2, <1>3, <1>4, <1>5, <1>6, <1>7, <1>8, <1>9, <1>10, <1>11,
     <1>12, <1>13, <1>14, <1>15, <1>16
     DEF Next, InputTaskStep, ProcessTaskStep, Calls

LEMMA OvertakingStep ==
    ASSUME TypeOK, PlaceInv, RankInv, OrderInv, NoOvertaking, [Next]_vars
    PROVE  NoOvertaking'
<1> USE DEF TypeOK, InputType, TaskType, HistoryType, PlaceInv, OnePlace,
      HeldByTask, RankInv, InInput, OrderInv, Older, NoOvertaking
<1>1. ASSUME NEW h \in Frame, InputGet(h) PROVE NoOvertaking'
  BY <1>1 DEF InputGet, Dispatch, Precedes
<1>2. CASE InputWake
  BY <1>2 DEF InputWake, Dispatch
<1>3. CASE HandleStart
  BY <1>3 DEF HandleStart, CreateProcessTask, ResetProcessTask,
       ResetProcessQueue, Flushed
<1>4. CASE HandleInterruption
  BY <1>4 DEF HandleInterruption, CreateProcessTask, ResetProcessTask,
       ResetProcessQueue, Flushed, StopProcessTask
<1>5. CASE HandleCancel \/ HandleSystem
  BY <1>5 DEF HandleCancel, StopProcessTask, HandleSystem
<1>6. CASE InputCancelled
  BY <1>6 DEF InputCancelled, CreateProcessTask, ResetProcessTask,
       ResetProcessQueue, Flushed
<1>7. CASE InputDone
  BY <1>7 DEF InputDone
<1>8. ASSUME NEW h \in Frame, ProcessGet(h) PROVE NoOvertaking'
  BY <1>8 DEF ProcessGet, Begin, IsOldestPut
<1>9. CASE ProcessEnter \/ ProcessStopped
  BY <1>9 DEF ProcessEnter, ProcessStopped
<1>10. CASE ProcessWake
  BY <1>10 DEF ProcessWake, Begin
<1>11. CASE ProcessDone
  BY <1>11 DEF ProcessDone
<1>12. ASSUME NEW h \in Frame, QueueFrame(h) PROVE NoOvertaking'
  BY <1>12 DEF QueueFrame, MayQueue
<1>13. CASE PauseFrames \/ ResumeFrames \/ PauseSystemFrames
            \/ ResumeSystemFrames \/ CleanupInput
  BY <1>13 DEF PauseFrames, ResumeFrames, PauseSystemFrames,
       ResumeSystemFrames, CleanupInput
<1>14. CASE BroadcastInterruption
  BY <1>14 DEF BroadcastInterruption, ResetProcessTask, ResetProcessQueue,
       Flushed
<1>15. CASE CleanupProcess
  BY <1>15 DEF CleanupProcess, StopProcessTask
<1>16. CASE UNCHANGED vars
  BY <1>16 DEF vars
<1> QED
  BY <1>1, <1>2, <1>3, <1>4, <1>5, <1>6, <1>7, <1>8, <1>9, <1>10, <1>11,
     <1>12, <1>13, <1>14, <1>15, <1>16
     DEF Next, InputTaskStep, ProcessTaskStep, Calls

\* Whatever the frames and however calls, pauses and interruptions interleave,
\* no non-system frame begins before an older one that is still to begin.
THEOREM ProcessedInOrder == Spec => []NoOvertaking
<1> DEFINE Inv == RankInv /\ OrderInv /\ NoOvertaking
<1>1. Init => Inv
  BY DEF Init, RankInv, OrderInv, NoOvertaking, Older, InInput, HeldByTask
<1>2. TypeOK /\ PlaceInv /\ Inv /\ [Next]_vars => Inv'
  BY RankStep, OrderStep, OvertakingStep
<1>3. Inv => NoOvertaking
  OBVIOUS
<1> HIDE DEF Inv
<1> QED
  BY <1>1, <1>2, <1>3, PlaceInvariant, TypeCorrect, PTL DEF Spec

-----------------------------------------------------------------------------
(* Pausing.                                                                *)

PauseInv ==
    /\ paused = "yes" =>
          /\ blockFrames /\ processEvent # "set"
          /\ ~(processTask = "blocked" /\ processWoken)
    /\ processTask # "none" => processEvent # "none"

LEMMA PauseStep ==
    ASSUME TypeOK, PauseInv, [Next]_vars PROVE PauseInv'
<1> USE DEF TypeOK, TaskType, PauseType, PauseInv
<1>1. CASE InputTaskStep
  BY <1>1 DEF InputTaskStep, InputGet, InputWake, HandleStart,
       HandleInterruption, HandleCancel, HandleSystem, InputCancelled,
       InputDone, CreateProcessTask, StopProcessTask, ResetProcessTask,
       ResetProcessQueue
<1>2. CASE ProcessTaskStep
  BY <1>2 DEF ProcessTaskStep, ProcessEnter, ProcessGet, ProcessWake,
       ProcessDone, ProcessStopped, Begin
<1>3. CASE Calls
  BY <1>3 DEF Calls, QueueFrame, PauseFrames, ResumeFrames,
       PauseSystemFrames, ResumeSystemFrames, BroadcastInterruption,
       CleanupInput, ResetProcessTask
<1>4. CASE CleanupProcess
  BY <1>4 DEF CleanupProcess, StopProcessTask
<1>5. CASE UNCHANGED vars
  BY <1>5 DEF vars
<1> QED
  BY <1>1, <1>2, <1>3, <1>4, <1>5 DEF Next

\* Only the two steps that begin a frame change begins.
LEMMA PausedStep ==
    ASSUME TypeOK, PauseInv, [Next]_vars, begins' # begins
    PROVE  paused # "yes"
<1> USE DEF TypeOK, TaskType, PauseType, PauseInv
<1>1. CASE InputTaskStep
  BY <1>1 DEF InputTaskStep, InputGet, InputWake, HandleStart,
       HandleInterruption, HandleCancel, HandleSystem, InputCancelled,
       InputDone, CreateProcessTask, StopProcessTask, ResetProcessTask,
       ResetProcessQueue
<1>2. CASE ProcessTaskStep
  BY <1>2 DEF ProcessTaskStep, ProcessEnter, ProcessGet, ProcessWake,
       ProcessDone, ProcessStopped, Begin
<1>3. CASE Calls
  BY <1>3 DEF Calls, QueueFrame, PauseFrames, ResumeFrames,
       PauseSystemFrames, ResumeSystemFrames, BroadcastInterruption,
       CleanupInput, ResetProcessTask, ResetProcessQueue
<1>4. CASE CleanupProcess
  BY <1>4 DEF CleanupProcess, StopProcessTask
<1>5. CASE UNCHANGED vars
  BY <1>5 DEF vars
<1> QED
  BY <1>1, <1>2, <1>3, <1>4, <1>5 DEF Next

\* A pause that meets no pending wake-up lets no frame begin.
THEOREM PauseEffective == Spec => PauseHolds
<1>1. Init => PauseInv
  BY DEF Init, PauseInv
<1>2. TypeOK /\ PauseInv /\ [Next]_vars
        => [begins' # begins => paused # "yes"]_vars
  BY PausedStep
<1> QED
  BY <1>1, <1>2, PauseStep, TypeCorrect, PTL DEF Spec, PauseHolds

-----------------------------------------------------------------------------
(* The state half of EveryFrameSettles: whatever the two tasks wait for    *)
(* can come.                                                               *)

\* No wake-up is lost and no task is missing.  A task that is blocked and was not woken
\* is under a pause and waits on the event that a resume sets, unless an interruption
\* was broadcast; the input task waits for a process task only while that one ends;
\* and a processor that has started has a process task, or its input task is about to
\* create the next one.
NoLostWakeup ==
    /\ processTask = "blocked" /\ ~processWoken =>
           (blockFrames /\ waitsOnCurrent) \/ MayBroadcast
    /\ inputPc = "blocked" /\ ~inputWoken => blockSystem /\ ~inputEvent
    /\ inputPc = "cancelWait" => processTask \in {"stopping", "none"}
    /\ started /\ ~cancelling /\ closing = "no" =>
           \/ processTask \notin {"none", "stopping"}
           \/ inputPc = "cancelWait" /\ Kind[inputFrame] = "interruption"

WakeInv ==
    /\ NoLostWakeup
    /\ inputPc = "cancelWait" /\ ~cancelling => Kind[inputFrame] = "interruption"
    /\ processTask = "stopping" => inputPc = "cancelWait" \/ closing = "cancelProcess"
    /\ closing = "cancelProcess" => inputPc = "dead"

LEMMA WakeStep ==
    ASSUME TypeOK, WakeInv, [Next]_vars PROVE WakeInv'
<1> USE DEF TypeOK, InputType, TaskType, SystemPauseType, PauseType, StatusType,
        WakeInv, NoLostWakeup
<1>1. CASE \E f \in Frame : InputGet(f)
  BY <1>1 DEF InputGet, Dispatch, InputRuns
<1>2. CASE InputWake
  BY <1>2 DEF InputWake, Dispatch, InputRuns
<1>3. CASE HandleStart
  BY <1>3 DEF HandleStart, CreateProcessTask, ResetProcessTask, InputRuns
<1>4. CASE HandleInterruption
  BY <1>4 DEF HandleInterruption, CreateProcessTask, StopProcessTask,
       ResetProcessTask, InputRuns
<1>5. CASE HandleCancel
  BY <1>5 DEF HandleCancel, StopProcessTask, InputRuns
<1>6. CASE HandleSystem \/ InputDone
  BY <1>6 DEF HandleSystem, InputDone, InputRuns
<1>7. CASE InputCancelled
  BY <1>7 DEF InputCancelled, CreateProcessTask, ResetProcessTask
<1>8. CASE ProcessTaskStep
  BY <1>8 DEF ProcessTaskStep, ProcessEnter, ProcessGet, ProcessWake,
       ProcessDone, ProcessStopped, Begin
<1>9. CASE Calls
  BY <1>9 DEF Calls, QueueFrame, PauseFrames, ResumeFrames,
       PauseSystemFrames, ResumeSystemFrames, BroadcastInterruption,
       CleanupInput, ResetProcessTask
<1>10. CASE CleanupProcess
  BY <1>10 DEF CleanupProcess, StopProcessTask
<1>11. CASE UNCHANGED vars
  BY <1>11 DEF vars
<1> QED
  BY <1>1, <1>2, <1>3, <1>4, <1>5, <1>6, <1>7, <1>8, <1>9, <1>10, <1>11
     DEF Next, InputTaskStep

\* Interruptions, pauses, resumes and cleanup, in any order, leave no task asleep that
\* a later resume would not wake, and no started processor without its process task.
THEOREM WakeupsArrive == Spec => []NoLostWakeup
<1>1. Init => WakeInv
  BY DEF Init, WakeInv, NoLostWakeup
<1>2. WakeInv => NoLostWakeup
  BY DEF WakeInv
<1> QED
  BY <1>1, <1>2, WakeStep, TypeCorrect, PTL DEF Spec

-----------------------------------------------------------------------------
(* The refinement of FrameDelivery.                                        *)

\* What the invariants say of the two lanes.
LaneInv == TypeOK /\ PlaceInv /\ RankInv /\ OrderInv

LEMMA LaneInvariant == Spec => []LaneInv
<1>1. Init => RankInv /\ OrderInv
  BY DEF Init, RankInv, OrderInv, Older, InInput, HeldByTask
<1>2. TypeOK /\ PlaceInv /\ RankInv /\ OrderInv /\ [Next]_vars
        => (RankInv /\ OrderInv)'
  BY RankStep, OrderStep
<1> QED
  BY <1>1, <1>2, PlaceInvariant, TypeCorrect, PTL DEF Spec, LaneInv

Ending == cancelling \/ closing # "no"

LEMMA StatusIs == \A f \in Frame : DeliveryStatus[f] = StatusOf(f)
  BY DEF DeliveryStatus

\* One frame changes its status ...
LEMMA StatusSettles ==
    ASSUME NEW f \in Frame, NEW end, StatusOf(f)' = end,
           \A g \in Frame \ {f} : StatusOf(g)' = StatusOf(g)
    PROVE  DeliveryStatus' = [DeliveryStatus EXCEPT ![f] = end]
  BY DEF DeliveryStatus

\* ... or none does.
LEMMA StatusStays ==
    ASSUME \A g \in Frame : StatusOf(g)' = StatusOf(g),
           UNCHANGED <<arrival, counter>>, Ending' = Ending
    PROVE  UNCHANGED D!vars
  BY DEF DeliveryStatus, D!vars, Ending

\* Resetting the process queue is a Drop, when it may happen at all.
LEMMA FlushDrops ==
    ASSUME LaneInv, ResetProcessQueue,
           UNCHANGED <<arrival, counter, inputFrame>>, Ending' = Ending,
           \A g \in Frame : HeldByTask(g)' = HeldByTask(g),
           \/ MayBroadcast
           \/ /\ inputFrame \in Frame
              /\ Kind[inputFrame] \in {"start", "interruption"}
    PROVE  D!Next
<1> USE DEF LaneInv, TypeOK, InputType, TaskType, HistoryType, PlaceInv,
      OnePlace, RankInv, OrderInv, Older, InInput
<1>1. \A g \in Flushed : StatusOf(g) = "waiting" /\ ~IsSystem(g)
                         /\ Kind[g] # "uninterruptible"
  BY DEF Flushed, StatusOf, Taken
<1>2. \A g \in Flushed : StatusOf(g)' = "dropped"
  BY DEF Flushed, StatusOf, ResetProcessQueue
<1>3. \A g \in Frame \ Flushed : StatusOf(g)' = StatusOf(g)
  BY DEF StatusOf, Taken, ResetProcessQueue
<1>4. Flushed \in SUBSET D!Droppable
  BY <1>1, StatusIs DEF D!Droppable, D!IsSystem, Flushed
<1>5. DeliveryStatus' = [g \in Frame |-> IF g \in Flushed THEN "dropped"
                                         ELSE DeliveryStatus[g]]
  BY <1>2, <1>3 DEF DeliveryStatus
<1>6. ASSUME NEW f \in Flushed, NEW g \in D!Droppable, arrival[g] < arrival[f]
      PROVE  g \in Flushed
  <2>1. g \in Frame /\ StatusOf(g) = "waiting" /\ ~IsSystem(g)
        /\ Kind[g] # "uninterruptible"
    BY <1>6, StatusIs DEF D!Droppable, D!IsSystem
  <2>2. outcome[g] = "queued" /\ ~HeldByTask(g)
    BY <2>1 DEF StatusOf, Taken
  <2>3. f \in Frame /\ ~IsSystem(f) /\ f \in processQueue
    BY <1>1 DEF Flushed
  <2>4. Older(g, f)
    BY <1>6, <2>1, <2>2, <2>3
  <2> QED
    BY <2>1, <2>2, <2>3, <2>4 DEF Flushed
<1>7. MayBroadcast \/ D!Handles({"start", "interruption"})
  <2>1. ASSUME inputFrame \in Frame,
               Kind[inputFrame] \in {"start", "interruption"}
        PROVE  StatusOf(inputFrame) = "taken"
    BY <2>1 DEF StatusOf, Taken, SystemKinds
  <2> QED
    BY <2>1, StatusIs DEF D!Handles
<1>8. D!Drop(Flushed)
  BY <1>5, <1>6, <1>7 DEF D!Drop, Ending
<1> QED
  BY <1>4, <1>8 DEF D!Next

LEMMA TakeStep ==
    ASSUME LaneInv, NEW f \in Frame, outcome[f] = "queued", ~Taken(f),
           UNCHANGED <<arrival, counter, outcome>>, Ending' = Ending,
           Taken(f)', \A g \in Frame \ {f} : Taken(g)' = Taken(g),
           \A g \in Frame : (IsSystem(f) <=> IsSystem(g)) =>
              /\ ~Taken(g)
              /\ outcome[g] = "queued" => arrival[f] <= arrival[g]
    PROVE  D!Next
<1>1. StatusOf(f) = "waiting" /\ StatusOf(f)' = "taken"
  BY DEF StatusOf
<1>2. \A g \in Frame \ {f} : StatusOf(g)' = StatusOf(g)
  BY DEF StatusOf
<1>3. \A g \in Frame : (IsSystem(f) <=> IsSystem(g)) =>
          /\ StatusOf(g) # "taken"
          /\ StatusOf(g) = "waiting" => arrival[f] <= arrival[g]
  BY DEF StatusOf, LaneInv, TypeOK, HistoryType
<1>4. D!Take(f)
  BY <1>1, <1>2, <1>3, StatusIs, StatusSettles
     DEF D!Take, D!Settle, D!SameLane, D!IsSystem, Ending
<1> QED
  BY <1>4 DEF D!Next

\* A frame in work is finished or abandoned.
LEMMA ReleaseStep ==
    ASSUME LaneInv, NEW f \in Frame, outcome[f] = "queued", Taken(f),
           UNCHANGED <<arrival, counter>>,
           \A g \in Frame \ {f} : Taken(g)' = Taken(g) /\ outcome'[g] = outcome[g],
           \/ outcome'[f] = "done" /\ Ending' = Ending
           \/ /\ outcome'[f] = "aborted" /\ ~IsSystem(f)
              /\ Ending' \in {Ending, TRUE}
              /\ \/ Ending'
                 \/ /\ Kind[f] # "uninterruptible"
                    /\ inputFrame \in Frame
                    /\ Kind[inputFrame] = "interruption"
    PROVE  D!Next
<1>1. StatusOf(f) = "taken"
  BY DEF StatusOf
<1>2. \A g \in Frame \ {f} : StatusOf(g)' = StatusOf(g)
  BY DEF StatusOf
<1>3. CASE outcome'[f] = "done" /\ Ending' = Ending
  <2>1. StatusOf(f)' = "done"
    BY <1>3 DEF StatusOf
  <2> QED
    BY <1>1, <1>2, <1>3, <2>1, StatusIs, StatusSettles
       DEF D!Finish, D!Settle, D!Next, Ending
<1>4. CASE outcome'[f] = "aborted"
  <2>1. StatusOf(f)' = "dropped"
    BY <1>4 DEF StatusOf
  <2>2. ASSUME inputFrame \in Frame, Kind[inputFrame] = "interruption"
        PROVE  D!Handles({"interruption"})
    <3>1. StatusOf(inputFrame) = "taken"
      BY <2>2 DEF StatusOf, Taken, SystemKinds, LaneInv, PlaceInv, OnePlace
    <3> QED
      BY <2>2, <3>1, StatusIs DEF D!Handles
  <2>3. Ending' \/ (D!Handles({"interruption"}) /\ Kind[f] # "uninterruptible")
    BY <1>4, <2>2
  <2>4. D!Abandon(f)
    BY <1>1, <1>2, <1>4, <2>1, <2>3, StatusIs, StatusSettles
       DEF D!Abandon, D!Settle, D!IsSystem, Ending
  <2> QED
    BY <2>4 DEF D!Next
<1> QED
  BY <1>3, <1>4

LEMMA EndStep ==
    ASSUME Ending', UNCHANGED <<arrival, counter>>,
           \A g \in Frame : StatusOf(g)' = StatusOf(g)
    PROVE  D!Next
  BY DEF D!Next, D!End, DeliveryStatus, Ending

LEMMA DeliveryStep ==
    ASSUME LaneInv, [Next]_vars PROVE D!Next \/ UNCHANGED D!vars
<1> USE DEF LaneInv, TypeOK, InputType, TaskType, HistoryType, StatusType,
      PlaceInv, OnePlace, HeldByTask, Ending
<1>1. ASSUME NEW f \in Frame, QueueFrame(f) PROVE D!Next
  <2>1. StatusOf(f) = "none"
    BY <1>1 DEF QueueFrame, MayQueue, StatusOf
  <2>2. \A g \in Frame \ {f} : StatusOf(g)' = StatusOf(g)
    BY <1>1 DEF QueueFrame, StatusOf, Taken
  <2>3. CASE cancelling
    <3>1. StatusOf(f)' = "refused"
      BY <1>1, <2>3 DEF QueueFrame, StatusOf
    <3> QED
      BY <1>1, <2>1, <2>2, <2>3, <3>1, StatusIs, StatusSettles
         DEF QueueFrame, D!Refuse, D!Settle, D!Next
  <2>4. CASE ~cancelling
    <3>1. StatusOf(f)' = "waiting"
      BY <1>1, <2>1, <2>4 DEF QueueFrame, MayQueue, StatusOf, Taken
    <3> QED
      BY <1>1, <2>1, <2>2, <2>4, <3>1, StatusIs, StatusSettles
         DEF QueueFrame, D!Accept, D!Settle, D!Next
  <2> QED
    BY <2>3, <2>4
<1>2. ASSUME NEW f \in Frame, InputGet(f) PROVE D!Next \/ UNCHANGED D!vars
  <2>1. outcome[f] = "queued" /\ ~Taken(f) /\ inputFrame = NoFrame
    BY <1>2 DEF InputGet, Taken
  <2>2. CASE IsSystem(f)
    <3>1. /\ Taken(f)' /\ UNCHANGED <<arrival, counter, outcome>>
          /\ Ending' = Ending
      BY <1>2, <2>2 DEF InputGet, Taken, Dispatch
    <3>2. \A g \in Frame \ {f} : Taken(g)' = Taken(g)
      BY <1>2, <2>1, <2>2 DEF InputGet, Taken, Dispatch
    <3>3. \A g \in Frame : IsSystem(g) =>
             /\ ~Taken(g)
             /\ outcome[g] = "queued" => arrival[f] <= arrival[g]
      BY <1>2, <2>1, <2>2 DEF InputGet, Taken, Precedes, RankInv, OrderInv
    <3> QED
      BY <2>1, <2>2, <3>1, <3>2, <3>3, TakeStep
  <2>3. CASE ~IsSystem(f)
    <3>1. \A g \in Frame : StatusOf(g)' = StatusOf(g)
      BY <1>2, <2>1, <2>3 DEF InputGet, StatusOf, Taken, Dispatch
    <3> QED
      BY <1>2, <3>1, StatusStays DEF InputGet
  <2> QED
    BY <2>2, <2>3
<1>3. CASE InputWake
  <2>1. \A g \in Frame : StatusOf(g)' = StatusOf(g)
    BY <1>3 DEF InputWake, StatusOf, Taken, Dispatch
  <2> QED
    BY <1>3, <2>1, StatusStays DEF InputWake
<1>4. ASSUME CreateProcessTask, UNCHANGED <<arrival, counter, inputFrame>>,
             Ending' = Ending, inputFrame \in Frame,
             Kind[inputFrame] \in {"start", "interruption"}
      PROVE  D!Next \/ UNCHANGED D!vars
  <2>1. CASE processTask = "none"
    BY <1>4, <2>1, FlushDrops DEF CreateProcessTask, ResetProcessTask
  <2>2. CASE processTask # "none"
    <3>1. \A g \in Frame : StatusOf(g)' = StatusOf(g)
      BY <1>4, <2>2 DEF CreateProcessTask, StatusOf, Taken
    <3> QED
      BY <1>4, <3>1, StatusStays
  <2> QED
    BY <2>1, <2>2
<1>5. ASSUME StopProcessTask, UNCHANGED <<arrival, counter, inputFrame>>,
             Ending' \in {Ending, TRUE},
             \/ Ending'
             \/ /\ inputFrame \in Frame /\ Kind[inputFrame] = "interruption"
                /\ ~IsUninterruptible(currentFrame)
      PROVE  D!Next \/ UNCHANGED D!vars
  <2>1. CASE processTask \in {"blocked", "processing"}
    <3>1. currentFrame \in Frame /\ ~IsSystem(currentFrame)
          /\ outcome[currentFrame] = "queued"
      BY <2>1 DEF RankInv
    <3>2. Taken(currentFrame) /\ outcome'[currentFrame] = "aborted"
      BY <1>5, <2>1, <3>1 DEF Taken, StopProcessTask
    <3>3. \A g \in Frame \ {currentFrame} :
             Taken(g)' = Taken(g) /\ outcome'[g] = outcome[g]
      BY <1>5, <2>1, <3>1 DEF Taken, StopProcessTask
    <3> QED
      BY <1>5, <3>1, <3>2, <3>3, ReleaseStep
  <2>2. CASE processTask \notin {"blocked", "processing"}
    <3>1. \A g \in Frame : StatusOf(g)' = StatusOf(g)
      BY <1>5, <2>2 DEF StopProcessTask, StatusOf, Taken
    <3> QED
      BY <1>5, <3>1, StatusStays, EndStep
  <2> QED
    BY <2>1, <2>2
<1>6. CASE HandleStart
  BY <1>4, <1>6 DEF HandleStart
<1>7. CASE HandleInterruption
  <2>1. CASE ResetProcessQueue /\ UNCHANGED taskVars
    BY <1>7, <2>1, FlushDrops DEF HandleInterruption
  <2>2. CASE CreateProcessTask
    BY <1>4, <1>7, <2>2 DEF HandleInterruption
  <2>3. CASE StopProcessTask /\ ~IsUninterruptible(currentFrame)
    BY <1>5, <1>7, <2>3 DEF HandleInterruption
  <2> QED
    BY <1>7, <2>1, <2>2, <2>3 DEF HandleInterruption
<1>8. CASE HandleCancel
  <2>1. CASE processTask = "none"
    <3>1. \A g \in Frame : StatusOf(g)' = StatusOf(g)
      BY <1>8, <2>1 DEF HandleCancel, StatusOf, Taken
    <3> QED
      BY <1>8, <3>1, EndStep DEF HandleCancel
  <2>2. CASE processTask # "none"
    BY <1>5, <1>8, <2>2 DEF HandleCancel
  <2> QED
    BY <2>1, <2>2
<1>9. CASE HandleSystem
  <2>1. \A g \in Frame : StatusOf(g)' = StatusOf(g)
    BY <1>9 DEF HandleSystem, StatusOf, Taken
  <2> QED
    BY <1>9, <2>1, StatusStays DEF HandleSystem
<1>10. CASE InputCancelled
  <2>1. CASE Kind[inputFrame] = "interruption"
    BY <1>4, <1>10, <2>1 DEF InputCancelled
  <2>2. CASE Kind[inputFrame] # "interruption"
    <3>1. \A g \in Frame : StatusOf(g)' = StatusOf(g)
      BY <1>10, <2>2 DEF InputCancelled, StatusOf, Taken
    <3> QED
      BY <1>10, <2>2, <3>1, StatusStays DEF InputCancelled
  <2> QED
    BY <2>1, <2>2
<1>11. CASE InputDone
  <2>1. /\ inputFrame \in Frame /\ IsSystem(inputFrame)
        /\ outcome[inputFrame] = "queued"
    BY <1>11 DEF InputDone
  <2>2. Taken(inputFrame) /\ outcome'[inputFrame] = "done"
    BY <1>11, <2>1 DEF InputDone, Taken
  <2>3. \A g \in Frame \ {inputFrame} :
           Taken(g)' = Taken(g) /\ outcome'[g] = outcome[g]
    BY <1>11, <2>1 DEF InputDone, Taken
  <2> QED
    BY <1>11, <2>1, <2>2, <2>3, ReleaseStep DEF InputDone
<1>12. ASSUME NEW f \in Frame, ProcessGet(f) PROVE D!Next
  <2>1. outcome[f] = "queued" /\ ~IsSystem(f) /\ ~Taken(f)
    BY <1>12 DEF ProcessGet, IsOldestPut, Taken, RankInv
  <2>2. Taken(f)' /\ UNCHANGED <<arrival, counter, outcome>>
        /\ Ending' = Ending
    BY <1>12, <2>1 DEF ProcessGet, Begin, Taken
  <2>3. \A g \in Frame \ {f} : Taken(g)' = Taken(g)
    BY <1>12 DEF ProcessGet, Begin, Taken
  <2>4. ASSUME NEW g \in Frame, ~IsSystem(g)
        PROVE  /\ ~Taken(g)
               /\ outcome[g] = "queued" => arrival[f] <= arrival[g]
    <3>1. ~Taken(g)
      BY <1>12, <2>4 DEF ProcessGet, Taken
    <3>2. ASSUME outcome[g] = "queued", arrival[g] < arrival[f] PROVE FALSE
      <4>1. Older(g, f)
        BY <2>1, <2>4, <3>2 DEF Older, RankInv
      <4>2. g \in processQueue
        BY <1>12, <3>1, <3>2, <4>1, <2>4
           DEF OrderInv, InInput, Taken, ProcessGet, IsOldestPut
      <4> QED
        BY <1>12, <4>1, <4>2 DEF OrderInv, ProcessGet, IsOldestPut
    <3> QED
      BY <3>1, <3>2
  <2> QED
    BY <2>1, <2>2, <2>3, <2>4, TakeStep
<1>13. CASE ProcessEnter \/ ProcessWake \/ ProcessStopped
  <2>1. \A g \in Frame : StatusOf(g)' = StatusOf(g)
    BY <1>13 DEF ProcessEnter, ProcessWake, ProcessStopped, Begin, StatusOf,
         Taken
  <2> QED
    BY <1>13, <2>1, StatusStays
       DEF ProcessEnter, ProcessWake, ProcessStopped
<1>14. CASE ProcessDone
  <2>1. /\ currentFrame \in Frame /\ ~IsSystem(currentFrame)
        /\ outcome[currentFrame] = "queued"
    BY <1>14 DEF ProcessDone, RankInv
  <2>2. Taken(currentFrame) /\ outcome'[currentFrame] = "done"
    BY <1>14, <2>1 DEF ProcessDone, Taken
  <2>3. \A g \in Frame \ {currentFrame} :
           Taken(g)' = Taken(g) /\ outcome'[g] = outcome[g]
    BY <1>14, <2>1 DEF ProcessDone, Taken
  <2> QED
    BY <1>14, <2>1, <2>2, <2>3, ReleaseStep DEF ProcessDone
<1>15. CASE PauseFrames \/ ResumeFrames \/ PauseSystemFrames
            \/ ResumeSystemFrames
  <2>1. \A g \in Frame : StatusOf(g)' = StatusOf(g)
    BY <1>15 DEF PauseFrames, ResumeFrames, PauseSystemFrames,
         ResumeSystemFrames, StatusOf, Taken
  <2> QED
    BY <1>15, <2>1, StatusStays
       DEF PauseFrames, ResumeFrames, PauseSystemFrames, ResumeSystemFrames
<1>16. CASE BroadcastInterruption
  BY <1>16, FlushDrops DEF BroadcastInterruption, ResetProcessTask
<1>17. CASE CleanupInput
  <2>1. \A g \in Frame : StatusOf(g)' = StatusOf(g)
    BY <1>17 DEF CleanupInput, StatusOf, Taken
  <2> QED
    BY <1>17, <2>1, EndStep DEF CleanupInput
<1>18. CASE CleanupProcess
  <2>1. CASE processTask = "none"
    <3>1. \A g \in Frame : StatusOf(g)' = StatusOf(g)
      BY <1>18, <2>1 DEF CleanupProcess, StatusOf, Taken
    <3> QED
      BY <1>18, <2>1, <3>1, EndStep DEF CleanupProcess
  <2>2. CASE processTask # "none"
    BY <1>5, <1>18, <2>2 DEF CleanupProcess
  <2> QED
    BY <2>1, <2>2
<1>19. CASE UNCHANGED vars
  <2>1. \A g \in Frame : StatusOf(g)' = StatusOf(g)
    BY <1>19 DEF vars, StatusOf, Taken
  <2> QED
    BY <1>19, <2>1, StatusStays DEF vars
<1> QED
  BY <1>1, <1>2, <1>3, <1>6, <1>7, <1>8, <1>9, <1>10, <1>11, <1>12, <1>13,
     <1>14, <1>15, <1>16, <1>17, <1>18, <1>19
     DEF Next, InputTaskStep, ProcessTaskStep, Calls

\* The detailed processor implements FrameDelivery: every step of its queues
\* and tasks is a step of the two lanes or leaves them alone.
THEOREM DeliveryImplemented == Spec => Delivers
<1>1. Init => D!Init
  BY DEF Init, D!Init, DeliveryStatus, StatusOf
<1>2. LaneInv /\ [Next]_vars => [D!Next]_(D!vars)
  BY DeliveryStep
<1> QED
  BY <1>1, <1>2, LaneInvariant, PTL DEF Spec, Delivers, D!Spec

=============================================================================
