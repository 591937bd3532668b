--------------------------- MODULE FrameProcessor ---------------------------
(***************************************************************************)
(* One pipecat FrameProcessor (processors/frame_processor.py): the         *)
(* priority input queue and its task, the queue of non-system frames and   *)
(* its task, pausing, interruption, cancellation and cleanup.              *)
(*                                                                         *)
(* asyncio runs one coroutine at a time, so an action is the code between  *)
(* two suspension points.  A queue is the set of the frames it holds: the  *)
(* input queue is a heap keyed by (priority, arrival number), exactly as   *)
(* in FrameProcessorQueue, and the process queue is ordered by the number  *)
(* putOrder gives a frame when it is put.  reset() re-puts what it keeps   *)
(* in order, so it leaves the relative numbers alone.                      *)
(***************************************************************************)
EXTENDS Naturals

CONSTANTS
    Frame,          \* the frames that may be queued to the processor
    Kind,           \* [Frame -> Kinds]
    MayPause,       \* do callers use pause_processing_frames() ?
    MayBroadcast,   \* do callers use broadcast_interruption() ?
    NoFrame         \* Python's None

SystemKinds == {"start", "interruption", "cancel", "system"}
Kinds == SystemKinds \cup {"data", "uninterruptible"}

ASSUME FrameAssumption ==
    /\ Kind \in [Frame -> Kinds]
    /\ NoFrame \notin Frame
    /\ MayPause \in BOOLEAN
    /\ MayBroadcast \in BOOLEAN

IsSystem(f) == f \in Frame /\ Kind[f] \in SystemKinds
IsUninterruptible(f) == f \in Frame /\ Kind[f] = "uninterruptible"

VARIABLES
    arrival,        \* number queue_frame gave the frame, 0 before
    counter,        \* the last number given
    inputQueue,     \* __input_queue
    inputPc,        \* where __input_frame_task is
    inputFrame,     \* the frame it holds
    blockSystem,    \* __should_block_system_frames
    inputEvent,     \* is __input_event set?
    inputWoken,     \* has its waiter been woken?
    started,        \* __started
    cancelling,     \* _cancelling
    processQueue,   \* __process_queue
    putOrder,       \* position of a frame in __process_queue
    puts,           \* the last position given
    processTask,    \* where __process_frame_task is, "none" if there is none
    currentFrame,   \* __process_current_frame, also the frame the task holds
    blockFrames,    \* __should_block_frames
    processEvent,   \* __process_event: "none", "clear" or "set"
    waitsOnCurrent, \* does the blocked task wait on the current event?
    processWoken,   \* has the waiter of the process event been woken?
    closing,        \* progress of cleanup()
    outcome,        \* history: what became of a frame
    begun,          \* history: rank in which a frame began processing
    begins,         \* history: the last rank given
    paused          \* history: what the callers of pause and resume expect

inputVars == <<arrival, counter, inputQueue>>
inputTaskVars == <<inputPc, inputFrame>>
systemPauseVars == <<blockSystem, inputEvent, inputWoken>>
statusVars == <<started, cancelling, closing>>
queueVars == <<processQueue, putOrder, puts>>
taskVars == <<processTask, currentFrame>>
pauseVars == <<blockFrames, processEvent, waitsOnCurrent, processWoken, paused>>
historyVars == <<outcome, begun, begins>>

vars == <<inputVars, inputTaskVars, systemPauseVars, statusVars, queueVars,
          taskVars, pauseVars, historyVars>>

InputPcs == {"get", "blocked", "handling", "cancelWait", "busy", "dead"}
TaskPcs == {"none", "new", "get", "blocked", "processing", "stopping"}
Outcomes == {"none", "queued", "done", "flushed", "aborted", "refused"}

InputType ==
    /\ arrival \in [Frame -> Nat] /\ counter \in Nat
    /\ inputQueue \subseteq Frame
    /\ inputPc \in InputPcs
    /\ inputFrame \in Frame \cup {NoFrame}
    /\ inputPc \notin {"get", "dead"} => inputFrame \in Frame
    /\ inputPc \in {"handling", "cancelWait", "busy"} => IsSystem(inputFrame)

TaskType ==
    /\ processQueue \subseteq Frame
    /\ putOrder \in [Frame -> Nat] /\ puts \in Nat
    /\ processTask \in TaskPcs
    /\ currentFrame \in Frame \cup {NoFrame}
    /\ processTask \in {"blocked", "processing"} => currentFrame \in Frame

SystemPauseType ==
    /\ blockSystem \in BOOLEAN /\ inputEvent \in BOOLEAN
    /\ inputWoken \in BOOLEAN

PauseType ==
    /\ blockFrames \in BOOLEAN
    /\ processEvent \in {"none", "clear", "set"}
    /\ waitsOnCurrent \in BOOLEAN /\ processWoken \in BOOLEAN
    /\ paused \in {"no", "yes", "racing"}

StatusType ==
    /\ started \in BOOLEAN /\ cancelling \in BOOLEAN
    /\ closing \in {"no", "cancelInput", "swallowed", "cancelProcess", "done"}

HistoryType ==
    /\ outcome \in [Frame -> Outcomes]
    /\ begun \in [Frame -> Nat] /\ begins \in Nat

\* A task that works on a frame has it in inputFrame or in currentFrame.
TypeOK ==
    /\ InputType /\ TaskType /\ SystemPauseType /\ PauseType
    /\ StatusType /\ HistoryType

\* The state setup() leaves: the input task exists, the process task does not.
Init ==
    /\ arrival = [f \in Frame |-> 0] /\ counter = 0
    /\ inputQueue = {}
    /\ inputPc = "get" /\ inputFrame = NoFrame
    /\ blockSystem = FALSE /\ inputEvent = FALSE /\ inputWoken = FALSE
    /\ started = FALSE /\ cancelling = FALSE /\ closing = "no"
    /\ processQueue = {}
    /\ putOrder = [f \in Frame |-> 0] /\ puts = 0
    /\ processTask = "none" /\ currentFrame = NoFrame
    /\ blockFrames = FALSE /\ processEvent = "none"
    /\ waitsOnCurrent = FALSE /\ processWoken = FALSE /\ paused = "no"
    /\ outcome = [f \in Frame |-> "none"]
    /\ begun = [f \in Frame |-> 0] /\ begins = 0

-----------------------------------------------------------------------------
(* The process queue and the process task.                                 *)

\* Mutant: the reset forgets that some frames must survive it.
Flushed_All == processQueue

\* Frames reset() removes from the process queue.
Flushed == {f \in processQueue : ~IsUninterruptible(f)}

ResetProcessQueue ==
    /\ processQueue' = processQueue \ Flushed
    /\ outcome' = [f \in Frame |->
                      IF f \in Flushed THEN "flushed" ELSE outcome[f]]
    /\ UNCHANGED <<putOrder, puts, begun, begins>>

\* A fresh event: a task that waits on the old one is not told.
ResetProcessTask ==
    /\ blockFrames' = FALSE
    /\ processEvent' = "clear"
    /\ waitsOnCurrent' = FALSE
    /\ paused' = "no"
    /\ UNCHANGED processWoken
    /\ ResetProcessQueue

CreateProcessTask ==
    IF processTask = "none"
      THEN /\ ResetProcessTask
           /\ processTask' = "new"
           /\ UNCHANGED currentFrame
      ELSE UNCHANGED <<queueVars, taskVars, pauseVars, historyVars>>

\* task.cancel(): the frame the task holds will not be completed.
StopProcessTask ==
    /\ processTask' = "stopping"
    /\ outcome' = IF processTask \in {"blocked", "processing"}
                    THEN [outcome EXCEPT ![currentFrame] = "aborted"]
                    ELSE outcome
    /\ UNCHANGED <<queueVars, currentFrame, pauseVars, begun, begins>>

\* The task's first step, before it looks at its queue.
ProcessEnter ==
    /\ processTask = "new"
    /\ processTask' = "get"
    /\ currentFrame' = NoFrame
    /\ UNCHANGED <<inputVars, inputTaskVars, systemPauseVars, statusVars,
                   queueVars, pauseVars, historyVars>>

Begin(f) ==
    /\ processTask' = "processing"
    /\ begins' = begins + 1
    /\ begun' = [begun EXCEPT ![f] = begins + 1]
    /\ UNCHANGED outcome

IsOldestPut(f) ==
    /\ f \in processQueue
    /\ \A g \in processQueue : putOrder[f] <= putOrder[g]

\* Mutant: the task takes a frame without noting it as the current one.
ProcessGet_Unnoted(f) ==
    /\ processTask = "get"
    /\ IsOldestPut(f)
    /\ ~blockFrames
    /\ processQueue' = processQueue \ {f}
    /\ Begin(f)
    /\ UNCHANGED <<inputVars, inputTaskVars, systemPauseVars, statusVars,
                   putOrder, puts, currentFrame, pauseVars>>

\* An event that is already set lets the task through and is cleared.
ProcessGet(f) ==
    /\ processTask = "get"
    /\ IsOldestPut(f)
    /\ processQueue' = processQueue \ {f}
    /\ currentFrame' = f
    /\ \/ /\ blockFrames /\ processEvent = "clear"
          /\ processTask' = "blocked"
          /\ waitsOnCurrent' = TRUE /\ processWoken' = FALSE
          /\ UNCHANGED <<blockFrames, processEvent, paused, historyVars>>
       \/ /\ blockFrames /\ processEvent = "set"
          /\ blockFrames' = FALSE /\ processEvent' = "clear"
          /\ Begin(f)
          /\ UNCHANGED <<waitsOnCurrent, processWoken, paused>>
       \/ /\ ~blockFrames
          /\ Begin(f)
          /\ UNCHANGED pauseVars
    /\ UNCHANGED <<inputVars, inputTaskVars, systemPauseVars, statusVars,
                   putOrder, puts>>

\* wait() returned: the flag is not looked at again.
ProcessWake ==
    /\ processTask = "blocked" /\ processWoken
    /\ processEvent' = "clear"
    /\ blockFrames' = FALSE
    /\ processWoken' = FALSE /\ waitsOnCurrent' = FALSE
    /\ Begin(currentFrame)
    /\ UNCHANGED <<inputVars, inputTaskVars, systemPauseVars, statusVars,
                   queueVars, currentFrame, paused>>

\* process_frame() returned or raised: an exception becomes an ErrorFrame.
ProcessDone ==
    /\ processTask = "processing"
    /\ processTask' = "get"
    /\ currentFrame' = NoFrame
    /\ outcome' = [outcome EXCEPT ![currentFrame] = "done"]
    /\ UNCHANGED <<inputVars, inputTaskVars, systemPauseVars, statusVars,
                   queueVars, pauseVars, begun, begins>>

\* A cancelled task ends; __process_current_frame keeps its last value.
ProcessStopped ==
    /\ processTask = "stopping"
    /\ processTask' = "none"
    /\ closing' = IF closing = "cancelProcess" THEN "done" ELSE closing
    /\ UNCHANGED <<inputVars, inputTaskVars, systemPauseVars, started,
                   cancelling, queueVars, currentFrame, pauseVars,
                   historyVars>>

-----------------------------------------------------------------------------
(* The input queue and the input task.                                     *)

\* A frame object is queued to a processor once.  The worker pushes the
\* StartFrame before anything else, so it is ahead of any interruption or
\* CancelFrame; a neighbour may push other frames before it forwards it.
MayQueue(f) ==
    /\ outcome[f] = "none"
    /\ Kind[f] \in {"interruption", "cancel"} =>
          \E s \in Frame : Kind[s] = "start" /\ outcome[s] # "none"

QueueFrame(f) ==
    /\ MayQueue(f)
    /\ \/ /\ cancelling
          /\ outcome' = [outcome EXCEPT ![f] = "refused"]
          /\ UNCHANGED inputVars
       \/ /\ ~cancelling
          /\ outcome' = [outcome EXCEPT ![f] = "queued"]
          /\ counter' = counter + 1
          /\ arrival' = [arrival EXCEPT ![f] = counter + 1]
          /\ inputQueue' = inputQueue \cup {f}
    /\ UNCHANGED <<inputTaskVars, systemPauseVars, statusVars, queueVars,
                   taskVars, pauseVars, begun, begins>>

\* The order of the heap: (priority, arrival number).
Precedes(f, g) ==
    \/ IsSystem(f) /\ ~IsSystem(g)
    \/ (IsSystem(f) <=> IsSystem(g)) /\ arrival[f] <= arrival[g]

InputRuns == closing \in {"no", "swallowed"}

\* System frames are handled at once, the others are put for the process task.
Dispatch(f) ==
    IF IsSystem(f)
      THEN /\ inputPc' = "handling" /\ inputFrame' = f
           /\ UNCHANGED queueVars
      ELSE /\ inputPc' = "get" /\ inputFrame' = NoFrame
           /\ processQueue' = processQueue \cup {f}
           /\ puts' = puts + 1
           /\ putOrder' = [putOrder EXCEPT ![f] = puts + 1]

InputGet(f) ==
    /\ InputRuns /\ inputPc = "get"
    /\ f \in inputQueue /\ \A g \in inputQueue : Precedes(f, g)
    /\ inputQueue' = inputQueue \ {f}
    /\ \/ /\ blockSystem /\ ~inputEvent
          /\ inputPc' = "blocked" /\ inputFrame' = f /\ inputWoken' = FALSE
          /\ UNCHANGED <<queueVars, blockSystem, inputEvent>>
       \/ /\ blockSystem /\ inputEvent
          /\ blockSystem' = FALSE /\ inputEvent' = FALSE
          /\ Dispatch(f)
          /\ UNCHANGED inputWoken
       \/ /\ ~blockSystem
          /\ Dispatch(f)
          /\ UNCHANGED systemPauseVars
    /\ UNCHANGED <<arrival, counter, statusVars, taskVars, pauseVars,
                   historyVars>>

InputWake ==
    /\ InputRuns /\ inputPc = "blocked" /\ inputWoken
    /\ blockSystem' = FALSE /\ inputEvent' = FALSE /\ inputWoken' = FALSE
    /\ Dispatch(inputFrame)
    /\ UNCHANGED <<inputVars, statusVars, taskVars, pauseVars, historyVars>>

\* __start
HandleStart ==
    /\ InputRuns /\ inputPc = "handling" /\ Kind[inputFrame] = "start"
    /\ started' = TRUE
    /\ CreateProcessTask
    /\ inputPc' = "busy"
    /\ UNCHANGED <<inputVars, inputFrame, systemPauseVars, cancelling,
                   closing>>

\* Mutant: the process task is replaced without being cancelled.
HandleInterruption_NoCancel ==
    /\ InputRuns /\ inputPc = "handling"
    /\ Kind[inputFrame] = "interruption"
    /\ IF IsUninterruptible(currentFrame)
         THEN /\ ResetProcessQueue
              /\ UNCHANGED <<taskVars, pauseVars>>
         ELSE /\ ResetProcessTask
              /\ processTask' = "new"
              /\ UNCHANGED currentFrame
    /\ inputPc' = "busy"
    /\ UNCHANGED <<inputVars, inputFrame, systemPauseVars, statusVars>>

\* _start_interruption
HandleInterruption ==
    /\ InputRuns /\ inputPc = "handling"
    /\ Kind[inputFrame] = "interruption"
    /\ \/ /\ IsUninterruptible(currentFrame)
          /\ ResetProcessQueue
          /\ inputPc' = "busy"
          /\ UNCHANGED <<taskVars, pauseVars>>
       \/ /\ ~IsUninterruptible(currentFrame) /\ processTask = "none"
          /\ CreateProcessTask
          /\ inputPc' = "busy"
       \/ /\ ~IsUninterruptible(currentFrame) /\ processTask # "none"
          /\ StopProcessTask
          /\ inputPc' = "cancelWait"
    /\ UNCHANGED <<inputVars, inputFrame, systemPauseVars, statusVars>>

\* __cancel
HandleCancel ==
    /\ InputRuns /\ inputPc = "handling" /\ Kind[inputFrame] = "cancel"
    /\ cancelling' = TRUE
    /\ IF processTask = "none"
         THEN /\ inputPc' = "busy"
              /\ UNCHANGED <<queueVars, taskVars, pauseVars, historyVars>>
         ELSE /\ inputPc' = "cancelWait"
              /\ StopProcessTask
    /\ UNCHANGED <<inputVars, inputFrame, systemPauseVars, started, closing>>

HandleSystem ==
    /\ InputRuns /\ inputPc = "handling" /\ Kind[inputFrame] = "system"
    /\ inputPc' = "busy"
    /\ UNCHANGED <<inputVars, inputFrame, systemPauseVars, statusVars,
                   queueVars, taskVars, pauseVars, historyVars>>

\* cancel_task() returned.  It also returns, and swallows the request, when
\* the input task was itself cancelled while it waited here.
InputCancelled ==
    /\ inputPc = "cancelWait" /\ processTask = "none"
    /\ inputPc' = "busy"
    /\ closing' = IF closing = "cancelInput" THEN "swallowed" ELSE closing
    /\ IF Kind[inputFrame] = "interruption"
         THEN CreateProcessTask
         ELSE UNCHANGED <<queueVars, taskVars, pauseVars, historyVars>>
    /\ UNCHANGED <<inputVars, inputFrame, systemPauseVars, started,
                   cancelling>>

InputDone ==
    /\ InputRuns /\ inputPc = "busy"
    /\ inputPc' = "get" /\ inputFrame' = NoFrame
    /\ outcome' = [outcome EXCEPT ![inputFrame] = "done"]
    /\ UNCHANGED <<inputVars, systemPauseVars, statusVars, queueVars,
                   taskVars, pauseVars, begun, begins>>

-----------------------------------------------------------------------------
(* Calls made by subclasses, owners and other coroutines at any time.  A   *)
(* FrameProcessorPauseFrame or its urgent form is such a call as well.     *)

\* Mutant: pausing leaves the event of an earlier resume set.
PauseFrames_KeepsEvent ==
    /\ MayPause
    /\ blockFrames' = TRUE
    /\ paused' = IF processTask = "blocked" /\ processWoken
                   THEN "racing" ELSE "yes"
    /\ UNCHANGED <<inputVars, inputTaskVars, systemPauseVars, statusVars,
                   queueVars, taskVars, processEvent, waitsOnCurrent,
                   processWoken, historyVars>>

\* pause_processing_frames
PauseFrames ==
    /\ MayPause
    /\ blockFrames' = TRUE
    /\ processEvent' = IF processEvent = "none" THEN "none" ELSE "clear"
    /\ paused' = IF processTask = "blocked" /\ processWoken
                   THEN "racing" ELSE "yes"
    /\ UNCHANGED <<inputVars, inputTaskVars, systemPauseVars, statusVars,
                   queueVars, taskVars, waitsOnCurrent, processWoken,
                   historyVars>>

\* Mutant: resuming sets the flag of the event and wakes nobody.
ResumeFrames_FlagOnly ==
    /\ MayPause
    /\ processEvent' = IF processEvent = "none" THEN "none" ELSE "set"
    /\ paused' = "no"
    /\ UNCHANGED <<inputVars, inputTaskVars, systemPauseVars, statusVars,
                   queueVars, taskVars, blockFrames, waitsOnCurrent,
                   processWoken, historyVars>>

\* resume_processing_frames
ResumeFrames ==
    /\ MayPause
    /\ processEvent' = IF processEvent = "none" THEN "none" ELSE "set"
    /\ processWoken' = (processWoken \/ (processTask = "blocked"
                                          /\ waitsOnCurrent))
    /\ paused' = "no"
    /\ UNCHANGED <<inputVars, inputTaskVars, systemPauseVars, statusVars,
                   queueVars, taskVars, blockFrames, waitsOnCurrent,
                   historyVars>>

\* pause_processing_system_frames
PauseSystemFrames ==
    /\ MayPause
    /\ blockSystem' = TRUE /\ inputEvent' = FALSE
    /\ UNCHANGED <<inputVars, inputTaskVars, inputWoken, statusVars,
                   queueVars, taskVars, pauseVars, historyVars>>

\* resume_processing_system_frames
ResumeSystemFrames ==
    /\ MayPause
    /\ inputEvent' = TRUE
    /\ inputWoken' = (inputWoken \/ inputPc = "blocked")
    /\ UNCHANGED <<inputVars, inputTaskVars, blockSystem, statusVars,
                   queueVars, taskVars, pauseVars, historyVars>>

\* broadcast_interruption: the process task, if any, is left running.
BroadcastInterruption ==
    /\ MayBroadcast
    /\ ResetProcessTask
    /\ UNCHANGED <<inputVars, inputTaskVars, systemPauseVars, statusVars,
                   taskVars>>

\* cleanup: cancel the input task ...
CleanupInput ==
    /\ closing = "no"
    /\ closing' = "cancelInput"
    /\ UNCHANGED <<inputVars, inputTaskVars, systemPauseVars, started,
                   cancelling, queueVars, taskVars, pauseVars, historyVars>>

\* Mutant: cleanup does not wait for an input task inside cancel_task().
CleanupProcess_Hasty ==
    /\ closing \in {"cancelInput", "swallowed"}
    /\ inputPc' = IF inputPc = "cancelWait" THEN inputPc ELSE "dead"
    /\ IF processTask = "none"
         THEN /\ closing' = "done"
              /\ UNCHANGED <<queueVars, taskVars, pauseVars, historyVars>>
         ELSE /\ closing' = "cancelProcess"
              /\ StopProcessTask
    /\ UNCHANGED <<inputVars, inputFrame, systemPauseVars, started,
                   cancelling>>

\* ... which ends, after the second request of wait_for if it swallowed the
\* first; then cancel the process task.
CleanupProcess ==
    /\ closing \in {"cancelInput", "swallowed"}
    /\ inputPc # "cancelWait"
    /\ inputPc' = "dead"
    /\ IF processTask = "none"
         THEN /\ closing' = "done"
              /\ UNCHANGED <<queueVars, taskVars, pauseVars, historyVars>>
         ELSE /\ closing' = "cancelProcess"
              /\ StopProcessTask
    /\ UNCHANGED <<inputVars, inputFrame, systemPauseVars, started,
                   cancelling>>

-----------------------------------------------------------------------------

ProcessTaskStep ==
    \/ ProcessEnter
    \/ \E f \in Frame : ProcessGet(f)
    \/ ProcessWake
    \/ ProcessDone
    \/ ProcessStopped

InputTaskStep ==
    \/ \E f \in Frame : InputGet(f)
    \/ InputWake
    \/ HandleStart
    \/ HandleInterruption
    \/ HandleCancel
    \/ HandleSystem
    \/ InputCancelled
    \/ InputDone

Calls ==
    \/ \E f \in Frame : QueueFrame(f)
    \/ PauseFrames
    \/ ResumeFrames
    \/ PauseSystemFrames
    \/ ResumeSystemFrames
    \/ BroadcastInterruption
    \/ CleanupInput

Next == InputTaskStep \/ ProcessTaskStep \/ Calls \/ CleanupProcess

Spec == Init /\ [][Next]_vars

\* The event loop runs every ready task, handlers return, and whoever pauses
\* the processor resumes it.
Fairness ==
    /\ WF_vars(InputTaskStep)
    /\ WF_vars(ProcessTaskStep)
    /\ WF_vars(CleanupProcess)
    /\ WF_vars(blockFrames /\ ResumeFrames)
    /\ WF_vars(blockSystem /\ ResumeSystemFrames)

FairSpec == Spec /\ Fairness

-----------------------------------------------------------------------------
(* Properties.                                                             *)

HeldByTask(f) == processTask \in {"blocked", "processing"} /\ currentFrame = f

\* The view of FrameDelivery: a lane has taken the frame that the input task
\* handles, respectively the one that the process task holds.
Taken(f) == IF IsSystem(f) THEN f = inputFrame ELSE HeldByTask(f)

StatusOf(f) ==
    IF outcome[f] = "queued" THEN IF Taken(f) THEN "taken" ELSE "waiting"
    ELSE IF outcome[f] \in {"flushed", "aborted"} THEN "dropped"
    ELSE outcome[f]

DeliveryStatus == [f \in Frame |-> StatusOf(f)]

D == INSTANCE FrameDelivery WITH
        status <- DeliveryStatus,
        ending <- cancelling \/ closing # "no"

\* The queues, the two tasks, their events and their cancellations amount to
\* two lanes that handle one frame at a time in order of arrival, from which
\* interruptions remove frames as FrameDelivery says and in no other way.
Delivers == D!Spec

\* f and g are non-system frames the processor accepted, f before g.
Older(f, g) ==
    /\ ~IsSystem(f) /\ ~IsSystem(g)
    /\ 0 < arrival[f] /\ arrival[f] < arrival[g]

\* Non-system frames begin in the order in which they were queued, across the
\* two queues, pauses, interruptions and re-created tasks: when a frame has
\* begun, every older one began before it or was removed by an interruption.
NoOvertaking ==
    \A f, g \in Frame :
        Older(f, g) /\ begun[g] > 0
            => \/ begun[f] > 0 /\ begun[f] < begun[g]
               \/ begun[f] = 0 /\ outcome[f] \in {"flushed", "aborted"}

\* A frame that was accepted and not settled is in exactly one of the input
\* queue, the input task, the process queue and the process task: it is neither
\* lost between them nor processed twice.
OnePlace ==
    /\ \A f \in Frame :
          outcome[f] = "queued" <=>
              \/ f \in inputQueue
              \/ f = inputFrame
              \/ f \in processQueue
              \/ HeldByTask(f)
    /\ inputQueue \cap processQueue = {}
    /\ inputFrame \notin inputQueue \cup processQueue
    /\ \A f \in Frame :
          HeldByTask(f) =>
              f # inputFrame /\ f \notin inputQueue \cup processQueue

\* UninterruptibleFrame: "preserved during interruptions: they remain in
\* internal queues and any task processing them will not be cancelled".  Only
\* the end of the processor may keep one from being completed.
UninterruptibleKept ==
    \A f \in Frame :
        IsUninterruptible(f) =>
            /\ outcome[f] # "flushed"
            /\ outcome[f] = "aborted" => cancelling \/ closing # "no"

\* cleanup() leaves no task behind, even when it cancels the input task while
\* that one is re-creating the process task and swallows the cancellation.
NoTaskOutlivesCleanup ==
    closing = "done" => inputPc = "dead" /\ processTask = "none"

\* A pause called while the task is not already being woken holds back every
\* frame until a resume, an interruption or a new start.
PauseHolds == [][begins' # begins => paused # "yes"]_vars

\* Once started, every accepted frame is settled, unless the processor ends.
EveryFrameSettles ==
    \A f \in Frame :
        (outcome[f] = "queued" /\ started)
            ~> (outcome[f] # "queued" \/ cancelling \/ closing # "no")

=============================================================================
