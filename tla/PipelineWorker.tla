--------------------------- MODULE PipelineWorker ---------------------------
(***************************************************************************)
(* The life of one PipelineWorker (pipeline/worker.py): run(), the push    *)
(* task that feeds the pipeline, the sink that sees frames leave it, the   *)
(* idle monitor, and every way to ask the worker to end, stop or cancel.   *)
(*                                                                         *)
(* The pipeline itself is a bag of lifecycle frames in flight.  The sink   *)
(* takes them in the order the processors keep: StartFrame and CancelFrame *)
(* are system frames handled in turn, EndFrame and StopFrame follow the    *)
(* data.  A processor that raises while it handles a frame does not        *)
(* forward it (frame_processor.py __process_frame), so it is lost.         *)
(***************************************************************************)
EXTENDS Naturals, Sequences

CONSTANTS
    Requests,       \* kinds of frames users and processors ask to be queued
    MaxRequests,    \* bound: how many are queued
    MaxOutside,     \* bound: how often the task of run() is cancelled
    MayLose,        \* lifecycle frames a processor may fail to forward
    HasIdleTimeout  \* is idle_timeout_secs set (and cancels on timeout)?

Terminal == {"end", "stop", "cancel"}
Lifecycle == Terminal \cup {"start", "injected"}

ASSUME WorkerAssumption ==
    /\ Requests \subseteq Terminal \cup {"data", "injected"}
    /\ MaxRequests \in Nat /\ MaxOutside \in Nat
    /\ MayLose \subseteq Lifecycle
    /\ HasIdleTimeout \in BOOLEAN

VARIABLES
    pushQueue,      \* _push_queue
    pushPc,         \* where _process_push_queue is
    terminal,       \* the terminal frame it has pushed, "none" before
    pushCancel,     \* is a cancellation of the push task pending?
    startEvent,     \* _pipeline_start_event
    endEvent,       \* _pipeline_end_event
    finishedEvent,  \* _finished_event
    cancelled,      \* _cancelled
    finished,       \* _finished
    runPc,          \* where run() is
    idle,           \* does the idle monitor run?
    inFlight,       \* lifecycle frames inside the pipeline
    processors,     \* "running", or "stopped" by pipeline.cleanup()
    handlers,       \* on_pipeline_finished handlers yet to run stop()
    requests,       \* history: requests made
    outside,        \* history: cancellations of run() from outside
    reports,        \* history: calls of on_pipeline_finished
    startSeen,      \* history: has the StartFrame reached the sink?
    pushKilled      \* history: was the push task itself cancelled?

pushVars == <<pushQueue, pushPc, terminal, pushCancel>>
eventVars == <<startEvent, endEvent, finishedEvent>>
runVars == <<cancelled, finished, runPc, idle>>
pipelineVars == <<inFlight, processors, handlers>>
historyVars == <<requests, outside, reports, startSeen, pushKilled>>
vars == <<pushVars, eventVars, runVars, pipelineVars, historyVars>>

PushPcs == {"new", "waitStart", "get", "waitEnd", "cleanup", "done"}
RunPcs == {"wait", "join", "wait2", "join2", "finally", "returned"}

Queueable == Terminal \cup {"data"}

QueueType == pushQueue \in Seq(Queueable)

PushType ==
    /\ pushPc \in PushPcs
    /\ terminal \in Terminal \cup {"none"}
    /\ pushCancel \in BOOLEAN
    /\ pushPc = "waitEnd" => terminal # "none"

RunType ==
    /\ startEvent \in BOOLEAN /\ endEvent \in BOOLEAN
    /\ finishedEvent \in BOOLEAN
    /\ cancelled \in BOOLEAN /\ finished \in BOOLEAN
    /\ runPc \in RunPcs
    /\ idle \in BOOLEAN

PipelineType ==
    /\ inFlight \subseteq Lifecycle
    /\ processors \in {"running", "stopped"}
    /\ handlers \in Nat

HistoryType ==
    /\ requests \in 0..MaxRequests /\ outside \in 0..MaxOutside
    /\ reports \in Nat
    /\ startSeen \in BOOLEAN /\ pushKilled \in BOOLEAN

TypeOK == QueueType /\ PushType /\ RunType /\ PipelineType /\ HistoryType

\* run() has set the processors up and created the push task.
Init ==
    /\ pushQueue = <<>> /\ pushPc = "new" /\ terminal = "none"
    /\ pushCancel = FALSE
    /\ startEvent = FALSE /\ endEvent = FALSE /\ finishedEvent = FALSE
    /\ cancelled = FALSE /\ finished = FALSE /\ runPc = "wait" /\ idle = FALSE
    /\ inFlight = {} /\ processors = "running" /\ handlers = 0
    /\ requests = 0 /\ outside = 0 /\ reports = 0
    /\ startSeen = FALSE /\ pushKilled = FALSE

-----------------------------------------------------------------------------
(* The push task.                                                          *)

\* The idle monitor starts with the push task, before the StartFrame.
PushStart ==
    /\ pushPc = "new" /\ ~pushCancel
    /\ idle' = HasIdleTimeout
    /\ inFlight' = inFlight \cup {"start"}
    /\ pushPc' = "waitStart"
    /\ UNCHANGED <<pushQueue, terminal, pushCancel, eventVars, cancelled,
                   finished, runPc, processors, handlers, historyVars>>

\* _wait_for_pipeline_start
PushStarted ==
    /\ pushPc = "waitStart" /\ ~pushCancel
    /\ startEvent
    /\ startEvent' = FALSE
    /\ pushPc' = "get"
    /\ UNCHANGED <<pushQueue, terminal, pushCancel, endEvent, finishedEvent,
                   runVars, pipelineVars, historyVars>>

\* Mutant: the terminal frame that is waited for is not kept.
PushFrame_Forgetful ==
    /\ pushPc = "get" /\ ~pushCancel
    /\ pushQueue # <<>>
    /\ pushQueue' = Tail(pushQueue)
    /\ IF Head(pushQueue) \in Terminal
         THEN /\ inFlight' = inFlight \cup {Head(pushQueue)}
              /\ pushPc' = "waitEnd"
         ELSE UNCHANGED <<inFlight, pushPc>>
    /\ UNCHANGED <<terminal, pushCancel, eventVars, runVars, processors,
                   handlers, historyVars>>

\* A data frame needs no trace of its own once it is in the pipeline.
PushFrame ==
    /\ pushPc = "get" /\ ~pushCancel
    /\ pushQueue # <<>>
    /\ pushQueue' = Tail(pushQueue)
    /\ IF Head(pushQueue) \in Terminal
         THEN /\ inFlight' = inFlight \cup {Head(pushQueue)}
              /\ terminal' = Head(pushQueue)
              /\ pushPc' = "waitEnd"
         ELSE UNCHANGED <<inFlight, terminal, pushPc>>
    /\ UNCHANGED <<pushCancel, eventVars, runVars, processors, handlers,
                   historyVars>>

\* Mutant: the worker does not report a cancelled pipeline.
PushEnded_Silent ==
    /\ pushPc = "waitEnd" /\ ~pushCancel
    /\ endEvent \/ terminal = "cancel"
    /\ UNCHANGED <<reports, handlers>>
    /\ endEvent' = FALSE
    /\ finishedEvent' = TRUE
    /\ pushPc' = "cleanup"
    /\ UNCHANGED <<pushQueue, terminal, pushCancel, startEvent, runVars,
                   inFlight, processors, requests, outside, startSeen,
                   pushKilled>>

\* _wait_for_pipeline_end: only the wait for a CancelFrame has a timeout.
PushEnded ==
    /\ pushPc = "waitEnd" /\ ~pushCancel
    /\ endEvent \/ terminal = "cancel"
    /\ IF terminal = "cancel"
         THEN reports' = reports + 1 /\ handlers' = handlers + 1
         ELSE UNCHANGED <<reports, handlers>>
    /\ endEvent' = FALSE
    /\ finishedEvent' = TRUE
    /\ pushPc' = "cleanup"
    /\ UNCHANGED <<pushQueue, terminal, pushCancel, startEvent, runVars,
                   inFlight, processors, requests, outside, startSeen,
                   pushKilled>>

\* _cleanup: waits for the running event handlers, then, unless the pipeline
\* was only stopped, cleans the processors up.
PushCleanup ==
    /\ pushPc = "cleanup" /\ ~pushCancel
    /\ handlers = 0
    /\ processors' = IF terminal = "stop" THEN processors ELSE "stopped"
    /\ inFlight' = IF terminal = "stop" THEN inFlight ELSE {}
    /\ pushPc' = "done"
    /\ UNCHANGED <<pushQueue, terminal, pushCancel, eventVars, runVars,
                   handlers, historyVars>>

\* The push task was cancelled; the wait for a CancelFrame still reports.
PushKilled ==
    /\ pushCancel /\ pushPc # "done"
    /\ pushPc' = "done"
    /\ pushCancel' = FALSE
    /\ pushKilled' = TRUE
    /\ IF pushPc = "waitEnd" /\ terminal = "cancel"
         THEN reports' = reports + 1 /\ handlers' = handlers + 1
         ELSE UNCHANGED <<reports, handlers>>
    /\ UNCHANGED <<pushQueue, terminal, eventVars, runVars, inFlight,
                   processors, requests, outside, startSeen>>

-----------------------------------------------------------------------------
(* The pipeline and its sink.                                              *)

\* Mutant: the sink reports a CancelFrame as it reports the other frames.
Sink_Reports(f) ==
    /\ f \in inFlight /\ processors = "running"
    /\ f \in Terminal => "start" \notin inFlight
    /\ inFlight' = inFlight \ {f}
    /\ startSeen' = (startSeen \/ f = "start")
    /\ startEvent' = (startEvent \/ f = "start")
    /\ endEvent' = (endEvent \/ f # "start")
    /\ IF f # "start"
         THEN reports' = reports + 1 /\ handlers' = handlers + 1
         ELSE UNCHANGED <<reports, handlers>>
    /\ UNCHANGED <<pushVars, finishedEvent, runVars, processors, requests,
                   outside, pushKilled>>

\* _sink_push_frame
Sink(f) ==
    /\ f \in inFlight /\ processors = "running"
    /\ f \in Terminal => "start" \notin inFlight
    /\ inFlight' = inFlight \ {f}
    /\ startSeen' = (startSeen \/ f = "start")
    /\ startEvent' = (startEvent \/ f = "start")
    /\ endEvent' = (endEvent \/ f # "start")
    /\ IF f \in {"end", "stop", "injected"}
         THEN reports' = reports + 1 /\ handlers' = handlers + 1
         ELSE UNCHANGED <<reports, handlers>>
    /\ UNCHANGED <<pushVars, finishedEvent, runVars, processors, requests,
                   outside, pushKilled>>

\* on_pipeline_finished runs BaseWorker.stop() in a task of its own.
FinishedHandler ==
    /\ handlers > 0
    /\ handlers' = handlers - 1
    /\ finishedEvent' = TRUE
    /\ UNCHANGED <<pushVars, startEvent, endEvent, runVars, inFlight,
                   processors, historyVars>>

\* A processor raises while it handles the frame; with fatal = TRUE the
\* source queues a CancelFrame when the error reaches it.
Lose(f) ==
    /\ f \in MayLose /\ f \in inFlight /\ processors = "running"
    /\ inFlight' = inFlight \ {f}
    /\ UNCHANGED pushQueue \/ pushQueue' = Append(pushQueue, "cancel")
    /\ UNCHANGED <<pushPc, terminal, pushCancel, eventVars, runVars,
                   processors, handlers, requests, outside, reports,
                   startSeen, pushKilled>>

-----------------------------------------------------------------------------
(* Requests.                                                               *)

\* queue_frame(), stop_when_done(), a BusEndWorkerMessage, or an End-, Stop-
\* or CancelTaskFrame that reached the source; an EndFrame pushed by a
\* processor enters the pipeline at that processor.
Request(k) ==
    /\ requests < MaxRequests
    /\ requests' = requests + 1
    /\ IF k = "injected"
         THEN /\ startSeen /\ processors = "running"
              /\ inFlight' = inFlight \cup {k}
              /\ UNCHANGED pushQueue
         ELSE /\ pushQueue' = Append(pushQueue, k)
              /\ UNCHANGED inFlight
    /\ UNCHANGED <<pushPc, terminal, pushCancel, eventVars, runVars,
                   processors, handlers, outside, reports, startSeen,
                   pushKilled>>

\* Mutant: a worker blocked on its StartFrame is not released.
DoCancel_KeepsWaiting ==
    IF cancelled
      THEN UNCHANGED <<cancelled, startEvent, pushQueue>>
      ELSE /\ cancelled' = TRUE
           /\ UNCHANGED startEvent
           /\ pushQueue' = Append(pushQueue, "cancel")

\* _cancel
DoCancel ==
    IF cancelled
      THEN UNCHANGED <<cancelled, startEvent, pushQueue>>
      ELSE /\ cancelled' = TRUE
           /\ startEvent' = TRUE
           /\ pushQueue' = Append(pushQueue, "cancel")

\* cancel(), from a user, the bus or on_pipeline_error.
Cancel ==
    /\ "cancel" \in Requests
    /\ ~finished /\ ~cancelled
    /\ DoCancel
    /\ UNCHANGED <<pushPc, terminal, pushCancel, endEvent, finishedEvent,
                   finished, runPc, idle, pipelineVars, historyVars>>

\* _idle_timeout_detected: the monitor ends after it has cancelled.
IdleTimeout ==
    /\ idle
    /\ idle' = FALSE
    /\ IF finished THEN UNCHANGED <<cancelled, startEvent, pushQueue>>
                   ELSE DoCancel
    /\ UNCHANGED <<pushPc, terminal, pushCancel, endEvent, finishedEvent,
                   finished, runPc, pipelineVars, historyVars>>

-----------------------------------------------------------------------------
(* run().                                                                  *)

\* _finished_event.wait() returned.
RunFinished ==
    /\ runPc \in {"wait", "wait2"} /\ finishedEvent
    /\ runPc' = IF runPc = "wait" THEN "join" ELSE "join2"
    /\ UNCHANGED <<pushVars, eventVars, cancelled, finished, idle,
                   pipelineVars, historyVars>>

\* Awaiting a push task that was cancelled raises CancelledError in run().
RunJoined ==
    /\ runPc \in {"join", "join2"} /\ pushPc = "done"
    /\ IF runPc = "join" /\ pushKilled
         THEN /\ runPc' = "wait2"
              /\ DoCancel
         ELSE /\ runPc' = "finally"
              /\ UNCHANGED <<cancelled, startEvent, pushQueue>>
    /\ UNCHANGED <<pushPc, terminal, pushCancel, endEvent, finishedEvent,
                   finished, idle, pipelineVars, historyVars>>

\* The task that runs run() is cancelled from outside.
OutsideCancel ==
    /\ outside < MaxOutside
    /\ runPc \in {"wait", "join", "wait2", "join2"}
    /\ outside' = outside + 1
    /\ \/ /\ runPc = "wait" \/ (runPc = "join" /\ pushPc = "done")
          /\ runPc' = "wait2"
          /\ DoCancel
          /\ UNCHANGED pushCancel
       \/ /\ runPc = "wait2" \/ (runPc = "join2" /\ pushPc = "done")
          /\ runPc' = "finally"
          /\ UNCHANGED <<cancelled, startEvent, pushQueue, pushCancel>>
       \/ /\ runPc \in {"join", "join2"} /\ pushPc # "done"
          /\ pushCancel' = TRUE
          /\ UNCHANGED <<runPc, cancelled, startEvent, pushQueue>>
    /\ UNCHANGED <<pushPc, terminal, endEvent, finishedEvent, finished, idle,
                   pipelineVars, requests, reports, startSeen, pushKilled>>

\* _cancel_tasks, first half: a push task that is still there is cancelled.
RunCancelPush ==
    /\ runPc = "finally" /\ pushPc # "done" /\ ~pushCancel
    /\ pushCancel' = TRUE
    /\ UNCHANGED <<pushQueue, pushPc, terminal, eventVars, runVars,
                   pipelineVars, historyVars>>

\* Mutant: the idle monitor is forgotten.
RunReturn_KeepsIdle ==
    /\ runPc = "finally" /\ pushPc = "done"
    /\ runPc' = "returned" /\ finished' = TRUE
    /\ UNCHANGED <<pushVars, eventVars, cancelled, idle, pipelineVars,
                   historyVars>>

\* _cancel_tasks, second half.
RunReturn ==
    /\ runPc = "finally" /\ pushPc = "done"
    /\ idle' = FALSE
    /\ runPc' = "returned" /\ finished' = TRUE
    /\ UNCHANGED <<pushVars, eventVars, cancelled, pipelineVars, historyVars>>

-----------------------------------------------------------------------------

PushTask ==
    PushStart \/ PushStarted \/ PushFrame \/ PushEnded \/ PushCleanup
        \/ PushKilled

RunTask == RunFinished \/ RunJoined \/ RunCancelPush \/ RunReturn

Environment ==
    \/ \E k \in Requests : Request(k)
    \/ Cancel \/ IdleTimeout \/ OutsideCancel
    \/ \E f \in MayLose : Lose(f)

Next ==
    \/ PushTask \/ RunTask \/ FinishedHandler
    \/ \E f \in Lifecycle : Sink(f)
    \/ Environment

Spec == Init /\ [][Next]_vars

\* The loop runs every ready task, the timer of a CancelFrame expires, and the
\* pipeline delivers the frames it may not lose.
Fairness ==
    /\ WF_vars(PushTask) /\ WF_vars(RunTask) /\ WF_vars(FinishedHandler)
    /\ \A f \in Lifecycle \ MayLose : WF_vars(Sink(f))
    /\ \A f \in MayLose : WF_vars(Sink(f) \/ Lose(f))

FairSpec == Spec /\ Fairness

-----------------------------------------------------------------------------
(* Properties.                                                             *)

\* Nothing but a cancellation lets a frame into a pipeline that has not
\* started: "Wait for the pipeline to be started before pushing any other
\* frame" (worker.py:1061).
NothingBeforeStart ==
    [][pushQueue # <<>> /\ pushQueue' = Tail(pushQueue)
          => startSeen \/ cancelled]_vars

\* When run() has returned nothing is left behind: no push task, no idle
\* monitor, no processor that was not asked to stay, whatever was requested
\* and even if run() was cancelled from outside while it waited.
ReturnedClean ==
    finished =>
        /\ pushPc = "done" /\ ~idle
        /\ ~pushKilled => processors = "stopped" \/ terminal = "stop"

\* on_pipeline_finished is "called after the pipeline has reached any terminal
\* state" (worker.py:184): once, and not a second time when a CancelFrame
\* arrives after its timeout or races with an EndFrame.
ReportedOnce ==
    /\ reports <= 1
    /\ finished /\ ~pushKilled => reports = 1

\* Once the pipeline has started, a worker that was asked to end, stop or
\* cancel returns from run(); cancel() has it return even if the StartFrame
\* never came out of the pipeline.
RequestsFinish ==
    /\ (startSeen /\ \E i \in DOMAIN pushQueue : pushQueue[i] \in Terminal)
         ~> finished
    /\ cancelled ~> finished

=============================================================================
