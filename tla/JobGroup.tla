------------------------------ MODULE JobGroup ------------------------------
(***************************************************************************)
(* One job group with a timeout (workers/base_worker.py,                   *)
(* pipeline/job_context.py), from the moment its requests are on a local   *)
(* bus, whose send() does not suspend.  Each subscriber of the bus has a   *)
(* router task, which handles system messages (cancel, urgent response),   *)
(* and a data task, which handles the others in order; the two interleave  *)
(* wherever a handler awaits a hook or a task that it cancels.             *)
(***************************************************************************)
EXTENDS Naturals, Sequences

CONSTANTS
    Workers,        \* the workers of the group
    CancelOnError,  \* cancel_on_error
    Streamers,      \* bound: the workers that may end a stream
    Stoppers        \* bound: the workers that may be stopped

ASSUME JobAssumption ==
    /\ CancelOnError \in BOOLEAN
    /\ Streamers \subseteq Workers /\ Stoppers \subseteq Workers
    /\ "nobody" \notin Workers

VARIABLES
    requests,   \* workers whose job request waits in the data queue
    cancels,    \* workers whose cancel message waits for the router
    active,     \* workers with the job in _active_jobs
    handler,    \* the job handler task of a worker
    router,     \* where the worker's router is in _handle_job_cancel
    stopped,    \* workers whose stop() has run
    streamed,   \* workers that ended a stream, at most once each
    inbox,      \* messages for the requester's router and data task
    current,    \* the message each of them handles
    pc,         \* where in its handler it is
    group,      \* is the group in the requester's _job_groups?
    responded,  \* keys of group.responses
    timer,      \* group.timeout_task
    canceller,  \* who is inside cancel_job_group, having taken the group
    completions, \* calls of group.complete()
    failures,   \* calls of group.fail()
    caller,     \* the task in the async with block of JobGroupContext
    answers,    \* history: responses each worker has sent
    accepted    \* history: workers that took the job

workerVars == <<requests, active, handler, router, stopped, streamed>>
receiverVars == <<inbox, current, pc>>
groupVars == <<group, responded, timer, canceller, completions, failures>>
historyVars == <<answers, accepted>>
vars == <<workerVars, cancels, receiverVars, groupVars, caller, historyVars>>

Receivers == {"router", "data"}
Message == [from : Workers, error : BOOLEAN]
NoMessage == [from |-> "nobody", error |-> FALSE]
Cancellers == Receivers \cup {"timer", "caller", "other"}

WorkerType ==
    /\ requests \subseteq Workers /\ cancels \subseteq Workers
    /\ active \subseteq Workers /\ stopped \subseteq Workers
    /\ streamed \subseteq Workers
    /\ handler \in [Workers -> {"none", "running", "answered", "ended"}]
    /\ router \in [Workers -> {"idle", "joining", "hook", "dead"}]

HistoryType ==
    /\ accepted \subseteq Workers
    /\ answers \in [Workers -> Nat]

InboxType == inbox \in [Receivers -> Seq(Message)]

\* A message is held exactly while it is handled.
ReceiverType ==
    /\ current \in [Receivers -> Message \cup {NoMessage}]
    /\ pc \in [Receivers -> {"idle", "hook", "errorHook", "joining",
                             "cancelling", "completeHook", "dead"}]
    /\ \A r \in Receivers :
          pc[r] \in {"idle", "dead"} <=> current[r] = NoMessage

GroupType ==
    /\ group \in BOOLEAN /\ responded \subseteq Workers
    /\ timer \in {"sleeping", "cancelled", "fired"}
    /\ canceller \in Cancellers \cup {"none"}
    /\ completions \in Nat /\ failures \in Nat
    /\ caller \in {"inside", "cancelling", "waiting", "left", "interrupted"}

TypeOK == WorkerType /\ HistoryType /\ InboxType /\ ReceiverType /\ GroupType

\* create_job_group_and_request_job has returned.
Init ==
    /\ requests = Workers /\ cancels = {} /\ active = {}
    /\ handler = [w \in Workers |-> "none"]
    /\ router = [w \in Workers |-> "idle"]
    /\ stopped = {} /\ streamed = {}
    /\ inbox = [r \in Receivers |-> <<>>]
    /\ current = [r \in Receivers |-> NoMessage]
    /\ pc = [r \in Receivers |-> "idle"]
    /\ group = TRUE /\ responded = {} /\ timer = "sleeping"
    /\ canceller = "none" /\ completions = 0 /\ failures = 0 /\ caller = "inside"
    /\ answers = [w \in Workers |-> 0] /\ accepted = {}

-----------------------------------------------------------------------------
(* A worker that was asked.                                                *)

Send(w, error, r) ==
    inbox' = [inbox EXCEPT ![r] = Append(@, [from |-> w, error |-> error])]

\* send_job_response: the job stops being active once the response is sent.
SendResponse(w, error, r) ==
    /\ Send(w, error, r)
    /\ active' = active \ {w}
    /\ answers' = [answers EXCEPT ![w] = @ + 1]

\* _handle_job_request
AcceptJob(w) ==
    /\ w \in requests
    /\ requests' = requests \ {w}
    /\ active' = active \cup {w}
    /\ accepted' = accepted \cup {w}
    /\ handler' = [handler EXCEPT ![w] = "running"]
    /\ UNCHANGED <<cancels, router, stopped, streamed, receiverVars, groupVars,
                   caller, answers>>

\* The handler responds, urgently or not, and may run on: from then on the job is not
\* active, so that nobody looks for the handler, and when it ends makes no difference.
Respond(w, error, r) ==
    /\ handler[w] = "running" /\ w \in active
    /\ SendResponse(w, error, r)
    /\ handler' = [handler EXCEPT ![w] = "answered"]
    /\ UNCHANGED <<requests, cancels, router, stopped, streamed, current, pc,
                   groupVars, caller, accepted>>

\* send_job_stream_end: the job stays active.
StreamEnd(w) ==
    /\ handler[w] = "running" /\ w \in (active \cap Streamers) \ streamed
    /\ Send(w, FALSE, "data")
    /\ streamed' = streamed \cup {w}
    /\ UNCHANGED <<requests, cancels, active, handler, router, stopped,
                   current, pc, groupVars, caller, historyVars>>

\* The handler raises or returns without a response.
HandlerEnds(w) ==
    /\ handler[w] = "running"
    /\ handler' = [handler EXCEPT ![w] = "ended"]
    /\ UNCHANGED <<requests, cancels, active, router, stopped, streamed,
                   receiverVars, groupVars, caller, historyVars>>

\* Mutant: the handler is not cancelled.
CancelArrives_LeavesHandler(w) ==
    /\ router[w] = "idle" /\ w \in cancels
    /\ cancels' = cancels \ {w}
    /\ router' = [router EXCEPT ![w] = IF w \notin active THEN "idle"
                                       ELSE "hook"]
    /\ UNCHANGED <<requests, active, handler, stopped, streamed,
                   receiverVars, groupVars, caller, historyVars>>

\* _handle_job_cancel, up to the first await.  A cancel message may overtake a
\* request that waits for the data task: it is then ignored.
CancelArrives(w) ==
    /\ router[w] = "idle" /\ w \in cancels
    /\ cancels' = cancels \ {w}
    /\ router' = [router EXCEPT ![w] =
                     IF w \notin active THEN "idle"
                     ELSE IF handler[w] = "running" THEN "joining" ELSE "hook"]
    /\ UNCHANGED <<requests, active, handler, stopped, streamed,
                   receiverVars, groupVars, caller, historyVars>>

\* The cancelled handler is gone; it may have answered in its own clean-up.
HandlerCancelled(w) ==
    /\ router[w] = "joining"
    /\ handler' = [handler EXCEPT ![w] = "ended"]
    /\ router' = [router EXCEPT ![w] = "hook"]
    /\ \/ UNCHANGED <<inbox, active, answers>>
       \/ /\ handler[w] = "running" /\ w \in active
          /\ SendResponse(w, FALSE, "data")
    /\ UNCHANGED <<requests, cancels, stopped, streamed, current, pc,
                   groupVars, caller, accepted>>

\* Mutant: the response is sent without a look at _active_jobs.
CancelHookDone_Blind(w) ==
    /\ router[w] = "hook"
    /\ router' = [router EXCEPT ![w] = "idle"]
    /\ SendResponse(w, FALSE, "data")
    /\ UNCHANGED <<requests, cancels, handler, stopped, streamed, current, pc,
                   groupVars, caller, accepted>>

\* on_job_cancelled has returned.  When the job was answered meanwhile,
\* send_job_response raises, which ends the router task.
CancelHookDone(w) ==
    /\ router[w] = "hook"
    /\ IF w \in active
         THEN /\ router' = [router EXCEPT ![w] = "idle"]
              /\ SendResponse(w, FALSE, "data")
         ELSE /\ router' = [router EXCEPT ![w] = "dead"]
              /\ UNCHANGED <<inbox, active, answers>>
    /\ UNCHANGED <<requests, cancels, handler, stopped, streamed, current, pc,
                   groupVars, caller, accepted>>

\* stop(): active jobs are answered, their handlers left alone.
StopWorker(w) ==
    /\ w \in Stoppers \ stopped
    /\ stopped' = stopped \cup {w}
    /\ IF w \in active
         THEN SendResponse(w, FALSE, "data")
         ELSE UNCHANGED <<inbox, active, answers>>
    /\ UNCHANGED <<requests, cancels, handler, router, streamed, current, pc,
                   groupVars, caller, accepted>>

-----------------------------------------------------------------------------
(* The requester: cancel_job_group, the timeout and the receiving tasks.   *)

\* cancel_job_group takes the group, then waits for its timeout task to end.
TakeGroup(c) ==
    /\ group /\ group' = FALSE
    /\ canceller' = c
    /\ timer' = IF c = "timer" THEN "fired" ELSE "cancelled"
    /\ UNCHANGED <<responded, completions, failures>>

\* Mutant: the waiting caller is not told.
FinishCancel_Silent(c) ==
    /\ canceller = c /\ canceller' = "none"
    /\ cancels' = Workers
    /\ IF c \in Receivers
         THEN /\ pc' = [pc EXCEPT ![c] = "idle"]
              /\ current' = [current EXCEPT ![c] = NoMessage]
         ELSE UNCHANGED <<pc, current>>
    /\ caller' = IF c = "caller" THEN "left" ELSE caller
    /\ UNCHANGED <<workerVars, inbox, group, responded, timer, completions,
                   failures, historyVars>>

\* cancel_job_group after that wait.
FinishCancel(c) ==
    /\ canceller = c /\ canceller' = "none"
    /\ cancels' = Workers
    /\ failures' = failures + 1
    /\ IF c \in Receivers
         THEN /\ pc' = [pc EXCEPT ![c] = "idle"]
              /\ current' = [current EXCEPT ![c] = NoMessage]
         ELSE UNCHANGED <<pc, current>>
    /\ caller' = IF c = "caller" THEN "left" ELSE caller
    /\ UNCHANGED <<workerVars, inbox, group, responded, timer, completions,
                   historyVars>>

\* _task_timeout
TimerFires ==
    /\ timer = "sleeping"
    /\ TakeGroup("timer")
    /\ UNCHANGED <<workerVars, cancels, receiverVars, caller, historyVars>>

\* cancel_job_group or stop() called by another task of the requester.
OtherCancels ==
    /\ TakeGroup("other")
    /\ UNCHANGED <<workerVars, cancels, receiverVars, caller, historyVars>>

\* The handler starts with the hook on_job_response or on_job_stream_end.
Receive(r) ==
    /\ pc[r] = "idle" /\ inbox[r] # <<>>
    /\ current' = [current EXCEPT ![r] = Head(inbox[r])]
    /\ inbox' = [inbox EXCEPT ![r] = Tail(@)]
    /\ pc' = [pc EXCEPT ![r] = "hook"]
    /\ UNCHANGED <<workerVars, cancels, groupVars, caller, historyVars>>

\* Mutant: the message is not let go.
Finish_Holding(r, where) ==
    /\ pc' = [pc EXCEPT ![r] = where]
    /\ UNCHANGED current

Finish(r, where) ==
    /\ pc' = [pc EXCEPT ![r] = where]
    /\ current' = [current EXCEPT ![r] = NoMessage]

\* _track_job_group_response, up to the wait for the timeout task.
Track(r) ==
    IF ~group
      THEN Finish(r, "idle") /\ UNCHANGED groupVars
      ELSE /\ responded' = responded \cup {current[r].from}
           /\ UNCHANGED <<group, canceller, completions, failures>>
           /\ IF responded' = Workers
                THEN /\ timer' = "cancelled"
                     /\ pc' = [pc EXCEPT ![r] = "joining"]
                     /\ UNCHANGED current
                ELSE Finish(r, "idle") /\ UNCHANGED timer

\* _handle_job_response and _handle_job_stream_end after the first hook.
HookDone(r) ==
    /\ pc[r] = "hook"
    /\ IF current[r].error /\ group /\ CancelOnError
         THEN /\ responded' = responded \cup {current[r].from}
              /\ pc' = [pc EXCEPT ![r] = "errorHook"]
              /\ UNCHANGED <<current, group, timer, canceller, completions, failures>>
         ELSE Track(r)
    /\ UNCHANGED <<workerVars, cancels, inbox, caller, historyVars>>

\* on_job_error has returned: the group is cancelled, if it is still there.
ErrorHookDone(r) ==
    /\ pc[r] = "errorHook"
    /\ \/ /\ TakeGroup(r)
          /\ pc' = [pc EXCEPT ![r] = "cancelling"]
          /\ UNCHANGED current
       \/ /\ ~group
          /\ Finish(r, "idle")
          /\ UNCHANGED groupVars
    /\ UNCHANGED <<workerVars, cancels, inbox, caller, historyVars>>

\* Mutant: a group that was taken meanwhile is completed all the same.
TimerJoined_Anyway(r) ==
    /\ pc[r] = "joining"
    /\ group' = FALSE
    /\ pc' = [pc EXCEPT ![r] = "completeHook"]
    /\ UNCHANGED <<workerVars, cancels, inbox, current, responded, timer,
                   canceller, completions, failures, caller, historyVars>>

\* The timeout task is gone; del _job_groups[job_id] raises, and ends the
\* receiving task, when the group was taken during the wait.
TimerJoined(r) ==
    /\ pc[r] = "joining"
    /\ IF group
         THEN pc' = [pc EXCEPT ![r] = "completeHook"] /\ UNCHANGED current
         ELSE Finish(r, "dead")
    /\ group' = FALSE
    /\ UNCHANGED <<workerVars, cancels, inbox, responded, timer, canceller,
                   completions, failures, caller, historyVars>>

\* on_job_completed has returned.
CompleteHookDone(r) ==
    /\ pc[r] = "completeHook"
    /\ Finish(r, "idle")
    /\ completions' = completions + 1
    /\ UNCHANGED <<workerVars, cancels, inbox, group, responded, timer,
                   canceller, failures, caller, historyVars>>

-----------------------------------------------------------------------------
(* The caller of "async with job_group(...)".                              *)

CallerWaits ==
    /\ caller = "inside" /\ caller' = "waiting"
    /\ UNCHANGED <<workerVars, cancels, receiverVars, groupVars, historyVars>>

\* The block raises: __aexit__ cancels the group if it is still there.
CallerRaises ==
    /\ caller = "inside"
    /\ \/ TakeGroup("caller") /\ caller' = "cancelling"
       \/ ~group /\ caller' = "left" /\ UNCHANGED groupVars
    /\ UNCHANGED <<workerVars, cancels, receiverVars, historyVars>>

CallerReturns ==
    /\ caller = "waiting" /\ completions + failures > 0 /\ caller' = "left"
    /\ UNCHANGED <<workerVars, cancels, receiverVars, groupVars, historyVars>>

\* The caller's task is cancelled while __aexit__ waits for the group.
CallerInterrupted ==
    /\ caller = "waiting" /\ caller' = "interrupted"
    /\ UNCHANGED <<workerVars, cancels, receiverVars, groupVars, historyVars>>

-----------------------------------------------------------------------------

WorkerStep(w) ==
    \/ AcceptJob(w) \/ CancelArrives(w)
    \/ HandlerCancelled(w) \/ CancelHookDone(w)

HandlerChoice(w) ==
    \/ \E error \in BOOLEAN, r \in Receivers : Respond(w, error, r)
    \/ StreamEnd(w) \/ HandlerEnds(w) \/ StopWorker(w)

ReceiverStep(r) ==
    \/ Receive(r) \/ HookDone(r) \/ ErrorHookDone(r) \/ TimerJoined(r)
    \/ CompleteHookDone(r)

CancellerStep == \E c \in Cancellers : FinishCancel(c)

CallerChoice == CallerWaits \/ CallerRaises \/ CallerInterrupted

Next ==
    \/ \E w \in Workers : WorkerStep(w) \/ HandlerChoice(w)
    \/ \E r \in Receivers : ReceiverStep(r)
    \/ CancellerStep \/ TimerFires \/ OtherCancels
    \/ CallerChoice \/ CallerReturns

Spec == Init /\ [][Next]_vars

\* Ready tasks run and the timeout expires.  What a handler does, and whether
\* it ever ends by itself, is up to its author.
Fairness ==
    /\ \A w \in Workers : WF_vars(WorkerStep(w))
    /\ \A r \in Receivers : WF_vars(ReceiverStep(r))
    /\ WF_vars(CancellerStep) /\ WF_vars(TimerFires) /\ WF_vars(CallerReturns)

FairSpec == Spec /\ Fairness

-----------------------------------------------------------------------------
(* Properties.                                                             *)

\* A group has one outcome: complete() when every worker has responded, or
\* fail(), whatever meets while a task waits for the timeout task to end.
OneOutcome ==
    /\ completions + failures <= 1
    /\ completions = 1 => responded = Workers
    /\ completions + failures = 1 => ~group

\* A worker answers a job it accepted once, from its handler, the cancel
\* message or stop(), and only an answer removes the job from _active_jobs.
AnsweredOnce ==
    \A w \in Workers : answers[w] = IF w \in accepted \ active THEN 1 ELSE 0

\* The caller that waits for a group returns from it: the timeout makes up for
\* workers that never answer and for receiving tasks that died.
WaiterReturns == (caller = "waiting") ~> (caller \in {"left", "interrupted"})

\* A group that is cancelled leaves no handler at work on its job, except on a worker
\* whose stop() had answered for it, or one whose request the cancel message overtook:
\* a handler that has not answered when its cancel message is on the way comes to
\* an end.  One that has is not cancelled, and may run on.
FailedJobsEnd ==
    \A w \in Workers :
        (w \notin requests /\ (canceller # "none" \/ w \in cancels))
            ~> [](handler[w] # "running" \/ w \in stopped)

=============================================================================
