--------------------------- MODULE FunctionCalls ----------------------------
(***************************************************************************)
(* Function calls of an LLM service (services/llm_service.py) and what the *)
(* assistant aggregator at the other end of the pipeline makes of them     *)
(* (processors/aggregators/llm_response_universal.py).                     *)
(*                                                                         *)
(* The service runs each call in a task, at once or one after the other,   *)
(* and an interruption cancels the tasks one by one, waiting for each.     *)
(* The frames it broadcasts reach the aggregator over processors that      *)
(* behave as FrameDelivery says: in order within a lane, and a system      *)
(* frame may overtake the others but is never overtaken by them.           *)
(*                                                                         *)
(* An action is the code between two suspension points.  All calls that an *)
(* interruption cancels are to one function, calls are grouped, and no     *)
(* call reports intermediate results.                                      *)
(***************************************************************************)
EXTENDS Naturals, Sequences, FiniteSets

CONSTANTS
    N,                \* the number of calls
    Batch,            \* [1..N -> Nat]: the completion a call belongs to
    AsyncSets,        \* which calls may have cancel_on_interruption=False
    Timed,            \* calls with a timeout
    Modes,            \* values of run_in_parallel
    MaxInterruptions  \* bound: how many interruptions

Call == 1..N
Batches == {Batch[c] : c \in Call}
Group(b) == {c \in Call : Batch[c] = b}

\* Calls are numbered in the order in which the LLM asks for them.
ASSUME CallsAssumption ==
    /\ N \in Nat /\ MaxInterruptions \in Nat
    /\ Batch \in [Call -> Nat]
    /\ \A c, d \in Call : c <= d => Batch[c] <= Batch[d]
    /\ AsyncSets \subseteq SUBSET Call /\ Timed \subseteq Call
    /\ Modes \subseteq BOOLEAN

VARIABLES
    parallel,        \* _run_in_parallel
    async,           \* the calls with cancel_on_interruption=False
    pc,              \* where the task of a call is
    timer,           \* is its timeout_task running?
    tasks,           \* keys of _function_call_tasks, in order of creation
    runner,          \* the call _sequential_runner_task awaits, or 0
    runnerAlive,     \* has that task not ended?
    loopAt,          \* the call whose end _cancel_function_call awaits, or 0
    loopSize,        \* size of the dictionary when its loop began
    loopDone,        \* cancelled_tasks
    wire,            \* broadcast frames on their way to the aggregator
    inProgress,      \* _function_calls_in_progress: no, None or the frame
    context,         \* what the context says of a call
    userSpeaking,    \* _user_speaking
    botSpeaking,     \* _bot_speaking
    deferred,        \* _push_context_on_bot_stopped_speaking
    interruptions,   \* history: how many interruptions the service met
    forwarded,       \* history: how many of them it passed on
    cancelled,       \* history: calls an interruption cancelled
    gaveUp,          \* history: calls whose handler ended without a result
    overtaken,       \* history: calls whose cancel overtook their start
    sent,            \* history: the first result broadcast for a call
    runs             \* history: how often a batch made the LLM run

modeVars == <<parallel, async>>
callVars == <<modeVars, pc, timer, tasks, runner, runnerAlive>>
loopVars == <<loopAt, loopSize, loopDone, interruptions, forwarded, cancelled>>
aggregatorVars == <<inProgress, context, overtaken, runs>>
speechVars == <<userSpeaking, botSpeaking, deferred>>
historyVars == <<gaveUp, sent>>
vars == <<callVars, loopVars, wire, aggregatorVars, speechVars, historyVars>>

PcType ==
    {"idle", "queued", "created", "yielded", "running", "reporting",
     "reported", "stopping", "deferred", "ended"}
\* The states of a call whose task exists.
Live == {"created", "yielded", "running", "reporting", "reported", "stopping"}

Kinds == {"started", "progress", "value", "empty", "cancel", "interruption"}
Message == [kind : Kinds, calls : SUBSET Call]

\* A task that has not ended is in the dictionary, where an interruption
\* finds it.
TypeOK ==
    /\ parallel \in BOOLEAN /\ async \subseteq Call
    /\ runnerAlive \in BOOLEAN
    /\ pc \in [Call -> PcType] /\ timer \in [Call -> BOOLEAN]
    /\ tasks \subseteq Call
    /\ runner \in Call \cup {0}
    /\ loopAt \in Call \cup {0} /\ loopSize \in Nat /\ loopDone \subseteq Call
    /\ wire \in Seq(Message)
    /\ inProgress \in [Call -> {"no", "None", "frame"}]
    /\ context \in [Call -> {"none", "running", "result", "completed",
                             "cancelled"}]
    /\ userSpeaking \in BOOLEAN /\ botSpeaking \in BOOLEAN
    /\ deferred \in BOOLEAN
    /\ interruptions \in Nat /\ forwarded \in Nat
    /\ cancelled \subseteq Call /\ gaveUp \subseteq Call
    /\ overtaken \subseteq Call
    /\ sent \in [Call -> {"no", "value", "empty"}]
    /\ runs \in [Batches -> Nat]
    /\ \A c \in Call : pc[c] \in Live => c \in tasks

Init ==
    /\ parallel \in Modes /\ async \in AsyncSets
    /\ pc = [c \in Call |-> "idle"] /\ timer = [c \in Call |-> FALSE]
    /\ tasks = {} /\ runner = 0 /\ runnerAlive = TRUE
    /\ loopAt = 0 /\ loopSize = 0 /\ loopDone = {}
    /\ wire = <<>>
    /\ inProgress = [c \in Call |-> "no"]
    /\ context = [c \in Call |-> "none"]
    /\ userSpeaking = FALSE /\ botSpeaking = FALSE /\ deferred = FALSE
    /\ interruptions = 0 /\ forwarded = 0
    /\ cancelled = {} /\ gaveUp = {} /\ overtaken = {}
    /\ sent = [c \in Call |-> "no"]
    /\ runs = [b \in Batches |-> 0]

Msg(kind, calls) == [kind |-> kind, calls |-> calls]
Broadcast(kind, calls) == wire' = Append(wire, Msg(kind, calls))

-----------------------------------------------------------------------------
(* The service: starting calls.                                            *)

\* run_function_calls: everything for a batch happens in one step.
RunFunctionCalls(b) ==
    /\ loopAt = 0
    /\ \A c \in Call : pc[c] = "idle" <=> Batch[c] >= b
    /\ Broadcast("started", Group(b))
    /\ pc' = [c \in Call |-> IF c \notin Group(b) THEN pc[c]
                             ELSE IF parallel THEN "created" ELSE "queued"]
    /\ tasks' = IF parallel THEN tasks \cup Group(b) ELSE tasks
    /\ UNCHANGED <<modeVars, timer, runner, runnerAlive, loopVars,
                   aggregatorVars, speechVars, historyVars>>

\* Mutant: the runner does not enter the task into the dictionary.
RunnerTakes_Unlisted(c) ==
    /\ runnerAlive /\ runner = 0
    /\ pc[c] = "queued" /\ \A d \in Call : pc[d] = "queued" => c <= d
    /\ runner' = c
    /\ pc' = [pc EXCEPT ![c] = "created"]
    /\ UNCHANGED <<modeVars, timer, tasks, runnerAlive, loopVars, wire,
                   aggregatorVars, speechVars, historyVars>>

\* _sequential_runner_handler takes the next call and awaits its task.
RunnerTakes(c) ==
    /\ runnerAlive /\ runner = 0
    /\ pc[c] = "queued" /\ \A d \in Call : pc[d] = "queued" => c <= d
    /\ runner' = c
    /\ pc' = [pc EXCEPT ![c] = "created"]
    /\ tasks' = tasks \cup {c}
    /\ UNCHANGED <<modeVars, timer, runnerAlive, loopVars, wire,
                   aggregatorVars, speechVars, historyVars>>

\* _run_function_call up to asyncio.sleep(0).
CallStarts(c) ==
    /\ pc[c] = "created"
    /\ pc' = [pc EXCEPT ![c] = "yielded"]
    /\ timer' = [timer EXCEPT ![c] = c \in Timed]
    /\ Broadcast("progress", {c})
    /\ UNCHANGED <<modeVars, tasks, runner, runnerAlive, loopVars,
                   aggregatorVars, speechVars, historyVars>>

\* Mutant: the task does not yield before it calls the handler.
HandlerStarts_NoYield(c) ==
    /\ pc[c] = "yielded"
    /\ pc' = [pc EXCEPT ![c] = "running"]
    /\ UNCHANGED <<modeVars, timer, tasks, runner, runnerAlive, loopVars, wire,
                   aggregatorVars, speechVars, historyVars>>

\* The tasks of a batch are created in one step, so that all of them start
\* before the first resumes from its sleep(0).
HandlerStarts(c) ==
    /\ pc[c] = "yielded"
    /\ \A d \in Group(Batch[c]) : pc[d] # "created"
    /\ pc' = [pc EXCEPT ![c] = "running"]
    /\ UNCHANGED <<modeVars, timer, tasks, runner, runnerAlive, loopVars, wire,
                   aggregatorVars, speechVars, historyVars>>

-----------------------------------------------------------------------------
(* The service: results, timeouts, and the end of a call.                  *)

\* broadcast_frame(FunctionCallResultFrame, ...)
SendResult(c, kind) ==
    /\ Broadcast(kind, {c})
    /\ sent' = [sent EXCEPT ![c] = IF @ = "no" THEN kind ELSE @]

\* Handlers report something or, what counts as nothing, a false value.
Results == {"value", "empty"}

\* The handler calls result_callback, which first stops the timeout.
Report(c) ==
    /\ pc[c] = "running"
    /\ \/ /\ timer[c]
          /\ pc' = [pc EXCEPT ![c] = "reporting"]
          /\ timer' = [timer EXCEPT ![c] = FALSE]
          /\ UNCHANGED <<wire, sent>>
       \/ /\ ~timer[c]
          /\ pc' = [pc EXCEPT ![c] = "reported"]
          /\ \E kind \in Results : SendResult(c, kind)
          /\ UNCHANGED timer
    /\ UNCHANGED <<modeVars, tasks, runner, runnerAlive, loopVars,
                   aggregatorVars, speechVars, gaveUp>>

\* cancel_task(timeout_task) returned, whether or not the task of the call was
\* itself cancelled while it waited there.
TimeoutStopped(c) ==
    /\ pc[c] = "reporting"
    /\ pc' = [pc EXCEPT ![c] = "reported"]
    /\ \E kind \in Results : SendResult(c, kind)
    /\ UNCHANGED <<modeVars, timer, tasks, runner, runnerAlive, loopVars,
                   aggregatorVars, speechVars, gaveUp>>

\* Mutant: a timeout is not reported to anybody.
TimesOut_Silent(c) ==
    /\ timer[c]
    /\ timer' = [timer EXCEPT ![c] = FALSE]
    /\ UNCHANGED <<modeVars, pc, tasks, runner, runnerAlive, loopVars, wire,
                   aggregatorVars, speechVars, historyVars>>

\* timeout_handler: the result None.  The handler of the call goes on.
TimesOut(c) ==
    /\ timer[c]
    /\ timer' = [timer EXCEPT ![c] = FALSE]
    /\ SendResult(c, "empty")
    /\ UNCHANGED <<modeVars, pc, tasks, runner, runnerAlive, loopVars,
                   aggregatorVars, speechVars, gaveUp>>

\* The task of a call ends by itself: the done callback removes it, unless
\* _cancel_function_call has removed the callback; the runner removes it
\* whatever happens.
TaskEnds(c) ==
    /\ tasks' = IF parallel /\ loopAt = c THEN tasks ELSE tasks \ {c}
    /\ runner' = IF runner = c THEN 0 ELSE runner
    /\ UNCHANGED <<modeVars, runnerAlive>>

\* The handler returns after it reported.
HandlerReturns(c) ==
    /\ pc[c] = "reported"
    /\ pc' = [pc EXCEPT ![c] = "ended"]
    /\ TaskEnds(c)
    /\ UNCHANGED <<timer, loopVars, wire, aggregatorVars, speechVars,
                   historyVars>>

\* The handler returns or raises before it reported; the timeout is cancelled
\* with it.  It may have left the callback with somebody who uses it later.
HandlerGivesUp(c) ==
    /\ pc[c] = "running"
    /\ pc' \in {[pc EXCEPT ![c] = "ended"], [pc EXCEPT ![c] = "deferred"]}
    /\ timer' = [timer EXCEPT ![c] = FALSE]
    /\ gaveUp' = gaveUp \cup {c}
    /\ TaskEnds(c)
    /\ UNCHANGED <<loopVars, wire, aggregatorVars, speechVars, sent>>

ReportLate(c) ==
    /\ pc[c] = "deferred"
    /\ pc' = [pc EXCEPT ![c] = "ended"]
    /\ \E kind \in Results : SendResult(c, kind)
    /\ UNCHANGED <<modeVars, timer, tasks, runner, runnerAlive, loopVars,
                   aggregatorVars, speechVars, gaveUp>>

-----------------------------------------------------------------------------
(* The service: an interruption.                                           *)

\* task.cancel(): a task that has not reached its try block ends, without its
\* finally; one that stops its timeout swallows the request; the handler of
\* any other sees it.  A cancelled call takes the sequential runner, which
\* awaits it, with it.
AfterCancel(s) ==
    IF s \in {"created", "yielded"} THEN "ended"
    ELSE IF s \in {"running", "reported"} THEN "stopping" ELSE s

CancelTask(c) ==
    /\ loopAt' = c
    /\ pc' = [pc EXCEPT ![c] = AfterCancel(@)]
    /\ runnerAlive' = (runnerAlive /\ ~(runner = c /\ pc'[c] = "ended"))
    /\ runner' = IF runner = c /\ pc'[c] = "ended" THEN 0 ELSE runner
    /\ cancelled' = cancelled \cup {c}

\* Calls the loop still has to look at, after c; a task that has ended is in
\* the dictionary only if an earlier loop failed.
Ahead(c) == {d \in tasks \ async : d > c}
Victims(c) == {d \in Ahead(c) : pc[d] # "ended"}

\* Mutant: the loop ends after the first call.
LoopGoesOn_Once(c, done) ==
    IF c = 0 /\ Victims(0) # {}
      THEN /\ \E d \in Victims(0) : CancelTask(d)
           /\ UNCHANGED <<tasks, wire, forwarded, loopDone>>
      ELSE /\ loopAt' = 0 /\ loopDone' = {}
           /\ tasks' = tasks \ done
           /\ wire' = wire \o <<Msg("cancel", done), Msg("interruption", {})>>
           /\ forwarded' = forwarded + 1
           /\ UNCHANGED <<pc, runner, runnerAlive, cancelled>>

\* The loop goes on from call c, having cancelled the calls in done, which are
\* told to the aggregator: to the next task that has not ended, or to its end.
LoopGoesOn(c, done) ==
    LET next == {d \in Victims(c) : \A e \in Victims(c) : d <= e}
        passed == {d \in Ahead(c) : \A e \in next : d < e}
        told == done \cup passed
        news == IF told = {} THEN <<>> ELSE <<Msg("cancel", told)>>
    IN  \/ /\ next # {}
           /\ \E d \in next : CancelTask(d)
           /\ loopDone' = loopDone \cup told
           /\ wire' = wire \o news
           /\ UNCHANGED <<tasks, forwarded>>
        \/ /\ next = {}
           /\ loopAt' = 0 /\ loopDone' = {}
           /\ tasks' = tasks \ (loopDone \cup told)
           /\ wire' = wire \o news \o <<Msg("interruption", {})>>
           /\ forwarded' = forwarded + 1
           /\ UNCHANGED <<pc, runner, runnerAlive, cancelled>>

\* _handle_interruptions.  FrameProcessor has cancelled and awaited the task
\* that ran run_function_calls, so the tasks created there have started.
Interrupt ==
    /\ loopAt = 0 /\ interruptions < MaxInterruptions
    /\ parallel => \A c \in Call : pc[c] # "created"
    /\ interruptions' = interruptions + 1
    /\ loopSize' = Cardinality(tasks)
    /\ LoopGoesOn(0, {})
    /\ UNCHANGED <<modeVars, timer, aggregatorVars, speechVars, historyVars>>

\* A cancelled handler ends and its finally stops the timeout.
TaskStopped(c) ==
    /\ pc[c] = "stopping"
    /\ pc' = [pc EXCEPT ![c] = "ended"]
    /\ timer' = [timer EXCEPT ![c] = FALSE]
    /\ runnerAlive' = (runnerAlive /\ runner # c)
    /\ runner' = IF runner = c THEN 0 ELSE runner
    /\ UNCHANGED <<modeVars, tasks, loopVars, wire, aggregatorVars, speechVars,
                   historyVars>>

\* cancel_task() waits one second and then cancels again.
LoopCancelsAgain ==
    /\ loopAt # 0 /\ pc[loopAt] = "reported"
    /\ pc' = [pc EXCEPT ![loopAt] = "stopping"]
    /\ UNCHANGED <<modeVars, timer, tasks, runner, runnerAlive, loopVars, wire,
                   aggregatorVars, speechVars, historyVars>>

\* The awaited task has ended.  If the dictionary has another size by now the
\* loop raises RuntimeError, and with it the handler of the InterruptionFrame,
\* which is then not pushed.
LoopContinues ==
    /\ loopAt # 0 /\ pc[loopAt] = "ended"
    /\ \/ /\ Cardinality(tasks) = loopSize
          /\ LoopGoesOn(loopAt, {loopAt})
       \/ /\ Cardinality(tasks) # loopSize
          /\ loopAt' = 0 /\ loopDone' = {}
          /\ Broadcast("cancel", {loopAt})
          /\ UNCHANGED <<pc, tasks, runner, runnerAlive, cancelled, forwarded>>
    /\ UNCHANGED <<modeVars, timer, loopSize, interruptions, aggregatorVars,
                   speechVars, historyVars>>

-----------------------------------------------------------------------------
(* The assistant aggregator.                                               *)

Urgent(m) == m.kind \in {"started", "cancel", "interruption"}
IsResult(m) == m.kind \in {"value", "empty"}

\* A system frame overtakes the others; these arrive in order, each behind
\* every system frame that was pushed before it.
Arrives(i) ==
    IF Urgent(wire[i]) THEN \A j \in 1..(i - 1) : ~Urgent(wire[j]) ELSE i = 1

Received(i) == wire' = SubSeq(wire, 1, i - 1) \o SubSeq(wire, i + 1, Len(wire))

\* May another result have reached the process queue by now?
MoreResults(i) ==
    \E j \in (i + 1)..Len(wire) :
        IsResult(wire[j]) /\ \A k \in 1..j : ~Urgent(wire[k])

HandleStarted(i) ==
    /\ wire[i].kind = "started"
    /\ inProgress' = [c \in Call |-> IF c \in wire[i].calls THEN "None"
                                     ELSE inProgress[c]]
    /\ UNCHANGED <<context, overtaken, runs, speechVars>>

HandleInProgress(i) ==
    /\ wire[i].kind = "progress"
    /\ \E c \in wire[i].calls :
          /\ inProgress' = [inProgress EXCEPT ![c] = "frame"]
          /\ context' = [context EXCEPT ![c] = "running"]
    /\ UNCHANGED <<overtaken, runs, speechVars>>

\* Mutant: the last call of a group is not told from the others.
LastOfGroup_Any(c) == TRUE

LastOfGroup(c) ==
    \A d \in Group(Batch[c]) \ {c} : inProgress[d] # "frame"

\* _maybe_push_context_after_function_result
PushAfterResult(i) ==
    \/ MoreResults(i) /\ UNCHANGED deferred
    \/ botSpeaking /\ deferred' = TRUE
    \/ ~botSpeaking /\ deferred' = FALSE

\* _handle_function_call_result
HandleResult(i) ==
    /\ IsResult(wire[i])
    /\ \E c \in wire[i].calls :
          \/ /\ inProgress[c] = "no"
             /\ UNCHANGED <<inProgress, context, runs, deferred>>
          \/ /\ inProgress[c] # "no"
             /\ inProgress' = [inProgress EXCEPT ![c] = "no"]
             /\ context' = [context EXCEPT ![c] =
                    IF wire[i].kind = "value" THEN "result" ELSE "completed"]
             /\ IF wire[i].kind = "value" /\ LastOfGroup(c)
                  THEN /\ runs' = [runs EXCEPT ![Batch[c]] = @ + 1]
                       /\ IF userSpeaking THEN UNCHANGED deferred
                          ELSE PushAfterResult(i)
                  ELSE UNCHANGED <<runs, deferred>>
    /\ UNCHANGED <<overtaken, userSpeaking, botSpeaking>>

\* Mutant: a cancelled call is not marked in the context.
HandleCancel_Unmarked(i) ==
    /\ wire[i].kind = "cancel"
    /\ inProgress' = [c \in Call |-> IF c \in wire[i].calls THEN "no"
                                     ELSE inProgress[c]]
    /\ UNCHANGED <<context, overtaken, runs, speechVars>>

\* _handle_function_call_cancel: only of a call that is known to be running.
HandleCancel(i) ==
    LET known == {c \in wire[i].calls \ async : inProgress[c] = "frame"}
    IN  /\ wire[i].kind = "cancel"
        /\ inProgress' = [c \in Call |-> IF c \in known THEN "no"
                                         ELSE inProgress[c]]
        /\ context' = [c \in Call |-> IF c \in known THEN "cancelled"
                                      ELSE context[c]]
        /\ overtaken' = overtaken \cup
               {c \in wire[i].calls :
                   \E j \in 1..Len(wire) : wire[j] = Msg("progress", {c})}
        /\ UNCHANGED <<runs, speechVars>>

\* reset()
HandleInterruption(i) ==
    /\ wire[i].kind = "interruption"
    /\ deferred' = FALSE
    /\ UNCHANGED <<userSpeaking, botSpeaking, aggregatorVars>>

Aggregate ==
    /\ \E i \in 1..Len(wire) :
          /\ Arrives(i) /\ Received(i)
          /\ \/ HandleStarted(i)
             \/ HandleInProgress(i)
             \/ HandleResult(i)
             \/ HandleCancel(i)
             \/ HandleInterruption(i)
    /\ UNCHANGED <<callVars, loopVars, historyVars>>

UserStartsSpeaking ==
    /\ ~userSpeaking
    /\ userSpeaking' = TRUE
    /\ UNCHANGED <<callVars, loopVars, wire, aggregatorVars, botSpeaking,
                   deferred, historyVars>>

UserStopsSpeaking ==
    /\ userSpeaking
    /\ userSpeaking' = FALSE
    /\ UNCHANGED <<callVars, loopVars, wire, aggregatorVars, botSpeaking,
                   deferred, historyVars>>

BotStartsSpeaking ==
    /\ ~botSpeaking
    /\ botSpeaking' = TRUE
    /\ UNCHANGED <<callVars, loopVars, wire, aggregatorVars, userSpeaking,
                   deferred, historyVars>>

\* A run that was put off happens now.
BotStopsSpeaking ==
    /\ botSpeaking
    /\ botSpeaking' = FALSE
    /\ deferred' = (deferred /\ userSpeaking)
    /\ UNCHANGED <<callVars, loopVars, wire, aggregatorVars, userSpeaking,
                   historyVars>>

-----------------------------------------------------------------------------

\* Steps of a call's task and of the runner that nobody has to wait for.
TaskStep(c) ==
    RunnerTakes(c) \/ CallStarts(c) \/ HandlerStarts(c) \/ TimeoutStopped(c)
        \/ TaskStopped(c)

\* What the author of a handler decides.
HandlerStep(c) ==
    Report(c) \/ HandlerReturns(c) \/ HandlerGivesUp(c) \/ ReportLate(c)

Speech ==
    \/ UserStartsSpeaking \/ UserStopsSpeaking
    \/ BotStartsSpeaking \/ BotStopsSpeaking

Next ==
    \/ \E b \in Batches : RunFunctionCalls(b)
    \/ \E c \in Call : TaskStep(c) \/ TimesOut(c) \/ HandlerStep(c)
    \/ Interrupt \/ LoopContinues \/ LoopCancelsAgain
    \/ Aggregate \/ Speech

Spec == Init /\ [][Next]_vars

\* The event loop runs every ready task, timers fire, frames are delivered,
\* and a speaker stops; nothing makes a handler report or return.
Fairness ==
    /\ \A c \in Call : WF_vars(TaskStep(c)) /\ WF_vars(TimesOut(c))
    /\ WF_vars(LoopContinues) /\ WF_vars(LoopCancelsAgain)
    /\ WF_vars(Aggregate)
    /\ WF_vars(UserStopsSpeaking) /\ WF_vars(BotStopsSpeaking)

FairSpec == Spec /\ Fairness

-----------------------------------------------------------------------------
(* Properties.                                                             *)

\* The task of the call has ended and no frame about it is on its way or is
\* still to be sent.
Settled(c) ==
    /\ pc[c] = "ended" /\ ~timer[c] /\ loopAt # c
    /\ \A i \in 1..Len(wire) : c \notin wire[i].calls

\* group_parallel_tools: "the LLM is triggered exactly once after all calls in
\* the batch complete".  With parallel calls no batch makes the LLM run twice,
\* and a batch whose calls all reported a value has made it run.
OneRunPerGroup ==
    parallel =>
        \A b \in Batches :
            /\ runs[b] <= 1
            /\ (\A c \in Group(b) : Settled(c) /\ context[c] = "result")
                  => runs[b] = 1

\* Once the frames of a call have arrived the context says what happened to it:
\* the first result that was reported, or that it was cancelled.  It is left as
\* running only if the handler ended without a result, or if the frame of its
\* cancellation overtook the frame of its start.
ContextTellsOutcome ==
    \A c \in Call :
        Settled(c) =>
            \/ /\ c \in gaveUp \cup cancelled
               /\ context[c] = "running" => c \in gaveUp \cup overtaken
            \/ sent[c] = "value" /\ context[c] = "result"
            \/ sent[c] = "empty" /\ context[c] = "completed"

\* When an interruption has been handled and is passed on, no call of the
\* function is running any more, whatever was started or ended meanwhile.
InterruptionCancelsAll ==
    [][forwarded' # forwarded => \A c \in Call \ async : pc'[c] \notin Live]_vars

\* A call with a timeout does not stay in progress, however long its handler
\* takes: unless the handler ends without a result, which ends the timeout too,
\* or the cancellation of the call was missed.
TimedCallsAnswered ==
    \A c \in Timed :
        inProgress[c] = "frame"
            ~> inProgress[c] # "frame" \/ c \in gaveUp \cup overtaken

\* "We remove the callback because we are going to cancel the task next,
\* otherwise we will be removing it from the set while we are iterating": the
\* loop over the calls is not disturbed, and the InterruptionFrame goes on.
InterruptionForwarded == loopAt = 0 => forwarded = interruptions

=============================================================================
