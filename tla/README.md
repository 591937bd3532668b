# Formal models of the pipecat core

pipecat is a Python framework for voice agents. A bot is a pipeline of frame
processors: audio and text travel through it as frames, each processor has its
own queues and asyncio tasks, and a user who starts speaking interrupts all of
them at once. Several pipelines can run as workers that exchange jobs over a
message bus. Nearly all errors that are hard to find sit between tasks: a frame
taken before an `await` and used after it, a task cancelled while another waits
for it, an end that races with an interruption. These modules model that part.

Paths below are relative to `src/src/pipecat/` of the repository.

## 1. Inventory

### What is modelled

**Frame processor** (`processors/frame_processor.py`, `utils/frame_queue.py`).
State: a priority queue of all frames, a queue of non-system frames, an input
task and a process task with one event and one pause flag each, the flags
started and cancelling. Operations: `queue_frame`, pause and resume of either
task, `broadcast_interruption`, handling of Start-, Interruption- and
CancelFrame, `cleanup`. Both tasks and any caller interleave. It is correct if
frames keep their order, none is lost or handled twice, uninterruptible frames
survive interruptions, a pause holds, and cleanup leaves no task behind.

**Pipeline worker** (`pipeline/worker.py`). State: the push queue and the push
task, events for start, end and finish, the idle monitor, the frames in the
pipeline. Operations: `run`, `cancel`, `queue_frame`, the callbacks of source and
sink, the idle timeout, the timeout of a CancelFrame, cancellation of `run` from
outside. It is correct if nothing enters before the start, the end is reported
once, `run` returns when asked to, and nothing outlives it.

**Job groups** (`workers/base_worker.py`, `pipeline/job_context.py`). State: the
groups of the requester with responses and timeout task, the active jobs and
handler tasks of the workers, messages on the bus, the caller in the
`async with` block. System messages overtake data messages, and each worker
handles the two in different tasks. It is correct if a group ends once, each job
is answered once, the caller returns, and a failed group ends its handlers.

**Parallel pipeline** (`pipeline/parallel_pipeline.py`). State: the frames inside
the branches, a counter per lifecycle frame, the buffer, the ids already seen.
It is correct if a lifecycle frame leaves once, when all branches have passed it
on, in the right order with the frames around it, and the barrier is lifted.

**Output transport** (`transports/base_output.py`). State: audio queue and audio
task, clock queue and clock task, the bot's turn. The process task hands frames
over and waits in `stop()`; the input task handles interruptions and `cancel()`
beside it. It is correct if order is kept, an interruption silences what came
before it, audio is played within turns, every turn ends, and the EndFrame is
the last frame to leave.

**Function calls** (`services/llm_service.py`,
`processors/aggregators/llm_response_universal.py`). State: the dictionary of running
calls with their tasks and timeouts, the sequential runner and its queue, the loop that
cancels calls one by one; at the other end of the pipeline the calls in progress, what
the context says of each, both speakers, and a run of the LLM that was put off.
Operations: starting calls in parallel or in sequence, reporting a result, a timeout,
an interruption, and what the aggregator does with the four frames of a call. It is
correct if a group of calls makes the LLM run once, the context tells what became of
each call, an interruption stops every call it should, and a timeout answers.

**Websocket services** (`services/websocket_service.py`, `services/inworld/tts.py`).
State: the connection, the receive task, the flags disconnecting and reconnecting,
the counters of attempts and of quick failures. Operations: connect, send with retry,
reconnect with backoff, the receive loop, disconnect, and the cancellation of any task
that is inside one of them, or has to leave it alone. It is correct if one task at a
time is in the reconnection loop, nothing is left of the connection after a CancelFrame,
and no frame is held up for ever by a server that refuses or drops connections.

**User turns** (`turns/user_turn_controller.py`, `turns/user_start/`,
`turns/user_stop/speech_timeout_user_turn_stop_strategy.py`, and the user half of the
aggregator). State: the turn, the voice, the text heard, two timers with their flags,
a watchdog, the words not sent yet. Operations: voice activity, interim and final
transcriptions, each timer, the start and the end of a turn with the reset of the
strategies. It is correct if no word stays behind and every turn ends.

**Worker runner** (`workers/runner.py`, with the end and cancel messages of
`workers/base_worker.py` and the subscription of `bus/bus.py`). State: the entries with
their tasks, the shutdown event, the messages that wait for a worker, the children a
parent waits for. Operations: adding workers from the program or from a worker, the
set-up loop, `end`, `cancel`, the end of a worker, the end of `run` and its cancellation.
It is correct if a run that goes on has started each worker, whenever it was added,
`run` returns or fails when the run is to end, and no worker that ran then is left when
it has returned.

### What is not modelled

| part | state and operations | what would make it correct |
|---|---|---|
| synchronised parallel pipeline (`pipeline/sync_parallel_pipeline.py`) | two queues per branch, SyncFrame rounds | a round releases its own frames only; the EndFrame leaves |
| service switcher (`pipeline/service_switcher.py`) | the active service | one service handles each frame; failover per failure |
| bus, network buses, registry (`bus/`, `registry/`) | subscriptions, readiness of workers on other hosts | a ready worker is known to all |
| activation of workers (`workers/base_worker.py`) | active flag, pending activation | a worker is activated once it has started |
| idle controller, mute and other turn strategies (`turns/`) | idle timer, counter of calls, mute state | no idle event during a call |
| summariser (`processors/aggregators/`) | one request to an LLM | a summary replaces what it summarises |
| TTS contexts (`services/tts_service.py`, `utils/context/`) | audio contexts, the sequencer of spoken and skipped text | text is reported in order of emission; a pause is always resumed |
| voice activity (`audio/vad/`) | four-state machine with counters | hysteresis: no flicker, each start has a stop |
| input transport (`transports/base_input.py`) | one queue, one task, a pause flag | frames stay in order |
| concrete transports, provider services, adapters, serializers | protocol clients | their other half is outside the repository |
| pipeline, observers, filters, notifiers, metrics, tracing, text and audio utilities | links, statistics, a few flags | no concurrent behaviour of their own |
| examples, applications, development runner | programs that use the library | |

`PROJECT.json` has one component for each of these with its files.

### How the parts interact

A `PipelineWorker` owns a `Pipeline`, whose processors are linked in a line;
`push_frame` calls `queue_frame` of the neighbour. So what FrameProcessor calls a
frame in the input queue is what the neighbour pushed. A `ParallelPipeline` is a
processor that owns branches of processors and stands in their sources and
sinks; it pauses its own two tasks with the calls FrameProcessor models. The
output transport is a processor whose `process_frame` runs in the tasks of
FrameProcessor: its process task is the one that waits in `stop()`, its input
task the one that handles interruptions. A terminal frame that reaches the sink
of the pipeline sets the events the worker's push task waits for. A worker is
also a subscriber of the bus, where jobs are sent, and the caller of a job is
usually a tool of an LLM service, cancelled when the user interrupts. The runner
starts workers and ends them over the same bus; that a worker which is told to finish
does so is what PipelineWorker shows and WorkerRunner assumes. An LLM service and the
aggregator are processors of one pipeline: the frames of a call reach the aggregator
over processors that behave as FrameDelivery says, which FrameProcessor implements.
The end of a user turn makes the aggregator push its words, which is what starts the
LLM and hence the calls; a websocket service speaks what the LLM answers, in the
process task that interruptions cancel.

### What is hard here

* Interleaving at every `await`: cancelling a task means waiting for it, and the
  world changes while one waits (interruptions, cleanup, job timeouts).
* Cancellation that is swallowed: `cancel_task` catches `CancelledError`, so a
  task cancelled while it cancels another goes on.
* Two classes of frames and of messages, the second overtaking the first.
* Shutdown: EndFrame, StopFrame, CancelFrame, an idle timeout, a fatal error and a
  cancellation of `run` can all meet.
* Waiting without a timeout for something that a failure can keep from happening.

The hazards of `PROJECT.json` name the lines and the properties that cover them.

## 2. Plan

1. FrameProcessor, since everything runs in its tasks. Done.
2. PipelineWorker: start, end and cancellation of a whole pipeline. Done.
3. JobGroup: the protocol between workers. Done.
4. ParallelPipeline: the one processor that pauses itself and reorders. Done.
5. MediaSender: the tasks where interruptions and the end of a bot meet. Done.
6. FrameDelivery: what a processor promises, and the refinement by FrameProcessor,
   checked and proved. Done.
7. FunctionCalls: `llm_service` composed with the assistant aggregator over the two
   lanes of FrameDelivery. Done.
8. WebsocketService: receive task, senders, reconnection, disconnect. Done for the base
   with a text-to-speech service on top of it.
9. UserTurn: controller, start strategies, one stop strategy, watchdog, aggregation.
   Done for that strategy.
10. WorkerRunner: run, end and cancel of a tree of workers. Done for one runner on the
    in-process bus.
11. SyncParallelPipeline: rounds of SyncFrames and the EndFrame. Left.
12. The service switcher on top of ParallelPipeline. Left.
13. The audio contexts of the TTS service, the sequencer of spoken text and the state
    machine of voice activity. Left.
14. Registry, readiness and activation of workers across runners. Left.

For each module type correctness and its safety properties are proved, where the
provers reach them (section 5).

## 3. Modules and the code

asyncio runs one coroutine at a time, so in all modules an action is the code
between two points where a coroutine really suspends. `await` of a coroutine
that does not block (putting into an unbounded queue, pushing to a processor that
only queues) is no such point; waiting for a queue, an event, a task, a timer or
user code is. Cancelling a task is two steps, the request and the end of the
task, and whatever the code may do in between can happen in between.

**FrameProcessor.** `inputQueue` is `__input_queue`, a heap keyed by priority and
arrival number, so a set and the order it induces; `processQueue` is the
`FrameQueue`, ordered by `putOrder`. `inputPc` and `processTask` say where the two
tasks stand (`__input_frame_task_handler`, `__process_frame_task_handler`). An
event is "set", "clear" or, after `__reset_process_task` has replaced it, "none",
and a waiter that was woken stays woken. The history variables `outcome`, `begun`
and `arrival` record what became of each frame. `cleanup` is two steps
(CleanupInput, CleanupProcess), an interruption too (HandleInterruption,
InputCancelled), since both wait for a cancelled task.

**PipelineWorker.** `pushPc` follows `_process_push_queue`, `runPc` follows `run()`.
The pipeline is the set of lifecycle frames in flight; `Sink` is
`_sink_push_frame`, `Lose` is a processor that raises while it handles the frame
and so does not forward it. `OutsideCancel` cancels the task of `run()`.

**JobGroup.** One group: requests wait in `requests`, cancel messages in `cancels`,
answers in `inbox`, one queue each for the requester's router and data task
(`Receivers`). `pc` is where such a task is inside `_handle_job_response`. The
places where the handlers wait are the states joining (the timeout task), the
hooks, and cancelling. `canceller` is who is inside `cancel_job_group`. A handler that
has answered may run on ("answered"): nobody looks for it any more, so its end is not
a step of its own.

**ParallelPipeline.** A branch is the set of the frames in it; those that travel
upstream (`Upstream`) may stay behind the EndFrame. `BranchPasses` is
the sink of a branch, `EmitOther`, `EmitEarly` and `EmitLast` its cases
(`_pipeline_sink_push_frame`): a frame that needs no synchronisation, a lifecycle
frame that is not the last copy, and the last copy, which resumes both tasks and
flushes the buffer before or after the frame.

**MediaSender.** `process` is idle or where it is in `stop()`, `input` is idle or
whose end it awaits in `handle_interruptions` or `cancel`. `audioQueue` and
`clockQueue` hold numbered frames: they are filled in the order of the numbers,
so the head of the FIFO queue is the least. Writing audio, sending a message and
the final silence suspend the audio task (`inHand`, states writing and silence).

**FrameDelivery.** Not a translation of code but what the other modules rely on: two
lanes, and one status per frame. `Delivers` of FrameProcessor is its specification under
the refinement mapping that forgets queues and tasks: a frame is waiting, taken, done,
dropped or refused.

**FunctionCalls.** `pc` is where the task of a call is; `tasks` is the dictionary
`_function_call_tasks` in order of creation; `loopAt` is the call whose end the loop of
`_cancel_function_call` awaits. `wire` holds the frames on their way to the aggregator
in the order sent, and `Aggregate` takes a system frame or the first of the others.
Its five cases are the handlers of the aggregator, from `HandleStarted` to
`HandleInterruption`.

**WebsocketService.** `pc` is what each of the three tasks awaits, `job` why, `at` on
which socket. `conn` is the state of a socket; a socket that is closed and no longer
referred to is used again, so that any number of connections come and go.
`InputBegins` is an InterruptionFrame or a CancelFrame: where `_start_interruption` finds
an uninterruptible frame (a change of settings, an EndFrame) nothing is cancelled, and
the interruption is handled beside it (state handle). Otherwise the input task awaits
the process task (await), which ends where it stands (`Unwinds`, the `finally` blocks)
or, if it waits in `cancel_task` itself, swallows the request and goes on (swallow)
until it is asked a second time; there is no third time (lost). `Runs` says which tasks
have been asked to end and take no step of their own. A process task that a CancelFrame
ended is gone until an InterruptionFrame starts it again; one that an EndFrame keeps
waiting for its audio is in the state drain.

**UserTurn.** The shared state is one record, since nearly every handler touches most
of it, and a handler is a function from state to state up to its next `await`. `doing`
says for each task what it awaits and which job it goes on with: a timer that is
cancelled is awaited, and those that awaited it before are woken first. `timer` is the
life of each timer task; `TimePasses` lets timers become due, and it does so only when
no task is ready, as the loop does.

**WorkerRunner.** `runPc` follows `run()`, `life` a worker from `add_workers()` to the
end of its task, `toCancel` and `ends` are what waits in the two queues of its
subscription. Before the loop over the entries the bus starts and setup files run
(`starting`): workers added then are started with the others. `SetupRound` is one round
of the loop, which suspends
after each start; `HandleCancel` is done by the router task, `HandleEnd` and
`ChildrenEnded` by the data task, so the one does not wait for the other.

In each module `TypeOK` is the type invariant, `Spec` has no fairness, `FairSpec`
adds it; in WorkerRunner they are `RunnerTypeOK`, `RunnerSpec` and `RunnerFairSpec`,
because WorkerProofs extends it together with JobGroup.

## 4. Runs

Passing runs, with the number of distinct states TLC finds:

| run | states | what it shows |
|---|---|---|
| fp_safe | 552,914 | OnePlace, NoTaskOutlivesCleanup, PauseHolds for frames of five kinds, with pauses, resumes, broadcasts and cleanup at any moment |
| fp_live | 122,650 | EveryFrameSettles: an accepted frame is processed or removed; Delivers: the processor implements FrameDelivery |
| pw_life | 388,874 | ReturnedClean, ReportedOnce, RequestsFinish with three queued frames of any kind, losses, fatal errors, idle timeout, cancel, two cancellations from outside |
| job_group | 325,962 | OneOutcome, AnsweredOnce, WaiterReturns, FailedJobsEnd for two workers that answer, fail, stream, stop or say nothing |
| parallel | 22,304 | LifecycleWhole, InOrderOnce, LifecycleEncloses, BarrierLifts for three branches of any speed, with frames in both directions |
| sender | 589,238 | InterruptionClears, SpokenInTurn, EndLast, TurnsEnd for three frames of any kind, two interruptions, an EndFrame and a CancelFrame |
| calls | 791,016 | OneRunPerGroup, ContextTellsOutcome, InterruptionCancelsAll, TimedCallsAnswered for two calls in both modes, one with a timeout, one that may be asynchronous, and two interruptions |
| websocket | 483,261 | OneReconnects, CancelSticks, TasksReturn for three tasks, connections that are lost, refused or dropped at once, stop and cancel, and interruptions that cancel what runs or are handled beside it |
| turns | 27,280 | NothingLeftBehind, Answered for speech and transcriptions in any order, early, late or missing, with up to six timers at once |
| runner | 375,066 | NoWorkerForgotten, RunReturns for a root worker, its child and a root worker added at any time, `end`, `cancel`, workers that end by themselves and cancellations of `run` while it starts, waits or ends |

Runs that find what the code does against its own documentation (findings of
`PROJECT.json`):

| run | what happens |
|---|---|
| sender_end | an interruption during `stop()` loses the EndFrame, which frames.py:1591-1593 says must survive |
| calls_interrupted | a call that ends while the loop of an interruption awaits another changes the dictionary under the loop, which fails; the InterruptionFrame is not passed on |

### Bounds, and why they are enough

* fp_safe: five frames, one start, interruption, cancel, other system frame and data
  frame. The properties relate at most two frames, and an interruption, a start and
  a cancel between them. Calls to pause, resume and broadcast are not bounded.
  fp_live leaves the cancel out (it excuses everything) and takes an uninterruptible
  frame instead, so that the two classes that an interruption tells apart meet it.
* pw_life: three requests let every pair of terminal frames race, with data
  between; two outside cancellations, since `run` waits twice after the first.
* job_group: two workers distinguish "all have answered" from "one has"; one of
  them may stream, the other may be stopped.
* parallel: three branches give a first, a middle and a last copy of a frame; two
  data frames an order to keep, one of them upstream or made by a branch.
* sender: three frames make one in hand, one queued and one arriving; the second
  interruption meets what the first one started.
* calls: two calls of one completion make a group with a first and a last result; in
  sequence, one that runs and one that waits. The second interruption meets the loop of
  the first one's aftermath. A completion that starts while the loop of an interruption
  runs is left out.
* websocket: `MaxSockets = 3`: one that is closed, one that is used, one that is made;
  a further handshake fails while all three exist. Two retries and two quick failures
  are enough for a first, a repeated and a last one.
* turns: `NSpeech = 4`, `NStt = 2` timer tasks at once; the model stops creating timers
  at the bound, and TLC finds no state in which it is reached. Turns, words and time are
  not bounded.
* runner: a root that is there before the run, one that comes at any time, and a child:
  each way of being added, and a parent with somebody to wait for. What the workers do
  after `run` has returned or failed is not followed (`Follows`).

### Fairness

`FairSpec` asserts weak fairness of the tasks: an asyncio loop runs every ready
task, and a timer that is due fires. In JobGroup there is none for what a job
handler does, which is user code: the timeout has to make up for it. In
PipelineWorker a frame in flight comes out or is lost, and only the frames in
`MayLose` are lost. In FrameProcessor whoever pauses the processor resumes it: the
code leaves that to the caller. In ParallelPipeline branches handle what they are
given, but nothing has to enter. MediaSender assumes that a write to the transport
returns.

In FunctionCalls the tasks, timers and the delivery of frames are fair, and both
speakers stop speaking some time; handlers are user code and need not return, except
that a call that was cancelled ends. In WebsocketService the tasks run, and
handshakes, sends and closes end, one way or the other, because the library bounds them;
nothing makes a connection succeed or stay. In UserTurn the tasks run, time passes, and
speech that began ends; nobody has to speak, or to stop for good, and Answered speaks
of the case that the user does. In WorkerRunner one weak fairness stands for all steps
that do not depend on the program: none of them can be taken for ever, so none is put
off for ever; a worker that is told to finish does, which PipelineWorker shows, and
nobody has to end the run. No strong fairness is used.

## 5. Proofs

`*Proofs.tla` hold theorems that TLAPS checks for all values of the constants, any
number of frames, workers, branches, calls and interruptions. Assumptions are those the
modules name (`FrameAssumption`, `WorkerAssumption`, `JobAssumption`,
`ParallelAssumption`, `SenderAssumption`, `CallsAssumption`, `ServiceAssumption`,
`TurnAssumption`, `RunnerAssumption`): types of the constants, that there is at least one
branch and finitely many, that calls are numbered by completion, that the workers form a
tree. TLC evaluates them in every run. Every safety property a run lists is a theorem.

### The safety theorems

* **FrameProcessorProofs**: TypeCorrect, FramesConserved, ProcessedInOrder,
  UninterruptibleSafe, CleanupComplete, PauseEffective. *PlaceInv* (a frame that is
  not settled is in exactly one queue or task) is inductive with a small addition.
  Order is not: *OrderInv* says for two frames which places the older can be in
  when the younger is in another, and *RankInv* ties the counters to them.
  *CleanupInv* records what `cleanup` has ended so far; *PauseInv* that no pending
  wake-up exists under a pause. DeliveryImplemented proves `Spec => Delivers`: initial
  states map to initial states, and each action of the processor maps to one step of
  FrameDelivery or to a stutter, with PlaceInv and OrderInv to know the mapped status.
* **PipelineWorkerProofs**: WorkerTypeCorrect, RunReturnsClean, FinishReportedOnce,
  PushWaitsForStart. *PhaseInv* ties the place of the push task to what has been
  pushed and cleaned up, *FlightInv* says that only the terminal frame of the push
  task is in flight, *ReportInv* that it is reported where it is taken out.
  FinishReportedOnce assumes that no processor pushes an EndFrame of its own.
* **WorkerProofs**, jobs: JobTypeCorrect, GroupsEndOnce, JobsAnsweredOnce. The group is
  in one place (*PlaceInv*): in the dictionary, with the task that cancels it, with
  the task that completes it (*CompletingInv*), or settled (*OutcomeInv*).
  *AnswerInv* ties active jobs to accepted and answered ones.
* **WorkerProofs**, runner: RunnerTypeCorrect, NobodyForgotten, CancelsReach.
  *NobodyWaits* says that once `run()` waits for the end every registered worker has its
  task, *EarlyWaitedFor* that those that ran when the end was asked for are among those
  `run()` gathers, and *CancelsSent* bounds the cancel messages that wait by what parents
  and runner may have sent. CancelsReach, which NobodyForgotten contains, needs more: a
  cancel message goes down the tree
  one parent at a time and parents may be gone before it comes, so *ReachInv* says that a
  worker's parents have entered before it, up to a root, and that whoever has neither
  ended nor been told is below somebody for whom a message waits.
  "Below" is the least set closed under taking children, stated as "in every closed set",
  which needs no recursion.
* **ParallelPipelineProofs**: ParallelTypeCorrect, LifecycleLeavesWhole,
  StartLeavesFirst, OthersLeaveInOrder, LifecycleFramesEnclose. *CountInv* is the heart:
  the counter is the number of branches that have not passed the frame on. *FlightInv*
  says that one lifecycle frame is in flight at a time, because both tasks are paused;
  *OutInv* that a frame is out exactly when all branches passed it. Order is about what
  is out with the buffer behind it: *OrderInv* says that this sequence holds the other
  frames in the order of their first exit, each once, and that a flush appends the one to
  the other; *SeenInv* that the frames seen are those of the sequence of first exits, and
  *EmptyInv* that a branch the EndFrame has left holds nothing that travels downstream.
  InOrderOnce and EndLast follow without induction over sequences.
* **MediaSenderProofs**: SenderTypeCorrect, InterruptionsClear, SyncFramesInOrder,
  SpeechInTurns, NothingPlayedAfterCancel, EndFrameLast. The invariant has nine
  parts; *OrderInv* (frames move from queue to queue by number), *RangeInv* (no
  frame arrives while an interruption is handled) and *StopInv* with *DoneInv* (what
  `stop()` has waited for) carry the theorems.
* **FunctionCallsProofs**: CallsTypeCorrect, InterruptionsCancelAll, OutcomeTold,
  GroupsRunOnce. For the interruptions the
  invariant adds four facts to the types: what the loop has cancelled has ended
  (*DoneEnded*), the sequential runner takes calls in order (*QueueOrder*), what is in the
  dictionary has been started (*TasksStarted*), and behind the call the loop waits for no
  call of the function has a task (*LoopBehind*). When the loop is through it has passed
  them all. OutcomeTold relates a call to the frames about it that are still on their way:
  *WireInv* says in which order frames about a call, and in parallel mode about its
  group, follow each other in `wire`, *CallInv* what its task has sent so far,
  *ResultInv* that a result that was sent is on its way or in the context, *CancelInv*
  the same of a cancellation, and *ContextInv* what the context can say while frames are
  on their way. For GroupsRunOnce, *GroupInv* says that the calls of a group start
  together and that none has a result before all are known to the context, and *RunInv*
  that the model was asked at most once for a group, with none of its calls in progress.
* **WebsocketServiceProofs**: ServiceTypeCorrect, OneTaskReconnects, CancelledForGood, for
  any numbers of sockets, attempts and quick failures. *Shape* says which task may await
  what and why, which pairs of tasks may be busy at once (an interruption beside a frame
  that it must not cancel, nobody else), and that a receive task that runs is the one a
  disconnection finds. The flag is then set just while one task is in the loop, because
  every way out of the loop, also by cancellation, resets it. *CancelAlone* says that a
  CancelFrame goes on only when the process task has ended, and disconnects only when
  the receive task has: from there on nobody is left to connect. The theorem speaks of
  the loop of `_try_reconnect`: `run_tts` and a change of settings look at no flag and
  may connect beside it, in the code as in the model.
* **UserTurnProofs**: TurnTypeCorrect, WordsAreSent (NothingLeftBehind), for any number of
  timers. The invariant *Sound(state)* has three parts: *Shape*, the types, which jobs may
  wait on which timers, and the lines before them; *Owned*, that as long as words are not
  sent there is a turn or a task on its way to send them; *Busy*, that a timer that fired
  is not idle. Each handler is a lemma of the form "from a sound state to a sound state".

### What liveness rests on

TLAPS proves no liveness under fairness. What it can prove is the half of each liveness
property that speaks of states: as long as what is promised has not happened, somebody
is there who can still make it happen, and nobody waits for what has already been and
gone or will not come. The other half, that those who can go on do so and are done after
finitely many steps, is TLC's. A lost wake-up, a message that came too early or a handle
that was overwritten breaks the first half, and that is what these theorems exclude for
every instance, but for the departures of section 6, which they name.

| liveness property | theorem | what it says |
|---|---|---|
| EveryFrameSettles | WakeupsArrive | a blocked task is under a pause and waits on the event that a resume sets; a started processor has a process task or is about to have one (*WakeInv*) |
| RequestsFinish | RequestsAreNotMissed | the push task waits for frames that can still come, and `run()` learns that it is done (*MissInv*) |
| WaiterReturns | GroupsAreSettled | a group without an outcome has its timeout or a task that is about to settle it |
| FailedJobsEnd | CancelsFindJobs | a cancel message finds the job registered and a router that can take it (*RouterInv*) |
| BarrierLifts | BarriersHaveReasons | the barrier is up only while a lifecycle frame is in the branches that have not passed it on (*BarrierInv*) |
| TurnsEnd | EndFrameIsHeard | the audio task and `stop()` wait for frames that are there (*HeardInv*) |
| TimedCallsAnswered | CallsAccountedFor | a call that the context shows as running has somebody who will tell of its end (*TimerInv*) |
| TasksReturn | TasksAreNotStuck | tasks wait for a receive task that was cancelled and for sockets that are being closed |
| Answered | TasksGoOn | tasks await cancelled timers only, and no two each other (*LinesUp*) |
| RunReturns | CancelsReach | whoever `run()` waits for has ended or is told, or a cancel message is on its way |

TLC has checked each of these invariants, too, on the instances of section 4, before it
was proved. TasksGoOn is the one that needs an argument about finite sets: of the tasks
that await one timer the one that has the fewest before it has none.

Other theorems state safety properties that no run lists, because a run's
property that follows from them says more (Delivers for NoOvertaking and
UninterruptibleKept, LifecycleEncloses for StartFirst, NoWorkerForgotten for
CancelReaches) or because the theorem says all that a run would (NothingBeforeStart,
SyncOrder, CancelSilences).

Only model-checked: the ten liveness properties of the table, since TLAPS proves neither
liveness under fairness nor ENABLED, and what the two violating runs show. No module uses
RECURSIVE operators.

## 6. Where the code departs from its documentation

The two violating runs above are findings of `PROJECT.json`. While modelling we met
more; they are part of the modules' behaviour, unless said otherwise, and a property
that would contradict them says so in its comment.

* A pause can be forgotten: `resume` wakes the process task, a second `pause` before
  it runs leaves the event to it, and it clears the flag (frame_processor.py:1037).
  PauseHolds speaks of pauses that meet no pending wake-up.
* `broadcast_interruption()` replaces `__process_event` while the process task waits
  on the old one (952); a later resume sets the new event and the task sleeps on.
  fp_live therefore has no broadcasts.
* An InterruptionFrame queued behind a CancelFrame re-creates the process task (862),
  and frames are processed after the cancel, although 580 means to drop them.
* A data frame still in the input queue survives an interruption (862), although
  frames.py:110-111 says that data frames are discarded.
* `run()` cancelled from outside waits without timeout for an EndFrame that was lost
  (worker.py:955), although 690-691 means to finish; RequestsFinish has a lossless
  EndFrame. If the push task is killed (968), `has_finished()` holds with processors
  that were never cleaned up; ReturnedClean excuses it.
* A fatal error during the start queues a CancelFrame, but the push task waits for a
  StartFrame that will not come, and `run()` hangs (worker.py:1114). An EndFrame that a
  processor pushes itself is reported as the end, and the worker runs on (1138).
* A caller cancelled while it waits for the responses of a group leaves the group and its
  jobs running (job_context.py:261). A cancel that meets the last response ends the
  requester's bus task with a KeyError (base_worker.py:1370). A cancel that overtakes
  the request of a busy worker is ignored (1251).
* `stop()` answers active jobs as cancelled, but their handlers run on
  (base_worker.py:352-363); FailedJobsEnd excuses stopped workers. Nor does a cancel
  message end a handler that has answered and runs on (1251); FailedJobsEnd speaks of
  handlers that have not. A stream end is
  counted as a response and leaves the job active (1007-1027). `fail(None)` lets
  `wait()` return normally (job_context.py:130-138).
* A ParallelPipeline that synchronises an EndFrame holds back InterruptionFrame and
  CancelFrame, since both tasks are paused (parallel_pipeline.py:161), although
  worker.py:1098-1101 relies on the CancelFrame going through. A branch that fails on
  the StartFrame leaves its ErrorFrame in the buffer and the processor paused (178).
* In MediaSender an InterruptionFrame behind a CancelFrame starts both tasks again and
  nothing ends them (base_output.py:557); an uninterruptible frame handed over while an
  interruption waits for the audio task is lost with the old queue (545-558); a message
  that cannot be sent ends the audio task (744), which is then kept for the sake of an
  uninterruptible frame; one chunk may leave after BotStoppedSpeakingFrame.
* Function calls: the sequential runner dies with the call that an interruption cancels,
  and later calls are never run (llm_service.py:962). In sequential mode the LLM runs
  after every result, although CHANGELOG.md:7658-7662 speaks of one run. A run of the LLM
  that is put off because another result is still to be handled is lost if that result
  is empty (llm_response_universal.py:1680), and one put off while the user speaks is not
  made up for (CHANGELOG.md:1840-1842). A call with a timeout that is started later
  loses the timeout. A FunctionCallCancelFrame overtakes the frame that the call is in
  progress, which then stays in the context for ever (1793); so does a call whose handler
  raises.
* Websocket services: the connection that `send_with_retry` makes while the receive task
  is ending has no receive task (websocket_service.py:138). A message that is sent while
  the service stops connects it again (134), and so does the text that is left to be
  spoken after `stop` has disconnected (tts_service.py:701-715), although
  CHANGELOG.md:4986-4987 speaks of no reconnection after a disconnection. `run_tts` and a
  change of settings connect beside the reconnection loop of another task: the second
  socket replaces the first, which stays open (inworld/tts.py:1219). A change of
  settings is uninterruptible (frames.py:1879, 1912), so that an interruption handles its
  messages beside the reconnection, on a connection that is being replaced. An
  InterruptionFrame behind a CancelFrame starts the process task again
  (frame_processor.py:862), and the text that is left connects a service that was shut
  down: CancelSticks speaks of the time until then. An interruption cancels the task that
  plays the audio, and with it a process task that waits for that task in `stop`
  (tts_service.py:902-936): the service is never disconnected. A process task that waits
  in `cancel_task` swallows the request to end, and if it still waits a second later the
  second one, too: the input task then waits for it without a bound (state lost, which
  TasksReturn excuses). Outside the model: some STT services wait for a connection
  without a timeout and block the input task.
* User turns: two starts of a turn may be reported in a row, a stop after the start that
  follows it (user_turn_controller.py:303, 320), although 265 means to prevent two
  consecutive starts: events are not recorded in the model. A timer whose handle was
  overwritten after an `await` can no longer be cancelled
  (speech_timeout_user_turn_stop_strategy.py:235); it shortens the time the user has,
  although CHANGELOG.md:1092 says that it always runs to completion, and it may end a turn
  while the user speaks. Text that comes when a turn is being closed may be counted to the
  next (CHANGELOG.md:2490-2496). A watchdog that expires together with the end of the
  speech ends the turn at once. Outside the model: the counter of running calls of the
  idle controller goes down with every intermediate result too
  (user_idle_controller.py:116).
* Runner: `end()` sets the event that makes `run()` cancel the workers, and cancel messages
  overtake end messages on the in-process bus, so that an end is never graceful
  (runner.py:287, 370). A worker that is added while the set-up loop starts the others
  makes the loop fail with a RuntimeError (352), although according to 163-167 every
  added worker is started; those that were started run on and the bus is not stopped. A cancellation of
  `run` during the set-up has the same end, although 248-250 takes one for a shutdown.
  The model has both as an outcome of `run` (`failed`), which RunReturns counts as a
  return and of which NoWorkerForgotten says nothing. A child added before the runner
  listens to the bus is never started, and a parent that is told to end waits for it; so
  it does not for a child added while it waits. A worker added when `run` has begun to wait for
  the others may outlive it. If the first root worker ends before the others are started,
  the run ends (396-414), although 203-204 speaks of every root worker. A shutdown asked
  for before `run` is forgotten (235).
* Synchronised parallel pipeline (not modelled): an EndFrame that finds another frame in
  the queue of a branch is waited for and dropped (sync_parallel_pipeline.py:308).

## 7. Limits of the models

Not modelled in the modelled parts: processors in direct mode; handlers that ignore
a cancellation for longer than the timeout of `cancel_task`; metrics, heartbeats and
observers; the traffic that resets the idle timer (a timeout may come at any time);
job updates and stream data, which change no group state; set-up of branches;
lifecycle frames that a branch makes itself; video, mixers, several destinations,
resampling, and audio other than that of TTS (speech streams and plain audio,
base_output.py:713-730, where silence ends a turn or nothing starts one) in the output
transport. Frames carry a kind and a number and no data.

FunctionCalls: all calls an interruption cancels are to one function, calls are grouped,
and there are no intermediate results and no calls without a group; the `await` in the
`finally` of a handler is part of the step in which it gives up, and a timer that cancels
itself does so in one step. A completion starts no calls while the loop of an
interruption runs. That somebody speaks is set at the aggregator.

WebsocketService: the connection and not the messages, several messages in a row being
one; the audio contexts are a choice; time is abstract, so that any loss may be a quick
one; the keepalive task, settings other than as a reconnection, `cleanup`, and
speech-to-text services are left out.

UserTurn: SpeechTimeoutUserTurnStopStrategy with the default start strategies and a
service that finalises transcriptions or does not. Left out: strategies on models and
on external signals, interruptions from elsewhere that cancel the process task, the
process queue that a broadcast interruption empties, muting, the idle controller, the end
of the session. A transcription has text; an interim one inside a turn only rearms the
watchdog; a timer cancelled before it ran is one that sleeps. `Patient` says that the
watchdog (5.0 s) is longer than the timers (0.6 s, and at most 2.14 s), as with the
defaults. The voice does not change twice without time passing.

WorkerRunner: one runner and the in-process bus; `on_ready`, setup files other than as
callers of `add_workers`, signals as callers of `cancel`, `stop_when_done`, adding a
worker twice, `cleanup` and the end of the bus are left out. A worker is running,
finishing or done; what it does is PipelineWorker's.
