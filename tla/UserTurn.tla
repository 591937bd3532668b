------------------------------ MODULE UserTurn ------------------------------
(***************************************************************************)
(* The user's half of the context aggregator: the turn controller, the     *)
(* start strategies on speech and on transcriptions, the stop strategy     *)
(* with two timers (turns/) and the aggregation that a turn sends to the   *)
(* LLM.  Speech frames are handled by the input task of the processor,     *)
(* transcriptions by its process task; every timer and the watchdog of the *)
(* controller is a task of its own, and all of them share the state.       *)
(*                                                                         *)
(* A task runs until it awaits a timer that it cancels: that takes a few   *)
(* turns of the event loop, in which the others run.  Pushing a frame and  *)
(* calling an event handler of the controller do not suspend.              *)
(***************************************************************************)
EXTENDS Naturals

CONSTANTS
    NSpeech,  \* bound: tasks of the user_speech_timeout at once
    NStt,     \* bound: tasks of the stt_timeout at once
    Patient   \* is the user_turn_stop_timeout longer than the two timeouts?

ASSUME TurnAssumption ==
    NSpeech \in Nat \ {0} /\ NStt \in Nat \ {0} /\ Patient \in BOOLEAN

NoTimer == 0
SpeechTimers == 1 .. NSpeech
SttTimers == NSpeech + 1 .. NSpeech + NStt
Timers == SpeechTimers \cup SttTimers
\* The two tasks of the processor and the watchdog of the controller.
InputTask == NSpeech + NStt + 1
ProcessTask == NSpeech + NStt + 2
Watchdog == NSpeech + NStt + 3
Agents == Timers \cup {InputTask, ProcessTask, Watchdog}

VARIABLES
    state,  \* the state of the controller, the strategy, the aggregation, the tasks
    voiced, \* environment: the voice has just changed
    hushed  \* environment: the user says nothing more

vars == <<state, voiced, hushed>>

-----------------------------------------------------------------------------
(* What a task is doing: "rest", or what it awaits -- the timers of          *)
(* _cancel_all_tasks ("speech", "stt"), the timer that it restarts           *)
(* ("again"), the stt timer that a final transcription cuts short ("final")  *)
(* or one turn of the loop ("slept") -- the job that it goes on with, and    *)
(* the tasks that await the same timer since before: they are woken first.   *)

Job == {"none", "stop", "speech", "speechTurn", "finalTurn", "partialTurn",
        "interimTurn", "paused", "fallback", "final"}

Rest == [at |-> "rest", job |-> "none", on |-> NoTimer, after |-> {}]

TypeOK ==
    /\ state \in [turn : BOOLEAN,         \* _user_turn
                  speaking : BOOLEAN,     \* _user_speaking of the controller
                  vad : BOOLEAN,          \* _vad_user_speaking of the strategy
                  paused : BOOLEAN,       \* _vad_stopped_time is not None
                  text : BOOLEAN,         \* _text is not empty
                  final : BOOLEAN,        \* _transcript_finalized
                  speechDone : BOOLEAN,   \* _user_speech_wait_done
                  sttDone : BOOLEAN,      \* _stt_wait_done
                  speechTask : SpeechTimers \cup {NoTimer},
                  sttTask : SttTimers \cup {NoTimer},
                  timer : [Timers -> {"free", "runs", "due", "cancelled", "fires"}],
                  overdue : BOOLEAN,      \* the wait of the watchdog timed out
                  unpushed : BOOLEAN,     \* _aggregation is not empty
                  doing : [Agents -> [at : {"rest", "speech", "stt", "again", "final", "slept"},
                                      job : Job,
                                      on : Timers \cup {NoTimer},
                                      after : SUBSET Agents]]]
    /\ voiced \in BOOLEAN /\ hushed \in BOOLEAN

Init ==
    /\ state = [turn |-> FALSE, speaking |-> FALSE, vad |-> FALSE, paused |-> FALSE,
                text |-> FALSE, final |-> FALSE, speechDone |-> FALSE, sttDone |-> FALSE,
                speechTask |-> NoTimer, sttTask |-> NoTimer,
                timer |-> [i \in Timers |-> "free"], overdue |-> FALSE,
                unpushed |-> FALSE, doing |-> [a \in Agents |-> Rest]]
    /\ voiced = FALSE /\ hushed = FALSE

-----------------------------------------------------------------------------
(* Tasks and timers.  The operators map the state s in which a task runs to  *)
(* the state in which it awaits something or ends what it does.              *)

Resting(s, a) == s.doing[a] = Rest

\* A timer without a task, and without one that still awaits the last task.
Unused(s, i) == s.timer[i] = "free" /\ \A a \in Agents : s.doing[a].on # i
Room(s) == (\E i \in SpeechTimers : Unused(s, i)) /\ (\E i \in SttTimers : Unused(s, i))
\* Enough for a frame beside one that is being handled.
Reserve(s) ==
    Room(s) /\ \E i, j \in SpeechTimers : i # j /\ Unused(s, i) /\ Unused(s, j)
NewTimer(s, kind) == CHOOSE i \in kind : Unused(s, i)

\* task.cancel(), and the await of the task.
Await(s, a, at, job, i) ==
    [s EXCEPT !.timer[i] = "cancelled",
              !.doing[a] = [at |-> at, job |-> job, on |-> i,
                            after |-> {b \in Agents : s.doing[b].on = i}]]

\* The task a has done what it was doing; a timer's task ends with that.
Ended(s, a) ==
    [s EXCEPT !.doing[a] = Rest,
              !.timer = [i \in Timers |-> IF i = a THEN "free" ELSE @[i]]]

\* _cancel_all_tasks: done is the state that follows if no task runs.
CancelStt(s, a, job, done) ==
    IF s.sttTask # NoTimer THEN Await(s, a, "stt", job, s.sttTask) ELSE done
CancelAll(s, a, job, done) ==
    IF s.speechTask # NoTimer THEN Await(s, a, "speech", job, s.speechTask)
    ELSE CancelStt(s, a, job, done)

\* reset() of the stop strategy, before it cancels the timers.
Reset(s) ==
    [s EXCEPT !.text = FALSE, !.vad = FALSE, !.final = FALSE, !.paused = FALSE,
              !.speechDone = FALSE, !.sttDone = FALSE]

-----------------------------------------------------------------------------
(* The end of a turn. *)

\* Mutation: nothing is pushed, as if the inference had pushed everything.
Stopped_Unflushed(s, a) == Ended(s, a)

\* on_user_turn_stopped: the aggregator pushes what is left of the user's words.
Stopped(s, a) == Ended([s EXCEPT !.unpushed = FALSE], a)

\* _trigger_user_turn_stop
Stop(s, a) ==
    IF s.turn
    THEN LET r == Reset([s EXCEPT !.turn = FALSE]) IN CancelAll(r, a, "stop", Stopped(r, a))
    ELSE Ended(s, a)

\* on_user_turn_inference_triggered pushes the aggregation during a turn.
Infer(s) == [s EXCEPT !.unpushed = @ /\ ~s.turn]

\* _maybe_trigger_user_turn_stopped
Trigger(s, a) ==
    IF ~s.vad /\ s.text /\ s.speechDone /\ s.sttDone
    THEN Stop(Infer(s), a)
    ELSE Ended(s, a)

-----------------------------------------------------------------------------
(* What the strategy does with the frames. *)

\* Mutation: the new speech timer is kept as the stt timer.
Arm_WrongHandle(s, a, job) ==
    LET i == NewTimer(s, SpeechTimers)
        r == [s EXCEPT !.speechDone = FALSE, !.timer[i] = "runs", !.sttTask = i]
    IN IF job = "paused"
       THEN [r EXCEPT !.doing[a] = [Rest EXCEPT !.at = "slept", !.job = job]]
       ELSE Ended(r, a)

\* The new task of the speech timer.  After a pause the handler goes on when
\* the loop has come round; after a transcription it has nothing left to do.
Arm(s, a, job) ==
    LET i == NewTimer(s, SpeechTimers)
        r == [s EXCEPT !.speechDone = FALSE, !.timer[i] = "runs", !.speechTask = i]
    IN IF job = "paused"
       THEN [r EXCEPT !.doing[a] = [Rest EXCEPT !.at = "slept", !.job = job]]
       ELSE Ended(r, a)

\* _restart_user_speech_timer
Restart(s, a, job) ==
    IF s.speechTask # NoTimer THEN Await(s, a, "again", job, s.speechTask)
    ELSE Arm(s, a, job)

\* VADUserStartedSpeakingFrame
Speech(s, a) ==
    LET r == [s EXCEPT !.vad = TRUE, !.final = FALSE, !.paused = FALSE,
                       !.speechDone = FALSE, !.sttDone = FALSE]
    IN CancelAll(r, a, "speech", Ended(r, a))

\* The end of _handle_transcription: both waits are over, or no pause was seen.
Decide(s, a) ==
    IF s.speechDone /\ s.sttDone THEN Trigger(s, a)
    ELSE IF ~s.vad /\ ~s.paused THEN Restart([s EXCEPT !.sttDone = TRUE], a, "fallback")
    ELSE Ended(s, a)

\* TranscriptionFrame
Heard(s, a, isFinal) ==
    LET r == [s EXCEPT !.text = TRUE, !.final = @ \/ isFinal, !.sttDone = @ \/ isFinal]
    IN IF isFinal /\ ~s.sttDone /\ s.sttTask # NoTimer
       THEN Await(r, a, "final", "final", s.sttTask)
       ELSE Decide(r, a)

\* What follows once the timers are cancelled, and the end or the beginning of
\* the turn has been reported.
Continue(s, a, job) ==
    CASE job = "stop" -> Stopped(s, a)
      [] job = "speechTurn" -> Speech(s, a)
      [] job = "finalTurn" -> Heard(s, a, TRUE)
      [] job = "partialTurn" -> Heard(s, a, FALSE)
      [] OTHER -> Ended(s, a)

\* _trigger_user_turn_start outside a turn.
Start(s, a, job) ==
    LET r == Reset([s EXCEPT !.turn = TRUE]) IN CancelAll(r, a, job, Continue(r, a, job))

-----------------------------------------------------------------------------
(* The tasks of the processor.  Reserve bounds the timers in use. *)

\* The voice rises and falls over a time that is long beside the turns of the loop.
VadStarted ==
    /\ Resting(state, InputTask) /\ ~state.speaking /\ ~voiced /\ ~hushed /\ Reserve(state)
    /\ LET s == [state EXCEPT !.speaking = TRUE]
       IN state' = IF s.turn THEN Speech(s, InputTask) ELSE Start(s, InputTask, "speechTurn")
    /\ voiced' = TRUE /\ UNCHANGED hushed

VadStopped ==
    /\ Resting(state, InputTask) /\ state.speaking /\ ~voiced /\ Reserve(state)
    /\ LET s == [state EXCEPT !.speaking = FALSE, !.vad = FALSE, !.paused = TRUE]
       IN state' = Restart(s, InputTask, "paused")
    /\ voiced' = TRUE /\ UNCHANGED hushed

\* The rest of _handle_vad_user_stopped_speaking: stop_secs may cover the stt_timeout.
ArmStt(covered) ==
    /\ state.doing[InputTask].at = "slept" /\ Room(state)
    /\ LET i == NewTimer(state, SttTimers)
           done == state.final \/ covered
           s == IF done THEN state
                ELSE [state EXCEPT !.timer[i] = "runs", !.sttTask = i]
       IN state' = Ended([s EXCEPT !.sttDone = done], InputTask)
    /\ UNCHANGED <<voiced, hushed>>

Transcription(isFinal) ==
    /\ Resting(state, ProcessTask) /\ ~hushed /\ Reserve(state)
    /\ LET s == [state EXCEPT !.unpushed = TRUE]
       IN state' = IF s.turn THEN Heard(s, ProcessTask, isFinal)
                   ELSE Start(s, ProcessTask, IF isFinal THEN "finalTurn" ELSE "partialTurn")
    /\ UNCHANGED <<voiced, hushed>>

\* An interim transcription starts a turn; in a turn it only rearms the watchdog.
Interim ==
    /\ Resting(state, ProcessTask) /\ ~hushed /\ Reserve(state) /\ ~state.turn
    /\ state' = Start(state, ProcessTask, "interimTurn")
    /\ UNCHANGED <<voiced, hushed>>

\* A task goes on once the timer that it awaits has ended.
Resume(a) ==
    LET d == state.doing[a] IN
    /\ d.at \in {"speech", "stt", "again", "final"} /\ Room(state)
    /\ state.timer[d.on] = "free"
    /\ \A b \in d.after : state.doing[b].on # d.on
    /\ LET s == [state EXCEPT !.doing[a] = Rest]
           r == IF d.at \in {"speech", "again"} THEN [s EXCEPT !.speechTask = NoTimer]
                ELSE [s EXCEPT !.sttTask = NoTimer]
       IN state' = CASE d.at = "speech" -> CancelStt(r, a, d.job, Continue(r, a, d.job))
                     [] d.at = "stt" -> Continue(r, a, d.job)
                     [] d.at = "again" -> Arm(r, a, d.job)
                     [] d.at = "final" -> Decide(r, a)
    /\ UNCHANGED <<voiced, hushed>>

-----------------------------------------------------------------------------
(* The timers and the watchdog. *)

\* Whatever task it is, the end of a timer clears the handle of its kind.
Cleared(s, i) ==
    IF i \in SpeechTimers THEN [s EXCEPT !.speechTask = NoTimer]
    ELSE [s EXCEPT !.sttTask = NoTimer]

TimerCancelled(i) ==
    /\ state.timer[i] = "cancelled"
    /\ state' = [Cleared(state, i) EXCEPT !.timer[i] = "free"]
    /\ UNCHANGED <<voiced, hushed>>

TimerFires(i) ==
    /\ state.timer[i] = "due"
    /\ LET s == [Cleared(state, i) EXCEPT !.timer[i] = "fires"]
           r == IF i \in SpeechTimers THEN [s EXCEPT !.speechDone = TRUE]
                ELSE [s EXCEPT !.sttDone = TRUE]
       IN state' = Trigger(r, i)
    /\ UNCHANGED <<voiced, hushed>>

\* Mutation: the watchdog spares a turn in which nothing was heard.
WatchdogTimesOut_Heard ==
    /\ state.overdue /\ Resting(state, Watchdog)
    /\ LET s == [state EXCEPT !.overdue = FALSE]
       IN state' = IF s.turn /\ ~s.speaking /\ s.text THEN Stop(s, Watchdog) ELSE s
    /\ UNCHANGED <<voiced, hushed>>

WatchdogTimesOut ==
    /\ state.overdue /\ Resting(state, Watchdog)
    /\ LET s == [state EXCEPT !.overdue = FALSE]
       IN state' = IF s.turn /\ ~s.speaking THEN Stop(s, Watchdog) ELSE s
    /\ UNCHANGED <<voiced, hushed>>

\* Time is long beside the turns of the loop: it passes when no task has
\* anything to do, and then some of the waits are over.  The event that rearms
\* the watchdog needs no state: when its wait times out is not determined, but
\* a wait that has timed out is not undone by the event.
Still(s) ==
    /\ \A a \in Agents : Resting(s, a)
    /\ \A i \in Timers : s.timer[i] \in {"free", "runs"}
    /\ ~s.overdue

TimePasses(due, late) ==
    /\ Still(state)
    /\ late \/ due # {} \/ voiced
    /\ late /\ Patient => \A i \in Timers : state.timer[i] = "free"
    /\ \A i \in due : state.timer[i] = "runs"
    /\ state' = [state EXCEPT !.timer = [i \in Timers |-> IF i \in due THEN "due" ELSE @[i]],
                              !.overdue = late]
    /\ voiced' = FALSE /\ UNCHANGED hushed

Hush == ~hushed /\ hushed' = TRUE /\ UNCHANGED <<state, voiced>>

-----------------------------------------------------------------------------

Frames ==
    \/ VadStarted \/ VadStopped \/ Interim
    \/ \E isFinal \in BOOLEAN : Transcription(isFinal)
Tasks ==
    \/ \E covered \in BOOLEAN : ArmStt(covered)
    \/ \E a \in Agents : Resume(a)
    \/ \E i \in Timers : TimerCancelled(i) \/ TimerFires(i)
    \/ WatchdogTimesOut
Passing == \E due \in SUBSET Timers, late \in BOOLEAN : TimePasses(due, late)

Next == Frames \/ Tasks \/ Passing \/ Hush

Spec == Init /\ [][Next]_vars

\* Tasks run, time passes and every speech ends; nobody has to speak or to hush.
FairSpec ==
    /\ Spec
    /\ WF_vars(ArmStt(TRUE) \/ ArmStt(FALSE))
    /\ \A a \in Agents : WF_vars(Resume(a))
    /\ \A i \in Timers : WF_vars(TimerCancelled(i)) /\ WF_vars(TimerFires(i))
    /\ WF_vars(WatchdogTimesOut) /\ WF_vars(Passing) /\ WF_vars(VadStopped)

-----------------------------------------------------------------------------
(* Properties *)

\* What the user said is never left behind: whenever nothing is in progress and
\* no turn is open, all of it has been sent to the LLM.  A turn is closed before
\* its strategies are reset and its words pushed, and while those awaits last
\* new words arrive, new turns begin and other tasks end them.
NothingLeftBehind == Still(state) /\ ~state.turn => ~state.unpushed

\* When the user says nothing more, the turn ends and the words are sent,
\* whatever timers were cancelled or lost and whoever waits for them.
Answered == hushed ~> (~state.turn /\ ~state.unpushed)

=============================================================================
