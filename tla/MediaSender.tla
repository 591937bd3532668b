---------------------------- MODULE MediaSender ----------------------------
(***************************************************************************)
(* One media sender of the output transport (transports/base_output.py)    *)
(* between the frame processor's two tasks and the transport.  The process *)
(* task hands frames to two queues; the audio task writes and pushes the   *)
(* frames of one in order, the clock task pushes the timed frames of the   *)
(* other when they are due.  The input task handles interruptions and the  *)
(* CancelFrame beside them, and awaits the tasks that it cancels.          *)
(*                                                                         *)
(* Pushing a frame does not suspend; writing audio or sending a message    *)
(* does.  A cancelled task ends within the timeout of cancel_task.         *)
(***************************************************************************)
EXTENDS Naturals

CONSTANTS
    Kinds,            \* the kinds of frames that arrive before the EndFrame
    MaxFrames,        \* bound: how many of them
    MaxInterruptions  \* bound: how many interruptions

\* chunk: TTS audio; stopped: TTSStoppedFrame; message: an
\* OutputTransportMessageFrame; keep: an uninterruptible frame without pts;
\* sync: any other frame without pts; timed: a frame with pts.
ASSUME SenderAssumption ==
    /\ Kinds \subseteq {"chunk", "stopped", "message", "keep", "sync", "timed"}
    /\ MaxFrames \in Nat /\ MaxInterruptions \in Nat

VARIABLES
    incoming,      \* the process queue of the frame processor
    process,       \* the process task: idle or where it is in stop()
    input,         \* the input task: idle or whose cancellation it awaits
    audioQueue,    \* _audio_queue
    audio,         \* the audio task
    inHand,        \* the frame that it writes
    clockQueue,    \* _clock_queue, as a set
    clock,         \* the clock task
    botSpeaking,   \* _bot_speaking
    ttsReceived,   \* _tts_audio_received
    arrived,       \* history: the number of frames that arrived
    ending,        \* history: has the EndFrame arrived?
    interruptions, \* history: the number of interruptions
    cut,           \* history: arrived, at the latest interruption
    cancelled,     \* history: has the CancelFrame arrived?
    pushed         \* history: frames pushed downstream

processorVars == <<incoming, process>>
audioVars == <<audioQueue, audio, inHand, botSpeaking, ttsReceived>>
clockVars == <<clockQueue, clock>>
arrivalVars == <<arrived, ending, interruptions, cut, cancelled>>
vars == <<processorVars, input, audioVars, clockVars, arrivalVars, pushed>>

\* The number of a frame is its place in the order of arrival.  Frames are put
\* into the queues in that order (OrderInv in MediaSenderProofs), so a FIFO
\* queue is a set whose head is its oldest frame.
Frame == [id : Nat, kind : Kinds \cup {"end"}]
NoFrame == [id |-> 0, kind |-> "none"]
IsUninterruptible(f) == f.kind \in {"keep", "end"}
IsSync(f) == f.kind \notin {"timed", "end"}
IsSlow(f) == f.kind \in {"chunk", "message"}

IsHead(f, queue) == f \in queue /\ \A g \in queue : f.id <= g.id
Kept(queue) == {f \in queue : IsUninterruptible(f)}

QueueType ==
    /\ incoming \subseteq Frame /\ audioQueue \subseteq Frame
    /\ clockQueue \subseteq Frame /\ pushed \subseteq Frame
    /\ inHand \in Frame \cup {NoFrame}

TaskType ==
    /\ process \in {"idle", "stopAudio", "stopClock", "pushing", "none", "dead"}
    /\ input \in {"idle", "clock", "audio", "cancelAudio", "cancelClock"}
    /\ audio \in {"waiting", "writing", "silence", "done", "died", "none"}
    /\ clock \in {"running", "done", "none"}
    /\ botSpeaking \in BOOLEAN /\ ttsReceived \in BOOLEAN

ArrivalType ==
    /\ arrived \in Nat /\ interruptions \in Nat /\ cut \in Nat
    /\ ending \in BOOLEAN /\ cancelled \in BOOLEAN

TypeOK ==
    /\ QueueType /\ TaskType /\ ArrivalType
    /\ audio = "writing" <=> inHand # NoFrame

\* set_transport_ready() has started the sender.
Init ==
    /\ incoming = {} /\ process = "idle" /\ input = "idle"
    /\ audioQueue = {} /\ audio = "waiting" /\ inHand = NoFrame
    /\ clockQueue = {} /\ clock = "running"
    /\ botSpeaking = FALSE /\ ttsReceived = FALSE
    /\ arrived = 0 /\ ending = FALSE /\ interruptions = 0 /\ cut = 0
    /\ cancelled = FALSE /\ pushed = {}

AudioAlive == audio \in {"waiting", "writing", "silence"}

-----------------------------------------------------------------------------
(* The frame processor: arrival, and the process task.                     *)

\* The input task moves a frame that is no system frame to the process queue.
Arrive(kind) ==
    /\ input = "idle" /\ ~cancelled /\ ~ending
    /\ kind = "end" \/ arrived < MaxFrames
    /\ arrived' = arrived + 1
    /\ ending' = (kind = "end")
    /\ incoming' = incoming \cup {[id |-> arrived + 1, kind |-> kind]}
    /\ UNCHANGED <<process, input, audioVars, clockVars, interruptions, cut,
                   cancelled, pushed>>

\* handle_sync_frame, handle_audio_frame and handle_timed_frame
HandOver(f) ==
    /\ process = "idle" /\ IsHead(f, incoming) /\ f.kind # "end"
    /\ incoming' = incoming \ {f}
    /\ IF f.kind = "timed"
       THEN clockQueue' = clockQueue \cup {f} /\ UNCHANGED audioQueue
       ELSE audioQueue' = audioQueue \cup {f} /\ UNCHANGED clockQueue
    /\ UNCHANGED <<process, input, audio, inHand, botSpeaking, ttsReceived,
                   clock, arrivalVars, pushed>>

\* stop(): the EndFrame is put into both queues, and both tasks are awaited.
StopBegins(f) ==
    /\ process = "idle" /\ IsHead(f, incoming) /\ f.kind = "end"
    /\ incoming' = incoming \ {f}
    /\ audioQueue' = audioQueue \cup {f}
    /\ clockQueue' = clockQueue \cup {f}
    /\ process' = "stopAudio"
    /\ UNCHANGED <<input, audio, inHand, botSpeaking, ttsReceived, clock,
                   arrivalVars, pushed>>

\* Mutant: the clock task is not awaited.
StopAudioDone_Hasty ==
    /\ process = "stopAudio" /\ ~AudioAlive
    /\ process' = "pushing"
    /\ UNCHANGED <<incoming, input, audioVars, clockVars, arrivalVars, pushed>>

StopAudioDone ==
    /\ process = "stopAudio" /\ ~AudioAlive
    /\ process' = IF clock = "running" THEN "stopClock" ELSE "pushing"
    /\ UNCHANGED <<incoming, input, audioVars, clockVars, arrivalVars, pushed>>

StopClockDone ==
    /\ process = "stopClock" /\ clock # "running"
    /\ process' = "pushing"
    /\ UNCHANGED <<incoming, input, audioVars, clockVars, arrivalVars, pushed>>

\* stop() has returned, and process_frame() pushes the EndFrame.
PushEnd ==
    /\ process = "pushing"
    /\ process' = "idle"
    /\ pushed' = pushed \cup {[id |-> arrived, kind |-> "end"]}
    /\ UNCHANGED <<incoming, input, audioVars, clockVars, arrivalVars>>

-----------------------------------------------------------------------------
(* The audio task.                                                         *)

\* No task runs on while it is being cancelled.
AudioRuns == input \notin {"audio", "cancelAudio"}
ClockRuns == input \notin {"clock", "cancelClock"}

Taking(f) ==
    /\ AudioRuns /\ audio = "waiting" /\ IsHead(f, audioQueue)
    /\ audioQueue' = audioQueue \ {f}

\* _bot_stopped_speaking()
BotStops ==
    /\ botSpeaking' = FALSE
    /\ ttsReceived' = (ttsReceived /\ ~botSpeaking)

\* write_audio_frame() or send_message() begins; audio starts the bot's turn.
BeginWrite(f) ==
    /\ Taking(f) /\ IsSlow(f)
    /\ audio' = "writing" /\ inHand' = f
    /\ botSpeaking' = (botSpeaking \/ f.kind = "chunk")
    /\ ttsReceived' = (ttsReceived \/ f.kind = "chunk")
    /\ UNCHANGED <<processorVars, input, clockVars, arrivalVars, pushed>>

Written ==
    /\ AudioRuns /\ audio = "writing"
    /\ audio' = "waiting" /\ inHand' = NoFrame
    /\ pushed' = pushed \cup {inHand}
    /\ UNCHANGED <<processorVars, input, audioQueue, botSpeaking, ttsReceived,
                   clockVars, arrivalVars>>

\* Audio that cannot be written is not pushed; a message that cannot be sent
\* ends the task.
WriteFails ==
    /\ AudioRuns /\ audio = "writing"
    /\ audio' = IF inHand.kind = "chunk" THEN "waiting" ELSE "died"
    /\ inHand' = NoFrame
    /\ UNCHANGED <<processorVars, input, audioQueue, botSpeaking, ttsReceived,
                   clockVars, arrivalVars, pushed>>

\* The other frames; TTSStoppedFrame ends the turn if there was TTS audio.
PassOn(f) ==
    /\ Taking(f) /\ ~IsSlow(f) /\ f.kind # "end"
    /\ pushed' = pushed \cup {f}
    /\ IF f.kind = "stopped" /\ ttsReceived
       THEN BotStops
       ELSE UNCHANGED <<botSpeaking, ttsReceived>>
    /\ UNCHANGED <<processorVars, input, audio, inHand, clockVars, arrivalVars>>

\* The EndFrame: some silence is written, then the task ends.
BeginSilence(f) ==
    /\ Taking(f) /\ f.kind = "end"
    /\ audio' = "silence"
    /\ UNCHANGED <<processorVars, input, inHand, botSpeaking, ttsReceived,
                   clockVars, arrivalVars, pushed>>

SilenceWritten ==
    /\ AudioRuns /\ audio = "silence"
    /\ audio' = "done"
    /\ UNCHANGED <<processorVars, input, audioQueue, inHand, botSpeaking,
                   ttsReceived, clockVars, arrivalVars, pushed>>

\* Mutant: the turn ends although a chunk is being written.
Fallback_Hasty ==
    /\ AudioRuns /\ AudioAlive /\ audioQueue = {} /\ botSpeaking
    /\ BotStops
    /\ UNCHANGED <<processorVars, input, audioQueue, audio, inHand, clockVars,
                   arrivalVars, pushed>>

\* Mutant: the fallback leaves turns of TTS audio to the TTSStoppedFrame.
Fallback_NotTTS ==
    /\ AudioRuns /\ audio = "waiting" /\ audioQueue = {}
    /\ botSpeaking /\ ~ttsReceived
    /\ BotStops
    /\ UNCHANGED <<processorVars, input, audioQueue, audio, inHand, clockVars,
                   arrivalVars, pushed>>

\* Nothing to play for BOT_VAD_STOP_FALLBACK_SECS.
Fallback ==
    /\ AudioRuns /\ audio = "waiting" /\ audioQueue = {} /\ botSpeaking
    /\ BotStops
    /\ UNCHANGED <<processorVars, input, audioQueue, audio, inHand, clockVars,
                   arrivalVars, pushed>>

-----------------------------------------------------------------------------
(* The clock task.                                                         *)

PushTimed(f) ==
    /\ ClockRuns /\ clock = "running" /\ f \in clockQueue /\ f.kind = "timed"
    /\ clockQueue' = clockQueue \ {f}
    /\ pushed' = pushed \cup {f}
    /\ UNCHANGED <<processorVars, input, audioVars, clock, arrivalVars>>

\* The EndFrame's time is infinite: it comes after all the others.
ClockEnds ==
    /\ ClockRuns /\ clock = "running"
    /\ \E f \in clockQueue : f.kind = "end"
    /\ \A f \in clockQueue : f.kind = "end"
    /\ clockQueue' = {} /\ clock' = "done"
    /\ UNCHANGED <<processorVars, input, audioVars, arrivalVars, pushed>>

-----------------------------------------------------------------------------
(* The input task: interruptions and the CancelFrame.                      *)

\* _start_interruption() of the frame processor; then handle_interruptions()
\* cancels the clock task.
Interrupt ==
    /\ input = "idle" /\ interruptions < MaxInterruptions
    /\ interruptions' = interruptions + 1
    /\ cut' = arrived
    /\ incoming' = Kept(incoming)
    /\ process' = IF process = "none" THEN "idle" ELSE process
    /\ input' = "clock"
    /\ UNCHANGED <<audioVars, clockVars, arrived, ending, cancelled, pushed>>

\* What is left to do once the old tasks have ended.
Restart ==
    /\ clock' = "running" /\ clockQueue' = {}
    /\ BotStops
    /\ input' = "idle"

\* The clock task has ended.  The audio task is left running if its queue
\* holds an uninterruptible frame, and cancelled otherwise.
ClockCancelled ==
    /\ input = "clock"
    /\ process' = IF process # "stopClock" THEN process
                  ELSE IF clock = "running" THEN "dead" ELSE "pushing"
    /\ IF Kept(audioQueue) # {}
       THEN /\ audioQueue' = Kept(audioQueue)
            /\ Restart
       ELSE /\ input' = "audio" /\ clock' = "none"
            /\ UNCHANGED <<audioQueue, clockQueue, botSpeaking, ttsReceived>>
    /\ UNCHANGED <<incoming, audio, inHand, arrivalVars, pushed>>

\* Mutant: the audio task starts again with its old queue.
AudioCancelled_OldQueue ==
    /\ input = "audio"
    /\ process' = IF process # "stopAudio" THEN process
                  ELSE IF AudioAlive THEN "dead" ELSE "stopClock"
    /\ audio' = "waiting" /\ inHand' = NoFrame
    /\ Restart
    /\ UNCHANGED <<incoming, audioQueue, arrivalVars, pushed>>

\* Mutant: the frame that was being written is not let go.
AudioCancelled_Holding ==
    /\ input = "audio"
    /\ process' = IF process # "stopAudio" THEN process
                  ELSE IF AudioAlive THEN "dead" ELSE "stopClock"
    /\ audioQueue' = {} /\ audio' = "waiting"
    /\ Restart
    /\ UNCHANGED <<incoming, inHand, arrivalVars, pushed>>

\* The audio task has ended: it starts again, with a new queue.
AudioCancelled ==
    /\ input = "audio"
    /\ process' = IF process # "stopAudio" THEN process
                  ELSE IF AudioAlive THEN "dead" ELSE "stopClock"
    /\ audioQueue' = {} /\ audio' = "waiting" /\ inHand' = NoFrame
    /\ Restart
    /\ UNCHANGED <<incoming, arrivalVars, pushed>>

\* The frame processor cancels the process task, cancel() the others.
Cancel ==
    /\ input = "idle" /\ ~cancelled
    /\ cancelled' = TRUE
    /\ process' = IF process = "idle" THEN "none" ELSE "dead"
    /\ input' = "cancelAudio"
    /\ UNCHANGED <<incoming, audioVars, clockVars, arrived, ending,
                   interruptions, cut, pushed>>

CancelAudio ==
    /\ input = "cancelAudio"
    /\ audio' = "none" /\ inHand' = NoFrame
    /\ input' = "cancelClock"
    /\ UNCHANGED <<processorVars, audioQueue, botSpeaking, ttsReceived,
                   clockVars, arrivalVars, pushed>>

CancelClock ==
    /\ input = "cancelClock"
    /\ clock' = "none"
    /\ input' = "idle"
    /\ UNCHANGED <<processorVars, audioVars, clockQueue, arrivalVars, pushed>>

-----------------------------------------------------------------------------
ProcessTask ==
    \/ \E f \in incoming : HandOver(f) \/ StopBegins(f)
    \/ StopAudioDone \/ StopClockDone \/ PushEnd

AudioTask ==
    \/ Written \/ WriteFails \/ SilenceWritten \/ Fallback
    \/ \E f \in audioQueue : BeginWrite(f) \/ PassOn(f) \/ BeginSilence(f)

ClockTask == ClockEnds \/ \E f \in clockQueue : PushTimed(f)

InputTask == ClockCancelled \/ AudioCancelled \/ CancelAudio \/ CancelClock

Environment == Interrupt \/ Cancel \/ \E kind \in Kinds \cup {"end"} : Arrive(kind)

Next == ProcessTask \/ AudioTask \/ ClockTask \/ InputTask \/ Environment

\* The event loop runs every task that can run; a write ends, a time comes.
Fairness ==
    /\ WF_vars(ProcessTask) /\ WF_vars(AudioTask)
    /\ WF_vars(ClockTask) /\ WF_vars(InputTask)

Spec == Init /\ [][Next]_vars
FairSpec == Spec /\ Fairness

-----------------------------------------------------------------------------
(* Properties                                                              *)

\* FIFO across restarts: frames that wait behind the audio are pushed
\* downstream in the order in which they arrived.
SyncOrder ==
    [][\A f \in pushed' \ pushed : IsSync(f) =>
          \A g \in pushed : IsSync(g) => g.id < f.id]_vars

\* handle_interruptions: once it is over, the only frame from before the
\* interruption that can still be written is the one already being written;
\* what else is left is uninterruptible.
InterruptionClears ==
    input = "idle" =>
        \A f \in audioQueue \cup clockQueue :
            f.id <= cut => IsUninterruptible(f)

\* Listeners of BotStarted- and BotStoppedSpeakingFrame can trust them: audio
\* leaves only during a turn of the bot, apart from the one chunk whose write
\* an interruption did not stop.
SpokenInTurn ==
    [][\A f \in pushed' \ pushed : f.kind = "chunk" =>
          botSpeaking \/ f.id <= cut]_vars

\* stop() waits for both tasks: the EndFrame leaves when no frame is left in
\* either queue, unless a task is cancelled or has died, and nothing leaves
\* after it.
EndLast ==
    [][/\ (\E f \in pushed : f.kind = "end") => pushed' = pushed
       /\ (\E f \in pushed' \ pushed : f.kind = "end") =>
             \/ cancelled \/ audio = "died" \/ input = "audio"
             \/ audioQueue = {} /\ clockQueue = {}]_vars

\* cancel(): nothing is played after the CancelFrame, not even if an
\* interruption that was queued behind it starts the tasks again.
CancelSilences ==
    [][cancelled /\ input # "cancelAudio" =>
          \A f \in pushed' \ pushed : f.kind # "chunk"]_vars

\* The fallback of the audio task: every turn of the bot ends, unless the
\* audio task is gone.
TurnsEnd ==
    botSpeaking ~> (~botSpeaking \/ audio \in {"silence", "done", "died", "none"})

\* "Terminal frames must survive interruption to guarantee proper pipeline
\* shutdown" (frames.py:1592): an EndFrame in stop() is pushed on.
EndSurvives ==
    process = "stopAudio" ~> (cancelled \/ \E f \in pushed : f.kind = "end")
=============================================================================
