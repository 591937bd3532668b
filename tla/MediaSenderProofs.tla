------------------------- MODULE MediaSenderProofs --------------------------
(***************************************************************************)
(* Proofs about MediaSender for any kinds of frames and any bounds.        *)
(*                                                                         *)
(* Frames move from queue to queue in the order of their numbers, and the  *)
(* EndFrame is the last (OrderInv, EndInv): so a queue's head is its       *)
(* oldest frame, and sync frames leave in order.  An interruption finds no *)
(* frame arriving while it is handled (RangeInv), so that what it leaves   *)
(* is uninterruptible (ClearInv) and what is still being written is old    *)
(* (SpeechInv).  Behind a CancelFrame no chunk can reach a running audio   *)
(* task (CancelInv); when stop() is past a task, that task has emptied its *)
(* queue or was cancelled (StopInv, DoneInv); before that, the EndFrame it *)
(* waits for is in the queue (HeardInv).                                   *)
(***************************************************************************)
EXTENDS MediaSender, WellFoundedInduction, TLAPS

RangeInv ==
    /\ \A f \in incoming \cup audioQueue \cup clockQueue \cup pushed :
          1 <= f.id /\ f.id <= arrived
    /\ inHand.id <= arrived /\ (inHand # NoFrame => 1 <= inHand.id)
    /\ process \in {"stopAudio", "stopClock", "pushing"} => 1 <= arrived
    /\ cut <= arrived
    /\ input \in {"clock", "audio"} => cut = arrived

OrderInv ==
    /\ \A f, g \in incoming : f.id = g.id => f = g
    /\ \A f, g \in audioQueue : f.id = g.id => f = g
    /\ \A f \in incoming, g \in audioQueue \cup clockQueue : g.id < f.id
    /\ \A f \in incoming \cup audioQueue : inHand.id < f.id

PushedInv ==
    \A g \in pushed : IsSync(g) =>
        /\ \A f \in incoming \cup audioQueue : g.id < f.id
        /\ inHand # NoFrame => g.id < inHand.id

EndInv ==
    /\ \A f \in incoming \cup audioQueue \cup clockQueue :
          f.kind = "end" => ending /\ f.id = arrived
    /\ inHand.kind # "end"

ClearInv ==
    /\ \A f \in incoming : f.id <= cut => IsUninterruptible(f)
    /\ input \notin {"clock", "audio"} =>
          \A f \in audioQueue \cup clockQueue :
              f.id <= cut => IsUninterruptible(f)

SpeechInv == inHand.kind = "chunk" => botSpeaking \/ inHand.id <= cut

NoChunk(queue) == \A f \in queue : f.kind # "chunk"

CancelInv ==
    /\ input \in {"cancelAudio", "cancelClock"} => cancelled
    /\ cancelled =>
          /\ process \in {"none", "dead"} \/ NoChunk(incoming)
          /\ \/ input = "cancelAudio"
             \/ inHand.kind # "chunk" /\ (audio = "none" \/ NoChunk(audioQueue))

EndPushed == \E f \in pushed : f.kind = "end"

StopInv ==
    /\ EndPushed => process \in {"idle", "none", "dead"}
    /\ process \in {"stopAudio", "stopClock", "pushing"} \/ EndPushed
          => incoming = {} /\ ending
    /\ process \in {"stopClock", "pushing"} \/ EndPushed
          => /\ audio \notin {"writing", "silence"}
             /\ audio = "waiting" => audioQueue = {}
    /\ process = "pushing" \/ EndPushed
          => (clock = "running" => clockQueue = {})

DoneInv ==
    /\ audio \in {"silence", "done"} => audioQueue = {} /\ incoming = {} /\ ending
    /\ clock = "done" => clockQueue = {} /\ incoming = {} /\ ending
    /\ audio = "none" => cancelled
    /\ clock = "none" => cancelled \/ input = "audio"

IInv ==
    /\ TypeOK /\ RangeInv /\ OrderInv /\ PushedInv /\ EndInv /\ ClearInv
    /\ SpeechInv /\ CancelInv /\ StopInv /\ DoneInv

-----------------------------------------------------------------------------
(* Steps.                                                                  *)

\* Frames have numbers; NoFrame is none of them.
LEMMA FrameFacts ==
    /\ \A f \in Frame : f.id \in Nat /\ f.kind \in Kinds \cup {"end"} /\ f # NoFrame
    /\ NoFrame.id = 0 /\ NoFrame.kind = "none"
    /\ \A n \in Nat, k \in Kinds \cup {"end"} :
          LET f == [id |-> n, kind |-> k]
          IN  f \in Frame /\ f.id = n /\ f.kind = k
BY SenderAssumption DEF Frame, NoFrame, SenderAssumption

\* Types.
LEMMA QueueTypeStep ==
    ASSUME TypeOK, [Next]_vars
    PROVE  QueueType'
<1> USE FrameFacts DEF TypeOK, QueueType, TaskType, ArrivalType, processorVars, audioVars, clockVars, arrivalVars
<1>1. CASE \E f \in incoming : HandOver(f)
  BY <1>1 DEF HandOver, IsHead, IsSync
<1>2. CASE \E f \in incoming : StopBegins(f)
  BY <1>2 DEF StopBegins, IsHead
<1>3. CASE StopAudioDone
  BY <1>3 DEF StopAudioDone, AudioAlive
<1>4. CASE StopClockDone
  BY <1>4 DEF StopClockDone
<1>5. CASE PushEnd
  BY <1>5 DEF PushEnd, IsSync
<1>6. CASE \E f \in audioQueue : BeginWrite(f)
  BY <1>6 DEF BeginWrite, Taking, IsHead, IsSlow, AudioRuns, IsSync
<1>7. CASE \E f \in audioQueue : PassOn(f)
  BY <1>7 DEF PassOn, Taking, IsHead, IsSlow, IsSync, AudioRuns, BotStops
<1>8. CASE \E f \in audioQueue : BeginSilence(f)
  BY <1>8 DEF BeginSilence, Taking, IsHead, AudioRuns
<1>9. CASE Written
  BY <1>9 DEF Written, AudioRuns
<1>10. CASE WriteFails
  BY <1>10 DEF WriteFails, AudioRuns
<1>11. CASE SilenceWritten
  BY <1>11 DEF SilenceWritten, AudioRuns
<1>12. CASE Fallback
  BY <1>12 DEF Fallback, AudioRuns, BotStops
<1>13. CASE \E f \in clockQueue : PushTimed(f)
  BY <1>13 DEF PushTimed, IsSync, ClockRuns
<1>14. CASE ClockEnds
  BY <1>14 DEF ClockEnds, ClockRuns
<1>15. CASE ClockCancelled
  BY <1>15 DEF ClockCancelled, Restart, BotStops, Kept, IsUninterruptible
<1>16. CASE AudioCancelled
  BY <1>16 DEF AudioCancelled, Restart, BotStops, AudioAlive
<1>17. CASE CancelAudio
  BY <1>17 DEF CancelAudio
<1>18. CASE CancelClock
  BY <1>18 DEF CancelClock
<1>19. CASE Interrupt
  BY <1>19 DEF Interrupt, Kept, IsUninterruptible
<1>20. CASE Cancel
  BY <1>20 DEF Cancel
<1>21. CASE \E k \in Kinds \cup {"end"} : Arrive(k)
  BY <1>21 DEF Arrive
<1>22. CASE UNCHANGED vars
  BY <1>22 DEF vars
<1> QED
  BY <1>1, <1>2, <1>3, <1>4, <1>5, <1>6, <1>7, <1>8, <1>9, <1>10, <1>11,
     <1>12, <1>13, <1>14, <1>15, <1>16, <1>17, <1>18, <1>19, <1>20, <1>21, <1>22
     DEF Next, ProcessTask, AudioTask, ClockTask, InputTask, Environment

LEMMA TaskTypeStep ==
    ASSUME TypeOK, [Next]_vars
    PROVE  TaskType' /\ ArrivalType'
<1> USE DEF TypeOK, TaskType, ArrivalType, QueueType, processorVars, audioVars, clockVars, arrivalVars
<1>1. CASE \E f \in incoming : HandOver(f)
  BY <1>1 DEF HandOver, IsHead, IsSync
<1>2. CASE \E f \in incoming : StopBegins(f)
  BY <1>2 DEF StopBegins, IsHead
<1>3. CASE StopAudioDone
  BY <1>3 DEF StopAudioDone, AudioAlive
<1>4. CASE StopClockDone
  BY <1>4 DEF StopClockDone
<1>5. CASE PushEnd
  BY <1>5 DEF PushEnd, IsSync
<1>6. CASE \E f \in audioQueue : BeginWrite(f)
  BY <1>6 DEF BeginWrite, Taking, IsHead, IsSlow, AudioRuns, IsSync
<1>7. CASE \E f \in audioQueue : PassOn(f)
  BY <1>7 DEF PassOn, Taking, IsHead, IsSlow, IsSync, AudioRuns, BotStops
<1>8. CASE \E f \in audioQueue : BeginSilence(f)
  BY <1>8 DEF BeginSilence, Taking, IsHead, AudioRuns
<1>9. CASE Written
  BY <1>9 DEF Written, AudioRuns
<1>10. CASE WriteFails
  BY <1>10 DEF WriteFails, AudioRuns
<1>11. CASE SilenceWritten
  BY <1>11 DEF SilenceWritten, AudioRuns
<1>12. CASE Fallback
  BY <1>12 DEF Fallback, AudioRuns, BotStops
<1>13. CASE \E f \in clockQueue : PushTimed(f)
  BY <1>13 DEF PushTimed, IsSync, ClockRuns
<1>14. CASE ClockEnds
  BY <1>14 DEF ClockEnds, ClockRuns
<1>15. CASE ClockCancelled
  BY <1>15 DEF ClockCancelled, Restart, BotStops, Kept, IsUninterruptible
<1>16. CASE AudioCancelled
  BY <1>16 DEF AudioCancelled, Restart, BotStops, AudioAlive
<1>17. CASE CancelAudio
  BY <1>17 DEF CancelAudio
<1>18. CASE CancelClock
  BY <1>18 DEF CancelClock
<1>19. CASE Interrupt
  BY <1>19 DEF Interrupt, Kept, IsUninterruptible
<1>20. CASE Cancel
  BY <1>20 DEF Cancel
<1>21. CASE \E k \in Kinds \cup {"end"} : Arrive(k)
  BY <1>21 DEF Arrive
<1>22. CASE UNCHANGED vars
  BY <1>22 DEF vars
<1> QED
  BY <1>1, <1>2, <1>3, <1>4, <1>5, <1>6, <1>7, <1>8, <1>9, <1>10, <1>11,
     <1>12, <1>13, <1>14, <1>15, <1>16, <1>17, <1>18, <1>19, <1>20, <1>21, <1>22
     DEF Next, ProcessTask, AudioTask, ClockTask, InputTask, Environment

LEMMA HoldingStep ==
    ASSUME TypeOK, [Next]_vars
    PROVE  (audio = "writing" <=> inHand # NoFrame)'
<1> USE FrameFacts DEF TypeOK, QueueType, TaskType, ArrivalType, processorVars, audioVars, clockVars, arrivalVars
<1>1. CASE \E f \in incoming : HandOver(f)
  BY <1>1 DEF HandOver, IsHead, IsSync
<1>2. CASE \E f \in incoming : StopBegins(f)
  BY <1>2 DEF StopBegins, IsHead
<1>3. CASE StopAudioDone
  BY <1>3 DEF StopAudioDone, AudioAlive
<1>4. CASE StopClockDone
  BY <1>4 DEF StopClockDone
<1>5. CASE PushEnd
  BY <1>5 DEF PushEnd, IsSync
<1>6. CASE \E f \in audioQueue : BeginWrite(f)
  BY <1>6 DEF BeginWrite, Taking, IsHead, IsSlow, AudioRuns, IsSync
<1>7. CASE \E f \in audioQueue : PassOn(f)
  BY <1>7 DEF PassOn, Taking, IsHead, IsSlow, IsSync, AudioRuns, BotStops
<1>8. CASE \E f \in audioQueue : BeginSilence(f)
  BY <1>8 DEF BeginSilence, Taking, IsHead, AudioRuns
<1>9. CASE Written
  BY <1>9 DEF Written, AudioRuns
<1>10. CASE WriteFails
  BY <1>10 DEF WriteFails, AudioRuns
<1>11. CASE SilenceWritten
  BY <1>11 DEF SilenceWritten, AudioRuns
<1>12. CASE Fallback
  BY <1>12 DEF Fallback, AudioRuns, BotStops
<1>13. CASE \E f \in clockQueue : PushTimed(f)
  BY <1>13 DEF PushTimed, IsSync, ClockRuns
<1>14. CASE ClockEnds
  BY <1>14 DEF ClockEnds, ClockRuns
<1>15. CASE ClockCancelled
  BY <1>15 DEF ClockCancelled, Restart, BotStops, Kept, IsUninterruptible
<1>16. CASE AudioCancelled
  BY <1>16 DEF AudioCancelled, Restart, BotStops, AudioAlive
<1>17. CASE CancelAudio
  BY <1>17 DEF CancelAudio
<1>18. CASE CancelClock
  BY <1>18 DEF CancelClock
<1>19. CASE Interrupt
  BY <1>19 DEF Interrupt, Kept, IsUninterruptible
<1>20. CASE Cancel
  BY <1>20 DEF Cancel
<1>21. CASE \E k \in Kinds \cup {"end"} : Arrive(k)
  BY <1>21 DEF Arrive
<1>22. CASE UNCHANGED vars
  BY <1>22 DEF vars
<1> QED
  BY <1>1, <1>2, <1>3, <1>4, <1>5, <1>6, <1>7, <1>8, <1>9, <1>10, <1>11,
     <1>12, <1>13, <1>14, <1>15, <1>16, <1>17, <1>18, <1>19, <1>20, <1>21, <1>22
     DEF Next, ProcessTask, AudioTask, ClockTask, InputTask, Environment

LEMMA RangeStep ==
    ASSUME TypeOK, RangeInv, [Next]_vars
    PROVE  RangeInv'
<1> USE FrameFacts DEF TypeOK, QueueType, TaskType, ArrivalType, RangeInv, processorVars, audioVars, clockVars, arrivalVars
<1>1. CASE \E f \in incoming : HandOver(f)
  BY <1>1 DEF HandOver, IsHead, IsSync
<1>2. CASE \E f \in incoming : StopBegins(f)
  BY <1>2 DEF StopBegins, IsHead
<1>3. CASE StopAudioDone
  BY <1>3 DEF StopAudioDone, AudioAlive
<1>4. CASE StopClockDone
  BY <1>4 DEF StopClockDone
<1>5. CASE PushEnd
  BY <1>5 DEF PushEnd, IsSync
<1>6. CASE \E f \in audioQueue : BeginWrite(f)
  BY <1>6 DEF BeginWrite, Taking, IsHead, IsSlow, AudioRuns, IsSync
<1>7. CASE \E f \in audioQueue : PassOn(f)
  BY <1>7 DEF PassOn, Taking, IsHead, IsSlow, IsSync, AudioRuns, BotStops
<1>8. CASE \E f \in audioQueue : BeginSilence(f)
  BY <1>8 DEF BeginSilence, Taking, IsHead, AudioRuns
<1>9. CASE Written
  BY <1>9 DEF Written, AudioRuns
<1>10. CASE WriteFails
  BY <1>10 DEF WriteFails, AudioRuns
<1>11. CASE SilenceWritten
  BY <1>11 DEF SilenceWritten, AudioRuns
<1>12. CASE Fallback
  BY <1>12 DEF Fallback, AudioRuns, BotStops
<1>13. CASE \E f \in clockQueue : PushTimed(f)
  BY <1>13 DEF PushTimed, IsSync, ClockRuns
<1>14. CASE ClockEnds
  BY <1>14 DEF ClockEnds, ClockRuns
<1>15. CASE ClockCancelled
  BY <1>15 DEF ClockCancelled, Restart, BotStops, Kept, IsUninterruptible
<1>16. CASE AudioCancelled
  BY <1>16 DEF AudioCancelled, Restart, BotStops, AudioAlive
<1>17. CASE CancelAudio
  BY <1>17 DEF CancelAudio
<1>18. CASE CancelClock
  BY <1>18 DEF CancelClock
<1>19. CASE Interrupt
  BY <1>19 DEF Interrupt, Kept, IsUninterruptible
<1>20. CASE Cancel
  BY <1>20 DEF Cancel
<1>21. CASE \E k \in Kinds \cup {"end"} : Arrive(k)
  BY <1>21 DEF Arrive
<1>22. CASE UNCHANGED vars
  BY <1>22 DEF vars
<1> QED
  BY <1>1, <1>2, <1>3, <1>4, <1>5, <1>6, <1>7, <1>8, <1>9, <1>10, <1>11,
     <1>12, <1>13, <1>14, <1>15, <1>16, <1>17, <1>18, <1>19, <1>20, <1>21, <1>22
     DEF Next, ProcessTask, AudioTask, ClockTask, InputTask, Environment

LEMMA OrderStep ==
    ASSUME TypeOK, RangeInv, OrderInv, [Next]_vars
    PROVE  OrderInv'
<1> USE FrameFacts DEF TypeOK, QueueType, TaskType, ArrivalType, RangeInv, OrderInv, processorVars, audioVars, clockVars, arrivalVars
<1>1. CASE \E f \in incoming : HandOver(f)
  BY <1>1 DEF HandOver, IsHead, IsSync
<1>2. CASE \E f \in incoming : StopBegins(f)
  BY <1>2 DEF StopBegins, IsHead
<1>3. CASE StopAudioDone
  BY <1>3 DEF StopAudioDone, AudioAlive
<1>4. CASE StopClockDone
  BY <1>4 DEF StopClockDone
<1>5. CASE PushEnd
  BY <1>5 DEF PushEnd, IsSync
<1>6. CASE \E f \in audioQueue : BeginWrite(f)
  BY <1>6 DEF BeginWrite, Taking, IsHead, IsSlow, AudioRuns, IsSync
<1>7. CASE \E f \in audioQueue : PassOn(f)
  BY <1>7 DEF PassOn, Taking, IsHead, IsSlow, IsSync, AudioRuns, BotStops
<1>8. CASE \E f \in audioQueue : BeginSilence(f)
  BY <1>8 DEF BeginSilence, Taking, IsHead, AudioRuns
<1>9. CASE Written
  BY <1>9 DEF Written, AudioRuns
<1>10. CASE WriteFails
  BY <1>10 DEF WriteFails, AudioRuns
<1>11. CASE SilenceWritten
  BY <1>11 DEF SilenceWritten, AudioRuns
<1>12. CASE Fallback
  BY <1>12 DEF Fallback, AudioRuns, BotStops
<1>13. CASE \E f \in clockQueue : PushTimed(f)
  BY <1>13 DEF PushTimed, IsSync, ClockRuns
<1>14. CASE ClockEnds
  BY <1>14 DEF ClockEnds, ClockRuns
<1>15. CASE ClockCancelled
  BY <1>15 DEF ClockCancelled, Restart, BotStops, Kept, IsUninterruptible
<1>16. CASE AudioCancelled
  BY <1>16 DEF AudioCancelled, Restart, BotStops, AudioAlive
<1>17. CASE CancelAudio
  BY <1>17 DEF CancelAudio
<1>18. CASE CancelClock
  BY <1>18 DEF CancelClock
<1>19. CASE Interrupt
  BY <1>19 DEF Interrupt, Kept, IsUninterruptible
<1>20. CASE Cancel
  BY <1>20 DEF Cancel
<1>21. CASE \E k \in Kinds \cup {"end"} : Arrive(k)
  BY <1>21 DEF Arrive
<1>22. CASE UNCHANGED vars
  BY <1>22 DEF vars
<1> QED
  BY <1>1, <1>2, <1>3, <1>4, <1>5, <1>6, <1>7, <1>8, <1>9, <1>10, <1>11,
     <1>12, <1>13, <1>14, <1>15, <1>16, <1>17, <1>18, <1>19, <1>20, <1>21, <1>22
     DEF Next, ProcessTask, AudioTask, ClockTask, InputTask, Environment

LEMMA PushedStep ==
    ASSUME TypeOK, RangeInv, OrderInv, PushedInv, [Next]_vars
    PROVE  PushedInv'
<1> USE FrameFacts DEF TypeOK, QueueType, TaskType, ArrivalType, RangeInv, OrderInv, PushedInv, processorVars, audioVars, clockVars, arrivalVars
<1>1. CASE \E f \in incoming : HandOver(f)
  BY <1>1 DEF HandOver, IsHead, IsSync
<1>2. CASE \E f \in incoming : StopBegins(f)
  BY <1>2 DEF StopBegins, IsHead
<1>3. CASE StopAudioDone
  BY <1>3 DEF StopAudioDone, AudioAlive
<1>4. CASE StopClockDone
  BY <1>4 DEF StopClockDone
<1>5. CASE PushEnd
  BY <1>5 DEF PushEnd, IsSync
<1>6. CASE \E f \in audioQueue : BeginWrite(f)
  BY <1>6 DEF BeginWrite, Taking, IsHead, IsSlow, AudioRuns, IsSync
<1>7. CASE \E f \in audioQueue : PassOn(f)
  BY <1>7 DEF PassOn, Taking, IsHead, IsSlow, IsSync, AudioRuns, BotStops
<1>8. CASE \E f \in audioQueue : BeginSilence(f)
  BY <1>8 DEF BeginSilence, Taking, IsHead, AudioRuns
<1>9. CASE Written
  BY <1>9 DEF Written, AudioRuns
<1>10. CASE WriteFails
  BY <1>10 DEF WriteFails, AudioRuns
<1>11. CASE SilenceWritten
  BY <1>11 DEF SilenceWritten, AudioRuns
<1>12. CASE Fallback
  BY <1>12 DEF Fallback, AudioRuns, BotStops
<1>13. CASE \E f \in clockQueue : PushTimed(f)
  BY <1>13 DEF PushTimed, IsSync, ClockRuns
<1>14. CASE ClockEnds
  BY <1>14 DEF ClockEnds, ClockRuns
<1>15. CASE ClockCancelled
  BY <1>15 DEF ClockCancelled, Restart, BotStops, Kept, IsUninterruptible
<1>16. CASE AudioCancelled
  BY <1>16 DEF AudioCancelled, Restart, BotStops, AudioAlive
<1>17. CASE CancelAudio
  BY <1>17 DEF CancelAudio
<1>18. CASE CancelClock
  BY <1>18 DEF CancelClock
<1>19. CASE Interrupt
  BY <1>19 DEF Interrupt, Kept, IsUninterruptible
<1>20. CASE Cancel
  BY <1>20 DEF Cancel
<1>21. CASE \E k \in Kinds \cup {"end"} : Arrive(k)
  BY <1>21 DEF Arrive
<1>22. CASE UNCHANGED vars
  BY <1>22 DEF vars
<1> QED
  BY <1>1, <1>2, <1>3, <1>4, <1>5, <1>6, <1>7, <1>8, <1>9, <1>10, <1>11,
     <1>12, <1>13, <1>14, <1>15, <1>16, <1>17, <1>18, <1>19, <1>20, <1>21, <1>22
     DEF Next, ProcessTask, AudioTask, ClockTask, InputTask, Environment

LEMMA EndStep ==
    ASSUME TypeOK, RangeInv, OrderInv, EndInv, [Next]_vars
    PROVE  EndInv'
<1> USE FrameFacts DEF TypeOK, QueueType, TaskType, ArrivalType, RangeInv, OrderInv, EndInv, processorVars, audioVars, clockVars, arrivalVars
<1>1. CASE \E f \in incoming : HandOver(f)
  BY <1>1 DEF HandOver, IsHead, IsSync
<1>2. CASE \E f \in incoming : StopBegins(f)
  BY <1>2 DEF StopBegins, IsHead
<1>3. CASE StopAudioDone
  BY <1>3 DEF StopAudioDone, AudioAlive
<1>4. CASE StopClockDone
  BY <1>4 DEF StopClockDone
<1>5. CASE PushEnd
  BY <1>5 DEF PushEnd, IsSync
<1>6. CASE \E f \in audioQueue : BeginWrite(f)
  BY <1>6 DEF BeginWrite, Taking, IsHead, IsSlow, AudioRuns, IsSync
<1>7. CASE \E f \in audioQueue : PassOn(f)
  BY <1>7 DEF PassOn, Taking, IsHead, IsSlow, IsSync, AudioRuns, BotStops
<1>8. CASE \E f \in audioQueue : BeginSilence(f)
  BY <1>8 DEF BeginSilence, Taking, IsHead, AudioRuns
<1>9. CASE Written
  BY <1>9 DEF Written, AudioRuns
<1>10. CASE WriteFails
  BY <1>10 DEF WriteFails, AudioRuns
<1>11. CASE SilenceWritten
  BY <1>11 DEF SilenceWritten, AudioRuns
<1>12. CASE Fallback
  BY <1>12 DEF Fallback, AudioRuns, BotStops
<1>13. CASE \E f \in clockQueue : PushTimed(f)
  BY <1>13 DEF PushTimed, IsSync, ClockRuns
<1>14. CASE ClockEnds
  BY <1>14 DEF ClockEnds, ClockRuns
<1>15. CASE ClockCancelled
  BY <1>15 DEF ClockCancelled, Restart, BotStops, Kept, IsUninterruptible
<1>16. CASE AudioCancelled
  BY <1>16 DEF AudioCancelled, Restart, BotStops, AudioAlive
<1>17. CASE CancelAudio
  BY <1>17 DEF CancelAudio
<1>18. CASE CancelClock
  BY <1>18 DEF CancelClock
<1>19. CASE Interrupt
  BY <1>19 DEF Interrupt, Kept, IsUninterruptible
<1>20. CASE Cancel
  BY <1>20 DEF Cancel
<1>21. CASE \E k \in Kinds \cup {"end"} : Arrive(k)
  <2> SUFFICES ASSUME NEW k \in Kinds \cup {"end"}, Arrive(k) PROVE EndInv'
    BY <1>21
  <2> DEFINE new == [id |-> arrived + 1, kind |-> k]
  <2>1. new.id = arrived + 1 /\ new.kind = k
    OBVIOUS
  <2>2. \A f \in incoming \cup audioQueue \cup clockQueue : f.kind # "end"
    BY DEF Arrive
  <2>3. /\ \A f \in (incoming \cup audioQueue \cup clockQueue)' :
             f = new \/ f \in incoming \cup audioQueue \cup clockQueue
        /\ ending' = (k = "end") /\ arrived' = arrived + 1 /\ inHand' = inHand
    BY DEF Arrive
  <2> QED
    BY <2>1, <2>2, <2>3
<1>22. CASE UNCHANGED vars
  BY <1>22 DEF vars
<1> QED
  BY <1>1, <1>2, <1>3, <1>4, <1>5, <1>6, <1>7, <1>8, <1>9, <1>10, <1>11,
     <1>12, <1>13, <1>14, <1>15, <1>16, <1>17, <1>18, <1>19, <1>20, <1>21, <1>22
     DEF Next, ProcessTask, AudioTask, ClockTask, InputTask, Environment

LEMMA ClearStep ==
    ASSUME TypeOK, RangeInv, ClearInv, [Next]_vars
    PROVE  ClearInv'
<1> USE DEF TypeOK, QueueType, TaskType, ArrivalType, RangeInv, ClearInv, processorVars, audioVars, clockVars, arrivalVars
<1>1. CASE \E f \in incoming : HandOver(f)
  BY <1>1 DEF HandOver, IsHead, IsSync
<1>2. CASE \E f \in incoming : StopBegins(f)
  BY <1>2 DEF StopBegins, IsHead
<1>3. CASE StopAudioDone
  BY <1>3 DEF StopAudioDone, AudioAlive
<1>4. CASE StopClockDone
  BY <1>4 DEF StopClockDone
<1>5. CASE PushEnd
  BY <1>5 DEF PushEnd, IsSync
<1>6. CASE \E f \in audioQueue : BeginWrite(f)
  BY <1>6 DEF BeginWrite, Taking, IsHead, IsSlow, AudioRuns, IsSync
<1>7. CASE \E f \in audioQueue : PassOn(f)
  BY <1>7 DEF PassOn, Taking, IsHead, IsSlow, IsSync, AudioRuns, BotStops
<1>8. CASE \E f \in audioQueue : BeginSilence(f)
  BY <1>8 DEF BeginSilence, Taking, IsHead, AudioRuns
<1>9. CASE Written
  BY <1>9 DEF Written, AudioRuns
<1>10. CASE WriteFails
  BY <1>10 DEF WriteFails, AudioRuns
<1>11. CASE SilenceWritten
  BY <1>11 DEF SilenceWritten, AudioRuns
<1>12. CASE Fallback
  BY <1>12 DEF Fallback, AudioRuns, BotStops
<1>13. CASE \E f \in clockQueue : PushTimed(f)
  BY <1>13 DEF PushTimed, IsSync, ClockRuns
<1>14. CASE ClockEnds
  BY <1>14 DEF ClockEnds, ClockRuns
<1>15. CASE ClockCancelled
  BY <1>15 DEF ClockCancelled, Restart, BotStops, Kept, IsUninterruptible
<1>16. CASE AudioCancelled
  BY <1>16 DEF AudioCancelled, Restart, BotStops, AudioAlive
<1>17. CASE CancelAudio
  BY <1>17 DEF CancelAudio
<1>18. CASE CancelClock
  BY <1>18 DEF CancelClock
<1>19. CASE Interrupt
  BY <1>19 DEF Interrupt, Kept, IsUninterruptible
<1>20. CASE Cancel
  BY <1>20 DEF Cancel
<1>21. CASE \E k \in Kinds \cup {"end"} : Arrive(k)
  BY <1>21 DEF Arrive
<1>22. CASE UNCHANGED vars
  BY <1>22 DEF vars
<1> QED
  BY <1>1, <1>2, <1>3, <1>4, <1>5, <1>6, <1>7, <1>8, <1>9, <1>10, <1>11,
     <1>12, <1>13, <1>14, <1>15, <1>16, <1>17, <1>18, <1>19, <1>20, <1>21, <1>22
     DEF Next, ProcessTask, AudioTask, ClockTask, InputTask, Environment

LEMMA SpeechStep ==
    ASSUME TypeOK, RangeInv, SpeechInv, [Next]_vars
    PROVE  SpeechInv'
<1> USE FrameFacts DEF TypeOK, QueueType, TaskType, ArrivalType, RangeInv, SpeechInv, processorVars, audioVars, clockVars, arrivalVars
<1>1. CASE \E f \in incoming : HandOver(f)
  BY <1>1 DEF HandOver, IsHead, IsSync
<1>2. CASE \E f \in incoming : StopBegins(f)
  BY <1>2 DEF StopBegins, IsHead
<1>3. CASE StopAudioDone
  BY <1>3 DEF StopAudioDone, AudioAlive
<1>4. CASE StopClockDone
  BY <1>4 DEF StopClockDone
<1>5. CASE PushEnd
  BY <1>5 DEF PushEnd, IsSync
<1>6. CASE \E f \in audioQueue : BeginWrite(f)
  BY <1>6 DEF BeginWrite, Taking, IsHead, IsSlow, AudioRuns, IsSync
<1>7. CASE \E f \in audioQueue : PassOn(f)
  BY <1>7 DEF PassOn, Taking, IsHead, IsSlow, IsSync, AudioRuns, BotStops
<1>8. CASE \E f \in audioQueue : BeginSilence(f)
  BY <1>8 DEF BeginSilence, Taking, IsHead, AudioRuns
<1>9. CASE Written
  BY <1>9 DEF Written, AudioRuns
<1>10. CASE WriteFails
  BY <1>10 DEF WriteFails, AudioRuns
<1>11. CASE SilenceWritten
  BY <1>11 DEF SilenceWritten, AudioRuns
<1>12. CASE Fallback
  BY <1>12 DEF Fallback, AudioRuns, BotStops
<1>13. CASE \E f \in clockQueue : PushTimed(f)
  BY <1>13 DEF PushTimed, IsSync, ClockRuns
<1>14. CASE ClockEnds
  BY <1>14 DEF ClockEnds, ClockRuns
<1>15. CASE ClockCancelled
  BY <1>15 DEF ClockCancelled, Restart, BotStops, Kept, IsUninterruptible
<1>16. CASE AudioCancelled
  BY <1>16 DEF AudioCancelled, Restart, BotStops, AudioAlive
<1>17. CASE CancelAudio
  BY <1>17 DEF CancelAudio
<1>18. CASE CancelClock
  BY <1>18 DEF CancelClock
<1>19. CASE Interrupt
  BY <1>19 DEF Interrupt, Kept, IsUninterruptible
<1>20. CASE Cancel
  BY <1>20 DEF Cancel
<1>21. CASE \E k \in Kinds \cup {"end"} : Arrive(k)
  BY <1>21 DEF Arrive
<1>22. CASE UNCHANGED vars
  BY <1>22 DEF vars
<1> QED
  BY <1>1, <1>2, <1>3, <1>4, <1>5, <1>6, <1>7, <1>8, <1>9, <1>10, <1>11,
     <1>12, <1>13, <1>14, <1>15, <1>16, <1>17, <1>18, <1>19, <1>20, <1>21, <1>22
     DEF Next, ProcessTask, AudioTask, ClockTask, InputTask, Environment

LEMMA CancelStep ==
    ASSUME TypeOK, CancelInv, [Next]_vars
    PROVE  CancelInv'
<1> USE FrameFacts DEF TypeOK, QueueType, TaskType, ArrivalType, CancelInv, processorVars, audioVars, clockVars, arrivalVars, NoChunk
<1>1. CASE \E f \in incoming : HandOver(f)
  BY <1>1 DEF HandOver, IsHead, IsSync
<1>2. CASE \E f \in incoming : StopBegins(f)
  BY <1>2 DEF StopBegins, IsHead
<1>3. CASE StopAudioDone
  BY <1>3 DEF StopAudioDone, AudioAlive
<1>4. CASE StopClockDone
  BY <1>4 DEF StopClockDone
<1>5. CASE PushEnd
  BY <1>5 DEF PushEnd, IsSync
<1>6. CASE \E f \in audioQueue : BeginWrite(f)
  BY <1>6 DEF BeginWrite, Taking, IsHead, IsSlow, AudioRuns, IsSync
<1>7. CASE \E f \in audioQueue : PassOn(f)
  BY <1>7 DEF PassOn, Taking, IsHead, IsSlow, IsSync, AudioRuns, BotStops
<1>8. CASE \E f \in audioQueue : BeginSilence(f)
  BY <1>8 DEF BeginSilence, Taking, IsHead, AudioRuns
<1>9. CASE Written
  BY <1>9 DEF Written, AudioRuns
<1>10. CASE WriteFails
  BY <1>10 DEF WriteFails, AudioRuns
<1>11. CASE SilenceWritten
  BY <1>11 DEF SilenceWritten, AudioRuns
<1>12. CASE Fallback
  BY <1>12 DEF Fallback, AudioRuns, BotStops
<1>13. CASE \E f \in clockQueue : PushTimed(f)
  BY <1>13 DEF PushTimed, IsSync, ClockRuns
<1>14. CASE ClockEnds
  BY <1>14 DEF ClockEnds, ClockRuns
<1>15. CASE ClockCancelled
  BY <1>15 DEF ClockCancelled, Restart, BotStops, Kept, IsUninterruptible
<1>16. CASE AudioCancelled
  BY <1>16 DEF AudioCancelled, Restart, BotStops, AudioAlive
<1>17. CASE CancelAudio
  BY <1>17 DEF CancelAudio
<1>18. CASE CancelClock
  BY <1>18 DEF CancelClock
<1>19. CASE Interrupt
  BY <1>19 DEF Interrupt, Kept, IsUninterruptible
<1>20. CASE Cancel
  BY <1>20 DEF Cancel
<1>21. CASE \E k \in Kinds \cup {"end"} : Arrive(k)
  BY <1>21 DEF Arrive
<1>22. CASE UNCHANGED vars
  BY <1>22 DEF vars
<1> QED
  BY <1>1, <1>2, <1>3, <1>4, <1>5, <1>6, <1>7, <1>8, <1>9, <1>10, <1>11,
     <1>12, <1>13, <1>14, <1>15, <1>16, <1>17, <1>18, <1>19, <1>20, <1>21, <1>22
     DEF Next, ProcessTask, AudioTask, ClockTask, InputTask, Environment

LEMMA DoneStep ==
    ASSUME TypeOK, RangeInv, OrderInv, EndInv, CancelInv, DoneInv, [Next]_vars
    PROVE  DoneInv'
<1> USE FrameFacts DEF TypeOK, QueueType, TaskType, ArrivalType, RangeInv, OrderInv, EndInv, CancelInv, DoneInv, processorVars, audioVars, clockVars, arrivalVars
<1>1. CASE \E f \in incoming : HandOver(f)
  BY <1>1 DEF HandOver, IsHead, IsSync
<1>2. CASE \E f \in incoming : StopBegins(f)
  BY <1>2 DEF StopBegins, IsHead
<1>3. CASE StopAudioDone
  BY <1>3 DEF StopAudioDone, AudioAlive
<1>4. CASE StopClockDone
  BY <1>4 DEF StopClockDone
<1>5. CASE PushEnd
  BY <1>5 DEF PushEnd, IsSync
<1>6. CASE \E f \in audioQueue : BeginWrite(f)
  BY <1>6 DEF BeginWrite, Taking, IsHead, IsSlow, AudioRuns, IsSync
<1>7. CASE \E f \in audioQueue : PassOn(f)
  BY <1>7 DEF PassOn, Taking, IsHead, IsSlow, IsSync, AudioRuns, BotStops
<1>8. CASE \E f \in audioQueue : BeginSilence(f)
  BY <1>8 DEF BeginSilence, Taking, IsHead, AudioRuns
<1>9. CASE Written
  BY <1>9 DEF Written, AudioRuns
<1>10. CASE WriteFails
  BY <1>10 DEF WriteFails, AudioRuns
<1>11. CASE SilenceWritten
  BY <1>11 DEF SilenceWritten, AudioRuns
<1>12. CASE Fallback
  BY <1>12 DEF Fallback, AudioRuns, BotStops
<1>13. CASE \E f \in clockQueue : PushTimed(f)
  BY <1>13 DEF PushTimed, IsSync, ClockRuns
<1>14. CASE ClockEnds
  BY <1>14 DEF ClockEnds, ClockRuns
<1>15. CASE ClockCancelled
  BY <1>15 DEF ClockCancelled, Restart, BotStops, Kept, IsUninterruptible
<1>16. CASE AudioCancelled
  BY <1>16 DEF AudioCancelled, Restart, BotStops, AudioAlive
<1>17. CASE CancelAudio
  BY <1>17 DEF CancelAudio
<1>18. CASE CancelClock
  BY <1>18 DEF CancelClock
<1>19. CASE Interrupt
  BY <1>19 DEF Interrupt, Kept, IsUninterruptible
<1>20. CASE Cancel
  BY <1>20 DEF Cancel
<1>21. CASE \E k \in Kinds \cup {"end"} : Arrive(k)
  BY <1>21 DEF Arrive
<1>22. CASE UNCHANGED vars
  BY <1>22 DEF vars
<1> QED
  BY <1>1, <1>2, <1>3, <1>4, <1>5, <1>6, <1>7, <1>8, <1>9, <1>10, <1>11,
     <1>12, <1>13, <1>14, <1>15, <1>16, <1>17, <1>18, <1>19, <1>20, <1>21, <1>22
     DEF Next, ProcessTask, AudioTask, ClockTask, InputTask, Environment

LEMMA StopStep ==
    ASSUME TypeOK, RangeInv, OrderInv, EndInv, DoneInv, StopInv, [Next]_vars
    PROVE  StopInv'
<1> USE FrameFacts DEF TypeOK, QueueType, TaskType, ArrivalType, RangeInv, OrderInv, EndInv, DoneInv, StopInv, processorVars, audioVars, clockVars, arrivalVars, EndPushed
<1>1. CASE \E f \in incoming : HandOver(f)
  BY <1>1 DEF HandOver, IsHead, IsSync
<1>2. CASE \E f \in incoming : StopBegins(f)
  BY <1>2 DEF StopBegins, IsHead
<1>3. CASE StopAudioDone
  BY <1>3 DEF StopAudioDone, AudioAlive
<1>4. CASE StopClockDone
  BY <1>4 DEF StopClockDone
<1>5. CASE PushEnd
  BY <1>5 DEF PushEnd, IsSync
<1>6. CASE \E f \in audioQueue : BeginWrite(f)
  BY <1>6 DEF BeginWrite, Taking, IsHead, IsSlow, AudioRuns, IsSync
<1>7. CASE \E f \in audioQueue : PassOn(f)
  BY <1>7 DEF PassOn, Taking, IsHead, IsSlow, IsSync, AudioRuns, BotStops
<1>8. CASE \E f \in audioQueue : BeginSilence(f)
  BY <1>8 DEF BeginSilence, Taking, IsHead, AudioRuns
<1>9. CASE Written
  BY <1>9 DEF Written, AudioRuns
<1>10. CASE WriteFails
  BY <1>10 DEF WriteFails, AudioRuns
<1>11. CASE SilenceWritten
  BY <1>11 DEF SilenceWritten, AudioRuns
<1>12. CASE Fallback
  BY <1>12 DEF Fallback, AudioRuns, BotStops
<1>13. CASE \E f \in clockQueue : PushTimed(f)
  BY <1>13 DEF PushTimed, IsSync, ClockRuns
<1>14. CASE ClockEnds
  BY <1>14 DEF ClockEnds, ClockRuns
<1>15. CASE ClockCancelled
  BY <1>15 DEF ClockCancelled, Restart, BotStops, Kept, IsUninterruptible
<1>16. CASE AudioCancelled
  BY <1>16 DEF AudioCancelled, Restart, BotStops, AudioAlive
<1>17. CASE CancelAudio
  BY <1>17 DEF CancelAudio
<1>18. CASE CancelClock
  BY <1>18 DEF CancelClock
<1>19. CASE Interrupt
  BY <1>19 DEF Interrupt, Kept, IsUninterruptible
<1>20. CASE Cancel
  BY <1>20 DEF Cancel
<1>21. CASE \E k \in Kinds \cup {"end"} : Arrive(k)
  BY <1>21 DEF Arrive
<1>22. CASE UNCHANGED vars
  BY <1>22 DEF vars
<1> QED
  BY <1>1, <1>2, <1>3, <1>4, <1>5, <1>6, <1>7, <1>8, <1>9, <1>10, <1>11,
     <1>12, <1>13, <1>14, <1>15, <1>16, <1>17, <1>18, <1>19, <1>20, <1>21, <1>22
     DEF Next, ProcessTask, AudioTask, ClockTask, InputTask, Environment

LEMMA TypeStep ==
    ASSUME TypeOK, [Next]_vars
    PROVE  TypeOK'
BY QueueTypeStep, TaskTypeStep, HoldingStep DEF TypeOK

LEMMA IInvHolds == Spec => []IInv
<1>1. Init => IInv
  <2> SUFFICES ASSUME Init PROVE IInv
    OBVIOUS
  <2> USE FrameFacts DEF Init
  <2>1. TypeOK
    BY DEF TypeOK, QueueType, TaskType, ArrivalType
  <2>2. RangeInv /\ OrderInv /\ PushedInv
    BY DEF RangeInv, OrderInv, PushedInv
  <2>3. EndInv /\ ClearInv /\ SpeechInv /\ DoneInv
    BY DEF EndInv, ClearInv, SpeechInv, DoneInv
  <2>4. CancelInv /\ StopInv
    BY DEF CancelInv, StopInv, EndPushed
  <2> QED
    BY <2>1, <2>2, <2>3, <2>4 DEF IInv
<1>2. IInv /\ [Next]_vars => IInv'
  BY TypeStep, RangeStep, OrderStep, PushedStep, EndStep, ClearStep, SpeechStep,
     CancelStep, StopStep, DoneStep DEF IInv
<1> QED
  BY <1>1, <1>2, PTL DEF Spec

\* The four ways in which a frame leaves.
LEMMA Leaving ==
    ASSUME [Next]_vars, pushed' # pushed
    PROVE  \/ PushEnd \/ Written
           \/ \E f \in audioQueue : PassOn(f)
           \/ \E f \in clockQueue : PushTimed(f)
<1>1. CASE UNCHANGED vars
  BY <1>1 DEF vars
<1>2. CASE ProcessTask
  BY <1>2 DEF ProcessTask, HandOver, StopBegins, StopAudioDone, StopClockDone
<1>3. CASE AudioTask
  BY <1>3 DEF AudioTask, WriteFails, SilenceWritten, Fallback, BeginWrite,
     BeginSilence
<1>4. CASE ClockTask
  BY <1>4 DEF ClockTask, ClockEnds
<1>5. CASE InputTask
  BY <1>5 DEF InputTask, ClockCancelled, AudioCancelled, CancelAudio, CancelClock
<1>6. CASE Environment
  BY <1>6 DEF Environment, Interrupt, Cancel, Arrive
<1> QED
  BY <1>1, <1>2, <1>3, <1>4, <1>5, <1>6 DEF Next

-----------------------------------------------------------------------------
(* Theorems.                                                               *)

\* The sender's state has its types, and a frame is held exactly while the
\* audio task writes it.
THEOREM SenderTypeCorrect == Spec => []TypeOK
<1>1. IInv => TypeOK
  BY DEF IInv
<1> QED
  BY <1>1, IInvHolds, PTL

\* When handle_interruptions() is over, only uninterruptible frames are left of
\* those that arrived before the interruption.
THEOREM InterruptionsClear == Spec => []InterruptionClears
<1>1. IInv => InterruptionClears
  BY DEF IInv, ClearInv, InterruptionClears
<1> QED
  BY <1>1, IInvHolds, PTL

\* Frames without a time leave in the order in which they arrived, across any
\* number of interruptions.
THEOREM SyncFramesInOrder == Spec => SyncOrder
<1> DEFINE Ordered == \A f \in pushed' \ pushed : IsSync(f) =>
                         \A g \in pushed : IsSync(g) => g.id < f.id
<1>1. IInv /\ [Next]_vars => [Ordered]_vars
  <2> SUFFICES ASSUME IInv, [Next]_vars PROVE Ordered
    OBVIOUS
  <2> USE FrameFacts DEF IInv, TypeOK, QueueType, PushedInv
  <2>1. CASE PushEnd
    BY <2>1 DEF PushEnd, IsSync
  <2>2. CASE Written
    BY <2>2 DEF Written
  <2>3. CASE \E f \in audioQueue : PassOn(f)
    BY <2>3 DEF PassOn
  <2>4. CASE \E f \in clockQueue : PushTimed(f)
    BY <2>4 DEF PushTimed, IsSync
  <2> QED
    BY <2>1, <2>2, <2>3, <2>4, Leaving
<1> QED
  BY <1>1, IInvHolds, PTL DEF Spec, SyncOrder

\* Audio leaves only during a turn of the bot, apart from what an interruption
\* found being written.
THEOREM SpeechInTurns == Spec => SpokenInTurn
<1> DEFINE InTurn == \A f \in pushed' \ pushed : f.kind = "chunk" =>
                        botSpeaking \/ f.id <= cut
<1>1. IInv /\ [Next]_vars => [InTurn]_vars
  <2> SUFFICES ASSUME IInv, [Next]_vars PROVE InTurn
    OBVIOUS
  <2> USE FrameFacts DEF IInv, SpeechInv
  <2>1. CASE PushEnd
    BY <2>1 DEF PushEnd
  <2>2. CASE Written
    BY <2>2 DEF Written
  <2>3. CASE \E f \in audioQueue : PassOn(f)
    BY <2>3 DEF PassOn, IsSlow
  <2>4. CASE \E f \in clockQueue : PushTimed(f)
    BY <2>4 DEF PushTimed
  <2> QED
    BY <2>1, <2>2, <2>3, <2>4, Leaving
<1> QED
  BY <1>1, IInvHolds, PTL DEF Spec, SpokenInTurn

\* Nothing is played after the CancelFrame.
THEOREM NothingPlayedAfterCancel == Spec => CancelSilences
<1> DEFINE Silent == cancelled /\ input # "cancelAudio" =>
                        \A f \in pushed' \ pushed : f.kind # "chunk"
<1>1. IInv /\ [Next]_vars => [Silent]_vars
  <2> SUFFICES ASSUME IInv, [Next]_vars PROVE Silent
    OBVIOUS
  <2> USE FrameFacts DEF IInv, CancelInv, NoChunk
  <2>1. CASE PushEnd
    BY <2>1 DEF PushEnd
  <2>2. CASE Written
    BY <2>2 DEF Written
  <2>3. CASE \E f \in audioQueue : PassOn(f)
    BY <2>3 DEF PassOn, IsSlow
  <2>4. CASE \E f \in clockQueue : PushTimed(f)
    BY <2>4 DEF PushTimed
  <2> QED
    BY <2>1, <2>2, <2>3, <2>4, Leaving
<1> QED
  BY <1>1, IInvHolds, PTL DEF Spec, CancelSilences

\* The EndFrame leaves last, and when the queues are empty unless a task is
\* cancelled or has died.
THEOREM EndFrameLast == Spec => EndLast
<1> DEFINE Last ==
      /\ (\E f \in pushed : f.kind = "end") => pushed' = pushed
      /\ (\E f \in pushed' \ pushed : f.kind = "end") =>
            \/ cancelled \/ audio = "died" \/ input = "audio"
            \/ audioQueue = {} /\ clockQueue = {}
<1>1. IInv /\ [Next]_vars => [Last]_vars
  <2> SUFFICES ASSUME IInv, [Next]_vars, pushed' # pushed PROVE Last
    OBVIOUS
  <2> USE FrameFacts DEF IInv, EndInv, StopInv, DoneInv, EndPushed
  <2>1. CASE PushEnd
    BY <2>1 DEF PushEnd, TypeOK, TaskType
  <2>2. CASE Written
    BY <2>2 DEF Written
  <2>3. CASE \E f \in audioQueue : PassOn(f)
    BY <2>3 DEF PassOn, Taking, IsHead
  <2>4. CASE \E f \in clockQueue : PushTimed(f)
    BY <2>4 DEF PushTimed
  <2> QED
    BY <2>1, <2>2, <2>3, <2>4, Leaving
<1> QED
  BY <1>1, IInvHolds, PTL DEF Spec, EndLast

-----------------------------------------------------------------------------
(* The state half of TurnsEnd, and of what stop() waits for.               *)

\* An EndFrame that has arrived is queued, in the hands of stop(), or pushed; stop() waits
\* for an audio task and a clock task that have the EndFrame before them; and an audio
\* task that is alive writes, finds its queue empty, or finds a first frame in it, so that
\* the bot's turn can end.  Only a CancelFrame, or an interruption that came after the
\* EndFrame (cut = arrived), excuses the first and the clock task.
StopIsHeard ==
    /\ ending =>
          \/ \E f \in incoming : f.kind = "end"
          \/ process \in {"stopAudio", "stopClock", "pushing"} \/ EndPushed
          \/ cut = arrived \/ cancelled
    /\ process = "stopAudio" /\ AudioAlive =>
          audio = "silence" \/ \E f \in audioQueue : f.kind = "end"
    /\ process \in {"stopAudio", "stopClock"} /\ clock = "running" =>
          \/ \E f \in clockQueue : f.kind = "end"
          \/ cut = arrived
    /\ audioQueue # {} => \E f \in audioQueue : IsHead(f, audioQueue)

HeardInv ==
    /\ ending =>
          \/ \E f \in incoming : f.kind = "end"
          \/ process \in {"stopAudio", "stopClock", "pushing"} \/ EndPushed
          \/ cut = arrived \/ cancelled
    /\ process = "stopAudio" /\ AudioAlive =>
          audio = "silence" \/ \E f \in audioQueue : f.kind = "end"
    /\ process \in {"stopAudio", "stopClock"} /\ clock = "running" =>
          \/ \E f \in clockQueue : f.kind = "end"
          \/ cut = arrived

\* A queue that is not empty has a first frame.
LEMMA QueueHead ==
    ASSUME TypeOK, audioQueue # {}
    PROVE  \E f \in audioQueue : IsHead(f, audioQueue)
<1> DEFINE Numbers == {f.id : f \in audioQueue}
<1>1. Numbers \in SUBSET Nat /\ Numbers # {}
  BY FrameFacts DEF TypeOK, QueueType
<1>2. \A f \in audioQueue : f.id \in Numbers
  OBVIOUS
<1>3. PICK n \in Numbers : \A m \in Numbers : ~(<<m, n>> \in OpToRel(<, Nat))
  <2> HIDE DEF Numbers
  <2> QED
    BY <1>1, WFMin, NatLessThanWellFounded
<1>4. \A m \in Numbers : ~(m < n)
  <2> HIDE DEF Numbers
  <2> QED
    BY <1>1, <1>3 DEF OpToRel
<1>5. PICK f \in audioQueue : f.id = n
  OBVIOUS
<1>6. ASSUME NEW g \in audioQueue PROVE n <= g.id
  <2>1. g.id \in Numbers
    BY <1>2
  <2>2. n \in Nat /\ g.id \in Nat /\ ~(g.id < n)
    <3> HIDE DEF Numbers
    <3> QED
      BY <1>1, <1>3, <1>4, <2>1
  <2> QED
    BY <2>2
<1> QED
  BY <1>5, <1>6 DEF IsHead

LEMMA HeardStep ==
    ASSUME IInv, HeardInv, [Next]_vars
    PROVE  HeardInv'
<1> USE FrameFacts DEF HeardInv, AudioAlive, EndPushed, processorVars, audioVars,
        clockVars, arrivalVars
<1>1. CASE \E f \in incoming : HandOver(f)
  BY <1>1 DEF HandOver
<1>2. CASE \E f \in incoming : StopBegins(f)
  BY <1>2 DEF StopBegins
<1>3. CASE StopAudioDone \/ StopClockDone
  BY <1>3 DEF StopAudioDone, StopClockDone
<1>4. CASE PushEnd
  <2>1. \E f \in pushed' : f.kind = "end"
    <3> DEFINE e == [id |-> arrived, kind |-> "end"]
    <3>1. e \in pushed' /\ e.kind = "end"
      BY <1>4 DEF PushEnd
    <3> QED
      BY <3>1
  <2> QED
    BY <1>4, <2>1 DEF PushEnd
<1>5. CASE \E f \in audioQueue : BeginWrite(f)
  BY <1>5 DEF BeginWrite, Taking, IsSlow
<1>6. CASE \E f \in audioQueue : PassOn(f)
  BY <1>6 DEF PassOn, Taking
<1>7. CASE \E f \in audioQueue : BeginSilence(f)
  BY <1>7 DEF BeginSilence, Taking
<1>8. CASE Written
  BY <1>8 DEF Written
<1>9. CASE WriteFails \/ SilenceWritten
  BY <1>9 DEF WriteFails, SilenceWritten
<1>10. CASE Fallback
  BY <1>10 DEF Fallback
<1>11. CASE \E f \in clockQueue : PushTimed(f)
  BY <1>11 DEF PushTimed
<1>12. CASE ClockEnds
  BY <1>12 DEF ClockEnds
<1>13. CASE ClockCancelled
  BY <1>13 DEF ClockCancelled, Restart, Kept, IsUninterruptible, IInv, RangeInv
<1>14. CASE AudioCancelled
  BY <1>14 DEF AudioCancelled, Restart, IInv, RangeInv
<1>15. CASE CancelAudio \/ CancelClock
  BY <1>15 DEF CancelAudio, CancelClock
<1>16. CASE Interrupt
  BY <1>16 DEF Interrupt
<1>17. CASE Cancel
  BY <1>17 DEF Cancel
<1>18. CASE \E kind \in Kinds \cup {"end"} : Arrive(kind)
  <2>1. PICK kind \in Kinds \cup {"end"} : Arrive(kind)
    BY <1>18
  <2> DEFINE e == [id |-> arrived + 1, kind |-> kind]
  <2>2. e.kind = kind /\ incoming' = incoming \cup {e}
    BY <2>1 DEF Arrive
  <2>3. process \notin {"stopAudio", "stopClock", "pushing"}
    BY <2>1 DEF Arrive, IInv, StopInv
  <2> HIDE DEF e
  <2>4. ending' => \E f \in incoming' : f.kind = "end"
    BY <2>1, <2>2 DEF Arrive
  <2> QED
    BY <2>1, <2>3, <2>4 DEF Arrive
<1>19. CASE UNCHANGED vars
  BY <1>19 DEF vars
<1> QED
  BY <1>1, <1>2, <1>3, <1>4, <1>5, <1>6, <1>7, <1>8, <1>9, <1>10, <1>11, <1>12, <1>13,
     <1>14, <1>15, <1>16, <1>17, <1>18, <1>19
     DEF Next, ProcessTask, AudioTask, ClockTask, InputTask, Environment

\* For any frames and any number of interruptions: stop() and the bot's turn wait for
\* tasks that can still do what they wait for.
THEOREM EndFrameIsHeard == Spec => []StopIsHeard
<1>1. Init => HeardInv
  BY DEF Init, HeardInv
<1>2. IInv /\ HeardInv /\ [Next]_vars => HeardInv'
  BY HeardStep
<1>3. IInv /\ HeardInv => StopIsHeard
  BY QueueHead DEF IInv, HeardInv, StopIsHeard
<1> QED
  BY <1>1, <1>2, <1>3, IInvHolds, PTL DEF Spec
=============================================================================
