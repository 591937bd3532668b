--------------------------- MODULE UserTurnProofs ---------------------------
(***************************************************************************)
(* Theorems about the user turns, for any number of timers.                *)
(*                                                                         *)
(* The operators of UserTurn map states to states, so the proof goes       *)
(* through them in the order in which they are built: from a state that is *)
(* sound for the task that runs, each one leads to a state that is sound   *)
(* when the task awaits something or has ended.  Sound says as well that   *)
(* tasks wait in lines behind cancelled timers, so that one can go on.     *)
(***************************************************************************)
EXTENDS UserTurn, FiniteSetTheorems, WellFoundedInduction, TLAPS

Doing == [at : {"rest", "speech", "stt", "again", "final", "slept"},
          job : Job,
          on : Timers \cup {NoTimer},
          after : SUBSET Agents]
State == [turn : BOOLEAN, speaking : BOOLEAN, vad : BOOLEAN, paused : BOOLEAN,
          text : BOOLEAN, final : BOOLEAN, speechDone : BOOLEAN, sttDone : BOOLEAN,
          speechTask : SpeechTimers \cup {NoTimer},
          sttTask : SttTimers \cup {NoTimer},
          timer : [Timers -> {"free", "runs", "due", "cancelled", "fires"}],
          overdue : BOOLEAN, unpushed : BOOLEAN,
          doing : [Agents -> Doing]]

\* A handle names a task that waits or is cancelled, never one that has begun
\* to end the turn, so that no such task is cancelled.
HandlesWait(s) ==
    /\ s.speechTask # NoTimer => s.timer[s.speechTask] \in {"runs", "due", "cancelled"}
    /\ s.sttTask # NoTimer => s.timer[s.sttTask] \in {"runs", "due", "cancelled"}
\* The task of a timer awaits something only once the timer has fired.
FiredAwait(s) == \A i \in Timers : s.doing[i].at # "rest" => s.timer[i] = "fires"
\* A task that ends a turn awaits the timers of _cancel_all_tasks.
StopsAwait(s) == \A a \in Agents : s.doing[a].job = "stop" => s.doing[a].at \in {"speech", "stt"}
\* A task awaits timers that were cancelled, and of those that await the same timer
\* the ones that came first go on first.
Waiting == {"speech", "stt", "again", "final"}
LinesUp(s) ==
    /\ \A a \in Agents :
          /\ s.doing[a].at \in Waiting <=> s.doing[a].on # NoTimer
          /\ s.doing[a].on # NoTimer => s.timer[s.doing[a].on] \in {"cancelled", "free"}
    /\ \A a \in Agents :
          s.doing[a].on # NoTimer =>
             /\ a \notin s.doing[a].after
             /\ \A b \in s.doing[a].after :
                   /\ s.timer[s.doing[a].on] # "free" => s.doing[b].on = s.doing[a].on
                   /\ s.doing[b].on = s.doing[a].on =>
                         \A c \in s.doing[b].after :
                            s.doing[c].on = s.doing[a].on => c \in s.doing[a].after
\* Only the input task lets the loop come round before it goes on.
Dozes(s) ==
    \A a \in Agents :
        s.doing[a].at = "slept" \/ s.doing[a].job = "paused" => a = InputTask
Shape(s) ==
    /\ s \in State /\ HandlesWait(s) /\ FiredAwait(s) /\ StopsAwait(s)
    /\ LinesUp(s) /\ Dozes(s)

\* Words that are not pushed belong to an open turn or to a task that ends one.
Owned(s) == s.unpushed => s.turn \/ \E b \in Agents : s.doing[b].job = "stop"

\* A timer that has fired awaits something, or it is the one that runs.
Busy(s) == \A i \in Timers : s.timer[i] = "fires" => s.doing[i].at # "rest"

\* What holds while no task runs, and while a runs.
Sound(s) == Shape(s) /\ Owned(s) /\ Busy(s)
Runs(s, a) ==
    /\ Shape(s) /\ a \in Agents
    /\ a \in Timers => s.timer[a] = "fires"
    /\ s.doing[a].job # "stop" /\ s.doing[a].on = NoTimer
    /\ \A i \in Timers \ {a} : s.timer[i] = "fires" => s.doing[i].at # "rest"
\* What it does for the job it goes on with: the end of a turn owns the words.
GoesOn(s, a, job) ==
    /\ Runs(s, a) /\ job \in Job
    /\ job = "stop" \/ Owned(s)
    /\ job = "paused" => a = InputTask

-----------------------------------------------------------------------------

\* The kinds of timers and the tasks of the processor are all distinct.
LEMMA Distinct ==
    /\ SpeechTimers \cap SttTimers = {}
    /\ NoTimer \notin Timers
    /\ SpeechTimers \subseteq Timers /\ SttTimers \subseteq Timers /\ Timers \subseteq Agents
    /\ InputTask \in Agents \ Timers /\ ProcessTask \in Agents \ Timers
    /\ Watchdog \in Agents \ Timers
BY TurnAssumption DEF SpeechTimers, SttTimers, Timers, Agents, NoTimer, InputTask,
   ProcessTask, Watchdog

\* A task that has ended leaves a sound state.
LEMMA EndedSound ==
    ASSUME NEW s, NEW a, Runs(s, a), Owned(s)
    PROVE  Sound(Ended(s, a))
<1> DEFINE r == Ended(s, a)
<1>1. s \in State /\ a \in Agents BY DEF Runs, Shape
<1>2. /\ r.doing = [s.doing EXCEPT ![a] = Rest]
      /\ r.timer = [i \in Timers |-> IF i = a THEN "free" ELSE s.timer[i]]
      /\ r.turn = s.turn /\ r.unpushed = s.unpushed
      /\ r.speechTask = s.speechTask /\ r.sttTask = s.sttTask
  BY <1>1 DEF Ended, State
<1>3. Rest \in Doing
  BY DEF Rest, Doing, Job
<1>4. r \in State
  BY <1>1, <1>3 DEF Ended, State
<1>5. HandlesWait(r)
  BY <1>1, <1>2, Distinct DEF Runs, Shape, HandlesWait, State
<1>6. FiredAwait(r)
  BY <1>1, <1>2, Distinct DEF Runs, Shape, FiredAwait, State, Rest
<1>7. StopsAwait(r)
  BY <1>1, <1>2 DEF Runs, Shape, StopsAwait, State, Rest
<1>8. Owned(r)
  BY <1>1, <1>2 DEF Owned, Runs, State
<1>9. LinesUp(r)
  <2>1. Rest.on = NoTimer /\ Rest.at \notin Waiting
    BY DEF Rest, Waiting
  <2>2. /\ \A b \in Agents \ {a} : r.doing[b] = s.doing[b]
        /\ r.doing[a] = Rest /\ s.doing[a].on = NoTimer
    BY <1>1, <1>2 DEF Runs, State
  <2>3. \A b \in Agents : s.doing[b].on # NoTimer =>
           /\ s.doing[b].on \in Timers /\ s.doing[b].after \subseteq Agents
           /\ r.timer[s.doing[b].on] = s.timer[s.doing[b].on]
    BY <1>1, <1>2 DEF Runs, Shape, LinesUp, State, Doing
  <2> QED
    BY <2>1, <2>2, <2>3 DEF Runs, Shape, LinesUp
<1>10. Dozes(r) /\ Busy(r)
  BY <1>1, <1>2 DEF Runs, Shape, Dozes, Busy, State, Rest
<1> QED
  BY <1>4, <1>5, <1>6, <1>7, <1>8, <1>9, <1>10 DEF Sound, Shape

\* So does a task that awaits the cancelled task of a handle.
LEMMA AwaitSound ==
    ASSUME NEW s, NEW a, NEW at, NEW job, NEW i, GoesOn(s, a, job),
           i \in {s.speechTask, s.sttTask}, i # NoTimer,
           at \in {"speech", "stt", "again", "final"},
           job = "stop" => at \in {"speech", "stt"}
    PROVE  Sound(Await(s, a, at, job, i))
<1> DEFINE r == Await(s, a, at, job, i)
           d == [at |-> at, job |-> job, on |-> i, after |-> {b \in Agents : s.doing[b].on = i}]
<1>1. s \in State /\ a \in Agents /\ i \in Timers
  BY Distinct DEF GoesOn, Runs, Shape, State
<1>2. /\ r.doing = [s.doing EXCEPT ![a] = d]
      /\ r.timer = [s.timer EXCEPT ![i] = "cancelled"]
      /\ r.turn = s.turn /\ r.unpushed = s.unpushed
      /\ r.speechTask = s.speechTask /\ r.sttTask = s.sttTask
  BY <1>1 DEF Await, State
<1>3. d \in Doing /\ d.at = at /\ d.job = job
  BY <1>1 DEF GoesOn, Doing
<1>d. d.on = i /\ d.after = {b \in Agents : s.doing[b].on = i}
  OBVIOUS
<1> HIDE DEF d
<1>4. r.doing \in [Agents -> Doing] /\ r.timer \in [Timers -> {"free", "runs", "due", "cancelled", "fires"}]
  BY <1>1, <1>2, <1>3 DEF State
<1>5. r \in State
  BY <1>1, <1>4 DEF Await, State
<1>6. HandlesWait(r)
  BY <1>1, <1>2, Distinct DEF GoesOn, Runs, Shape, HandlesWait, State
<1>7. s.timer[i] # "fires" /\ i # a
  BY <1>1 DEF GoesOn, Runs, Shape, HandlesWait
<1>8. FiredAwait(r)
  BY <1>1, <1>2, <1>7, Distinct DEF GoesOn, Runs, Shape, FiredAwait, State
<1>9. StopsAwait(r)
  BY <1>1, <1>2, <1>3 DEF GoesOn, Runs, Shape, StopsAwait, State
<1>10. Owned(r)
  BY <1>1, <1>2, <1>3 DEF GoesOn, Owned, Runs, State
<1>11. LinesUp(r)
  <2>1. /\ \A b \in Agents \ {a} : r.doing[b] = s.doing[b]
        /\ r.doing[a] = d /\ s.doing[a].on = NoTimer
        /\ r.timer[i] = "cancelled"
        /\ \A j \in Timers \ {i} : r.timer[j] = s.timer[j]
    BY <1>1, <1>2 DEF GoesOn, Runs, State
  <2>2. LinesUp(s) /\ s.timer[i] # "free" /\ i # NoTimer
    BY <1>1 DEF GoesOn, Runs, Shape, HandlesWait
  <2>3. \A b \in Agents : /\ s.doing[b].on \in Timers \cup {NoTimer}
                          /\ s.doing[b].after \subseteq Agents
    BY <1>1 DEF State, Doing
  <2>4. /\ \A b \in Agents :
              /\ r.doing[b].at \in Waiting <=> r.doing[b].on # NoTimer
              /\ r.doing[b].on # NoTimer => r.timer[r.doing[b].on] \in {"cancelled", "free"}
    BY <1>3, <1>d, <2>1, <2>2, <2>3 DEF LinesUp, Waiting
  <2>5. ASSUME NEW b \in Agents, r.doing[b].on # NoTimer
        PROVE  /\ b \notin r.doing[b].after
               /\ \A c \in r.doing[b].after :
                     /\ r.timer[r.doing[b].on] # "free" => r.doing[c].on = r.doing[b].on
                     /\ r.doing[c].on = r.doing[b].on =>
                           \A e \in r.doing[c].after :
                              r.doing[e].on = r.doing[b].on => e \in r.doing[b].after
    <3>1. CASE b = a
      BY <1>d, <2>1, <2>2, <2>3, <3>1 DEF LinesUp
    <3>2. CASE b # a
      BY <1>d, <2>1, <2>2, <2>3, <2>5, <3>2 DEF LinesUp
    <3> QED
      BY <3>1, <3>2
  <2> QED
    BY <2>4, <2>5 DEF LinesUp
<1>12. Dozes(r) /\ Busy(r)
  BY <1>1, <1>2, <1>3, <1>7 DEF GoesOn, Runs, Shape, Dozes, Busy, State
<1> QED
  BY <1>5, <1>6, <1>8, <1>9, <1>10, <1>11, <1>12 DEF Sound, Shape

\* Cancelling the timers: done is what follows if none runs.
LEMMA CancelSttSound ==
    ASSUME NEW s, NEW a, NEW job, NEW done, GoesOn(s, a, job), Sound(done)
    PROVE  Sound(CancelStt(s, a, job, done))
BY AwaitSound DEF CancelStt

LEMMA CancelAllSound ==
    ASSUME NEW s, NEW a, NEW job, NEW done, GoesOn(s, a, job), Sound(done)
    PROVE  Sound(CancelAll(s, a, job, done))
BY AwaitSound, CancelSttSound DEF CancelAll

-----------------------------------------------------------------------------
(* The end of a turn *)

\* A change of the flags alone disturbs neither the tasks nor the timers.
SameTasks(r, s) ==
    /\ r.speechTask = s.speechTask /\ r.sttTask = s.sttTask
    /\ r.timer = s.timer /\ r.doing = s.doing

LEMMA SameTasksRuns ==
    ASSUME NEW s, NEW r, NEW a, Runs(s, a), r \in State, SameTasks(r, s)
    PROVE  Runs(r, a)
BY DEF Runs, Shape, HandlesWait, FiredAwait, StopsAwait, LinesUp, Dozes, SameTasks

LEMMA ResetRuns ==
    ASSUME NEW s, NEW a, Runs(s, a)
    PROVE  /\ Runs(Reset(s), a)
           /\ Reset(s).turn = s.turn /\ Reset(s).unpushed = s.unpushed
           /\ Reset(s).doing = s.doing
<1>1. Reset(s) \in State
  BY DEF Runs, Shape, State, Reset
<1>2. SameTasks(Reset(s), s) /\ Reset(s).turn = s.turn /\ Reset(s).unpushed = s.unpushed
  BY DEF Runs, Shape, State, Reset, SameTasks
<1> QED
  BY <1>1, <1>2, SameTasksRuns DEF SameTasks

\* The end of a turn pushes what is left, whoever owned it.
LEMMA StoppedSound ==
    ASSUME NEW s, NEW a, Runs(s, a)
    PROVE  Sound(Stopped(s, a))
<1> DEFINE r == [s EXCEPT !.unpushed = FALSE]
<1>1. r \in State /\ SameTasks(r, s) /\ r.unpushed = FALSE
  BY DEF Runs, Shape, State, SameTasks
<1>2. Runs(r, a)
  BY <1>1, SameTasksRuns
<1>3. Owned(r)
  BY <1>1 DEF Owned
<1> QED
  BY <1>2, <1>3, EndedSound DEF Stopped

LEMMA StopSound ==
    ASSUME NEW s, NEW a, Runs(s, a), Owned(s)
    PROVE  Sound(Stop(s, a))
<1>1. CASE s.turn
  <2> DEFINE q == [s EXCEPT !.turn = FALSE]
             r == Reset(q)
  <2>1. q \in State /\ SameTasks(q, s)
    BY DEF Runs, Shape, State, SameTasks
  <2>2. Runs(r, a)
    BY <2>1, SameTasksRuns, ResetRuns
  <2>3. Sound(Stopped(r, a)) /\ GoesOn(r, a, "stop")
    BY <2>2, StoppedSound DEF GoesOn, Job
  <2> HIDE DEF r
  <2>4. Sound(CancelAll(r, a, "stop", Stopped(r, a)))
    BY <2>3, CancelAllSound
  <2> QED
    BY <1>1, <2>4 DEF Stop, r
<1>2. CASE ~s.turn
  BY <1>2, EndedSound DEF Stop
<1> QED
  BY <1>1, <1>2

LEMMA TriggerSound ==
    ASSUME NEW s, NEW a, Runs(s, a), Owned(s)
    PROVE  Sound(Trigger(s, a))
<1> DEFINE kept == s.unpushed /\ ~s.turn
<1>0. kept \in BOOLEAN /\ Infer(s) = [s EXCEPT !.unpushed = kept]
  BY DEF Infer
<1>1. Infer(s) \in State /\ SameTasks(Infer(s), s)
  <2> HIDE DEF kept
  <2> QED BY <1>0 DEF Runs, Shape, State, SameTasks
<1>2. Owned(Infer(s))
  BY <1>0 DEF Runs, Shape, State, Infer, Owned
<1>3. Sound(Stop(Infer(s), a))
  BY <1>1, <1>2, SameTasksRuns, StopSound
<1> QED
  BY <1>3, EndedSound DEF Trigger

-----------------------------------------------------------------------------
(* What the strategy does with the frames *)

\* A new timer was not in use, so nobody awaits it or ends with it.
LEMMA NewTimerUnused ==
    ASSUME NEW s, Room(s)
    PROVE  /\ NewTimer(s, SpeechTimers) \in SpeechTimers /\ Unused(s, NewTimer(s, SpeechTimers))
           /\ NewTimer(s, SttTimers) \in SttTimers /\ Unused(s, NewTimer(s, SttTimers))
BY DEF Room, NewTimer

LEMMA ArmSound ==
    ASSUME NEW s, NEW a, NEW job, Runs(s, a), Owned(s), Room(s), job \in Job, job # "stop",
           job = "paused" => a = InputTask
    PROVE  Sound(Arm(s, a, job))
<1> DEFINE i == NewTimer(s, SpeechTimers)
           r == [s EXCEPT !.speechDone = FALSE, !.timer[i] = "runs", !.speechTask = i]
           d == [Rest EXCEPT !.at = "slept", !.job = job]
           q == [r EXCEPT !.doing[a] = d]
<1>1. /\ i \in SpeechTimers /\ i \in Timers /\ s.timer[i] = "free"
      /\ \A b \in Agents : s.doing[b].on # i
  BY NewTimerUnused, Distinct DEF Unused
<1> HIDE DEF i
<1>2. s \in State /\ a \in Agents
  BY DEF Runs, Shape
<1>3. /\ r.timer = [s.timer EXCEPT ![i] = "runs"] /\ r.doing = s.doing
      /\ r.speechTask = i /\ r.sttTask = s.sttTask
      /\ r.turn = s.turn /\ r.unpushed = s.unpushed
  BY <1>2 DEF State
<1>4. r \in State
  BY <1>1, <1>2 DEF State
<1>5. HandlesWait(r)
  BY <1>1, <1>2, <1>3, Distinct DEF Runs, Shape, HandlesWait, State
<1>6. FiredAwait(r) /\ StopsAwait(r)
  BY <1>1, <1>2, <1>3 DEF Runs, Shape, FiredAwait, StopsAwait, State
<1>7. a # i /\ (a \in Timers => r.timer[a] = "fires")
  BY <1>1, <1>2, <1>3 DEF Runs, State
<1>16. LinesUp(r) /\ Dozes(r)
  <2>1. \A b \in Agents : s.doing[b].on # NoTimer =>
           /\ s.doing[b].on \in Timers /\ s.doing[b].after \subseteq Agents
           /\ r.timer[s.doing[b].on] = s.timer[s.doing[b].on]
    BY <1>1, <1>2, <1>3 DEF State, Doing
  <2> QED
    BY <1>3, <2>1 DEF Runs, Shape, LinesUp, Dozes
<1>17. \A j \in Timers \ {a} : r.timer[j] = "fires" => r.doing[j].at # "rest"
  BY <1>1, <1>2, <1>3 DEF Runs, State
<1>8. Runs(r, a) /\ Owned(r)
  BY <1>2, <1>3, <1>4, <1>5, <1>6, <1>7, <1>16, <1>17 DEF Runs, Shape, Owned
<1>9. Sound(Ended(r, a))
  BY <1>8, EndedSound
<1>10. d \in Doing /\ d.at = "slept" /\ d.job = job /\ d.on = NoTimer
  BY DEF Rest, Doing, Job
<1> HIDE DEF d, r
<1>11. q.doing = [r.doing EXCEPT ![a] = d] /\ q.timer = r.timer /\ q.turn = r.turn
       /\ q.unpushed = r.unpushed /\ q.speechTask = r.speechTask /\ q.sttTask = r.sttTask
  BY <1>4 DEF State
<1>12. q \in State
  BY <1>4, <1>10 DEF State
<1>13. HandlesWait(q) /\ FiredAwait(q) /\ StopsAwait(q)
  BY <1>4, <1>5, <1>6, <1>7, <1>10, <1>11, <1>2, Distinct
     DEF HandlesWait, FiredAwait, StopsAwait, State
<1>14. Owned(q)
  BY <1>8, <1>10, <1>11, <1>2, <1>4 DEF Owned, Runs, State
<1>18. LinesUp(q)
  <2>1. /\ \A b \in Agents \ {a} : q.doing[b] = r.doing[b]
        /\ q.doing[a] = d /\ r.doing[a].on = NoTimer /\ d.at \notin Waiting
    BY <1>2, <1>4, <1>8, <1>10, <1>11 DEF Runs, State, Waiting
  <2>2. \A b \in Agents : r.doing[b].after \subseteq Agents
    BY <1>4 DEF State, Doing
  <2> QED
    BY <1>10, <1>11, <1>16, <2>1, <2>2 DEF LinesUp
<1>19. (job = "paused" => Dozes(q)) /\ Busy(q)
  BY <1>2, <1>4, <1>8, <1>10, <1>11, <1>16, <1>17, Distinct DEF Dozes, Busy, State
<1>15. job = "paused" => Sound(q)
  BY <1>12, <1>13, <1>14, <1>18, <1>19 DEF Sound, Shape
<1> QED
  BY <1>9, <1>15 DEF Arm, d, r, i

LEMMA RestartSound ==
    ASSUME NEW s, NEW a, NEW job, Runs(s, a), Owned(s), Room(s), job \in Job, job # "stop",
           job = "paused" => a = InputTask
    PROVE  Sound(Restart(s, a, job))
BY AwaitSound, ArmSound DEF Restart, GoesOn

LEMMA SpeechSound ==
    ASSUME NEW s, NEW a, Runs(s, a), Owned(s)
    PROVE  Sound(Speech(s, a))
<1> DEFINE r == [s EXCEPT !.vad = TRUE, !.final = FALSE, !.paused = FALSE,
                          !.speechDone = FALSE, !.sttDone = FALSE]
<1>1. r \in State /\ SameTasks(r, s) /\ r.turn = s.turn /\ r.unpushed = s.unpushed
  BY DEF Runs, Shape, State, SameTasks
<1>2. Runs(r, a) /\ Owned(r)
  BY <1>1, SameTasksRuns DEF Owned, SameTasks
<1>3. Sound(Ended(r, a)) /\ GoesOn(r, a, "speech")
  BY <1>2, EndedSound DEF GoesOn, Job
<1> HIDE DEF r
<1>4. Sound(CancelAll(r, a, "speech", Ended(r, a)))
  BY <1>3, CancelAllSound
<1> QED
  BY <1>4 DEF Speech, r

LEMMA DecideSound ==
    ASSUME NEW s, NEW a, Runs(s, a), Owned(s), Room(s)
    PROVE  Sound(Decide(s, a))
<1> DEFINE r == [s EXCEPT !.sttDone = TRUE]
<1>1. r \in State /\ SameTasks(r, s) /\ r.turn = s.turn /\ r.unpushed = s.unpushed
  BY DEF Runs, Shape, State, SameTasks
<1>2. Runs(r, a) /\ Owned(r) /\ Room(r)
  BY <1>1, SameTasksRuns DEF Owned, SameTasks, Room, Unused
<1> HIDE DEF r
<1>3. Sound(Restart(r, a, "fallback"))
  BY <1>2, RestartSound DEF Job
<1> QED
  BY <1>3, TriggerSound, EndedSound DEF Decide, r

LEMMA HeardSound ==
    ASSUME NEW s, NEW a, NEW isFinal \in BOOLEAN, Runs(s, a), Owned(s), Room(s)
    PROVE  Sound(Heard(s, a, isFinal))
<1> DEFINE r == [s EXCEPT !.text = TRUE, !.final = @ \/ isFinal, !.sttDone = @ \/ isFinal]
           final == s.final \/ isFinal
           done == s.sttDone \/ isFinal
<1>0. /\ final \in BOOLEAN /\ done \in BOOLEAN
      /\ r = [s EXCEPT !.text = TRUE, !.final = final, !.sttDone = done]
  OBVIOUS
<1>1. r \in State /\ SameTasks(r, s) /\ r.turn = s.turn /\ r.unpushed = s.unpushed
  <2> HIDE DEF r, final, done
  <2> QED BY <1>0 DEF Runs, Shape, State, SameTasks
<1>2. Runs(r, a) /\ Owned(r) /\ Room(r) /\ r.sttTask = s.sttTask
  BY <1>1, SameTasksRuns DEF Owned, SameTasks, Room, Unused
<1> HIDE DEF r
<1>3. Sound(Decide(r, a))
  BY <1>2, DecideSound
<1>4. ASSUME s.sttTask # NoTimer
      PROVE  Sound(Await(r, a, "final", "final", s.sttTask))
  BY <1>2, <1>4, AwaitSound DEF GoesOn, Job
<1> QED
  BY <1>3, <1>4 DEF Heard, r

LEMMA ContinueSound ==
    ASSUME NEW s, NEW a, NEW job, GoesOn(s, a, job), Room(s)
    PROVE  Sound(Continue(s, a, job))
<1>1. CASE job = "stop"
  BY <1>1, StoppedSound DEF Continue, GoesOn
<1>2. CASE job # "stop"
  <2>1. Runs(s, a) /\ Owned(s) /\ job \in Job
    BY <1>2 DEF GoesOn
  <2>2. /\ Sound(Speech(s, a)) /\ Sound(Ended(s, a))
        /\ Sound(Heard(s, a, TRUE)) /\ Sound(Heard(s, a, FALSE))
    BY <2>1, SpeechSound, HeardSound, EndedSound
  <2> QED
    BY <1>2, <2>1, <2>2 DEF Continue, Job
<1> QED
  BY <1>1, <1>2

LEMMA StartSound ==
    ASSUME NEW s, NEW a, NEW job, Runs(s, a), Room(s), job \in Job, job # "stop", job # "paused"
    PROVE  Sound(Start(s, a, job))
<1> DEFINE q == [s EXCEPT !.turn = TRUE]
           r == Reset(q)
<1>1. q \in State /\ SameTasks(q, s) /\ q.turn = TRUE
  BY DEF Runs, Shape, State, SameTasks
<1>2. Runs(q, a)
  BY <1>1, SameTasksRuns
<1>3. Runs(r, a) /\ r.turn = TRUE
  BY <1>1, <1>2, ResetRuns
<1>4. Room(r)
  BY <1>1 DEF Room, Unused, Reset, SameTasks, State
<1>5. GoesOn(r, a, job)
  BY <1>3 DEF GoesOn, Owned
<1> HIDE DEF r
<1>6. Sound(Continue(r, a, job))
  BY <1>4, <1>5, ContinueSound
<1>7. Sound(CancelAll(r, a, job, Continue(r, a, job)))
  BY <1>5, <1>6, CancelAllSound
<1> QED
  BY <1>7 DEF Start, r

-----------------------------------------------------------------------------
(* The steps *)

IInv == Sound(state) /\ voiced \in BOOLEAN /\ hushed \in BOOLEAN

\* A task of the processor, or the watchdog, that rests can run.
LEMMA RestingRuns ==
    ASSUME NEW s, NEW a \in Agents \ Timers, Sound(s), Resting(s, a)
    PROVE  Runs(s, a) /\ Owned(s)
BY DEF Sound, Busy, Runs, Resting, Rest

LEMMA VadStartedStep ==
    ASSUME IInv, VadStarted
    PROVE  IInv'
<1> DEFINE s == [state EXCEPT !.speaking = TRUE]
<1>1. Runs(state, InputTask) /\ Owned(state) /\ Room(state)
  BY Distinct, RestingRuns DEF IInv, VadStarted, Reserve
<1>2. s \in State /\ SameTasks(s, state) /\ s.turn = state.turn /\ s.unpushed = state.unpushed
  BY <1>1 DEF Runs, Shape, State, SameTasks
<1>3. Runs(s, InputTask) /\ Owned(s) /\ Room(s)
  BY <1>1, <1>2, SameTasksRuns DEF Owned, SameTasks, Room, Unused
<1> HIDE DEF s
<1>4. Sound(Speech(s, InputTask)) /\ Sound(Start(s, InputTask, "speechTurn"))
  BY <1>3, SpeechSound, StartSound DEF Job
<1> QED
  BY <1>4 DEF VadStarted, s, IInv

LEMMA VadStoppedStep ==
    ASSUME IInv, VadStopped
    PROVE  IInv'
<1> DEFINE s == [state EXCEPT !.speaking = FALSE, !.vad = FALSE, !.paused = TRUE]
<1>1. Runs(state, InputTask) /\ Owned(state) /\ Room(state)
  BY Distinct, RestingRuns DEF IInv, VadStopped, Reserve
<1>2. s \in State /\ SameTasks(s, state) /\ s.turn = state.turn /\ s.unpushed = state.unpushed
  BY <1>1 DEF Runs, Shape, State, SameTasks
<1>3. Runs(s, InputTask) /\ Owned(s) /\ Room(s)
  BY <1>1, <1>2, SameTasksRuns DEF Owned, SameTasks, Room, Unused
<1> HIDE DEF s
<1>4. Sound(Restart(s, InputTask, "paused"))
  BY <1>3, RestartSound DEF Job
<1> QED
  BY <1>4 DEF VadStopped, s, IInv

LEMMA ArmSttStep ==
    ASSUME IInv, NEW covered \in BOOLEAN, ArmStt(covered)
    PROVE  IInv'
<1> DEFINE i == NewTimer(state, SttTimers)
           done == state.final \/ covered
           s == IF done THEN state ELSE [state EXCEPT !.timer[i] = "runs", !.sttTask = i]
           r == [s EXCEPT !.sttDone = done]
<1>1. /\ i \in SttTimers /\ i \in Timers /\ state.timer[i] = "free"
      /\ \A b \in Agents : state.doing[b].on # i
  BY NewTimerUnused, Distinct DEF Unused, ArmStt
<1>2. Runs(state, InputTask) /\ Owned(state)
  BY Distinct DEF IInv, Sound, Busy, Runs, Shape, StopsAwait, LinesUp, Waiting, ArmStt
<1>3. done \in BOOLEAN
  OBVIOUS
<1> HIDE DEF i, done
<1>4. Runs(s, InputTask) /\ Owned(s)
  <2>1. CASE done
    BY <1>2, <2>1
  <2>2. CASE ~done
    <3>1. s = [state EXCEPT !.timer[i] = "runs", !.sttTask = i]
      BY <2>2
    <3>2. state \in State
      BY <1>2 DEF Runs, Shape
    <3> HIDE DEF s
    <3>3. s \in State
      BY <1>1, <3>1, <3>2 DEF State
    <3>4. /\ s.timer = [state.timer EXCEPT ![i] = "runs"] /\ s.doing = state.doing
          /\ s.speechTask = state.speechTask /\ s.sttTask = i
          /\ s.turn = state.turn /\ s.unpushed = state.unpushed
      BY <3>1, <3>2 DEF State
    <3>5. HandlesWait(s) /\ FiredAwait(s) /\ StopsAwait(s)
      BY <1>1, <1>2, <3>2, <3>4, Distinct
         DEF Runs, Shape, HandlesWait, FiredAwait, StopsAwait, State
    <3>6. \A b \in Agents : state.doing[b].on # NoTimer =>
             /\ state.doing[b].on \in Timers /\ state.doing[b].after \subseteq Agents
             /\ s.timer[state.doing[b].on] = state.timer[state.doing[b].on]
      BY <1>1, <3>2, <3>4 DEF State, Doing
    <3>7. LinesUp(s) /\ Dozes(s)
      BY <1>2, <3>4, <3>6 DEF Runs, Shape, LinesUp, Dozes
    <3>8. \A j \in Timers : s.timer[j] = "fires" => s.doing[j].at # "rest"
      BY <1>1, <1>2, <3>2, <3>4, Distinct DEF Runs, State
    <3> QED
      BY <1>2, <3>3, <3>4, <3>5, <3>7, <3>8, Distinct DEF Runs, Shape, Owned
  <2> QED
    BY <2>1, <2>2
<1> HIDE DEF s
<1>5. r \in State /\ SameTasks(r, s) /\ r.turn = s.turn /\ r.unpushed = s.unpushed
  BY <1>3, <1>4 DEF Runs, Shape, State, SameTasks
<1>6. Runs(r, InputTask) /\ Owned(r)
  BY <1>4, <1>5, SameTasksRuns DEF Owned, SameTasks
<1> HIDE DEF r
<1>7. Sound(Ended(r, InputTask))
  BY <1>6, EndedSound
<1> QED
  BY <1>7 DEF ArmStt, r, s, done, i, IInv

\* A transcription adds words that the turn owns, if need be a new one.
LEMMA TranscriptionStep ==
    ASSUME IInv, NEW isFinal \in BOOLEAN, Transcription(isFinal)
    PROVE  IInv'
<1> DEFINE s == [state EXCEPT !.unpushed = TRUE]
           job == IF isFinal THEN "finalTurn" ELSE "partialTurn"
<1>1. Runs(state, ProcessTask) /\ Room(state)
  BY Distinct, RestingRuns DEF IInv, Transcription, Reserve
<1>2. s \in State /\ SameTasks(s, state) /\ s.turn = state.turn
  BY <1>1 DEF Runs, Shape, State, SameTasks
<1>3. Runs(s, ProcessTask) /\ Room(s)
  BY <1>1, <1>2, SameTasksRuns DEF SameTasks, Room, Unused
<1> HIDE DEF s
<1>4. Sound(Start(s, ProcessTask, job))
  BY <1>3, StartSound DEF Job
<1>5. s.turn => Sound(Heard(s, ProcessTask, isFinal))
  BY <1>3, HeardSound DEF Owned
<1> QED
  BY <1>4, <1>5 DEF Transcription, s, IInv

LEMMA InterimStep ==
    ASSUME IInv, Interim
    PROVE  IInv'
<1>1. Runs(state, ProcessTask) /\ Room(state)
  BY Distinct, RestingRuns DEF IInv, Interim, Reserve
<1> QED
  BY <1>1, StartSound DEF Interim, IInv, Job

\* A task that goes on: the words of a turn that it ends are its own until then.
LEMMA ResumeStep ==
    ASSUME IInv, NEW a \in Agents, Resume(a)
    PROVE  IInv'
<1> DEFINE d == state.doing[a]
           s == [state EXCEPT !.doing[a] = Rest]
           r == IF d.at \in {"speech", "again"} THEN [s EXCEPT !.speechTask = NoTimer]
                ELSE [s EXCEPT !.sttTask = NoTimer]
<1>1. state \in State /\ d \in Doing /\ d.at \in {"speech", "stt", "again", "final"}
  BY DEF IInv, Sound, Shape, State, Resume
<1>2. Rest \in Doing /\ Rest.at = "rest" /\ Rest.job = "none"
  BY DEF Rest, Doing, Job
<1>3. s \in State /\ s.doing = [state.doing EXCEPT ![a] = Rest] /\ s.timer = state.timer
      /\ s.turn = state.turn /\ s.unpushed = state.unpushed
      /\ s.speechTask = state.speechTask /\ s.sttTask = state.sttTask
  BY <1>1, <1>2 DEF State
<1> HIDE DEF s
<1>4. /\ r \in State /\ r.doing = s.doing /\ r.timer = s.timer
      /\ r.turn = s.turn /\ r.unpushed = s.unpushed
      /\ r.speechTask \in {s.speechTask, NoTimer} /\ r.sttTask \in {s.sttTask, NoTimer}
  BY <1>3 DEF State
<1> HIDE DEF r
<1>5. HandlesWait(r) /\ FiredAwait(r) /\ StopsAwait(r)
  BY <1>1, <1>2, <1>3, <1>4
     DEF IInv, Sound, Shape, HandlesWait, FiredAwait, StopsAwait, State
<1>14. LinesUp(r) /\ Dozes(r)
  <2>1. /\ \A b \in Agents \ {a} : r.doing[b] = state.doing[b]
        /\ r.doing[a] = Rest /\ r.timer = state.timer
        /\ \A b \in Agents : state.doing[b].after \subseteq Agents
    BY <1>1, <1>3, <1>4 DEF State, Doing
  <2>2. Rest.on = NoTimer /\ Rest.at \notin Waiting
    BY DEF Rest, Waiting
  <2>3. LinesUp(state) /\ Dozes(state) /\ state.timer[state.doing[a].on] = "free"
    BY DEF IInv, Sound, Shape, Resume
  <2> QED
    BY <1>2, <2>1, <2>2, <2>3 DEF LinesUp, Dozes
<1>15. /\ r.doing[a].on = NoTimer
       /\ \A j \in Timers \ {a} : r.timer[j] = "fires" => r.doing[j].at # "rest"
  BY <1>1, <1>3, <1>4, Distinct DEF IInv, Sound, Busy, Rest, State
<1>6. Runs(r, a)
  BY <1>1, <1>2, <1>3, <1>4, <1>5, <1>14, <1>15 DEF Runs, Shape, IInv, Sound, FiredAwait, State
<1>7. d.job = "stop" \/ Owned(r)
  BY <1>1, <1>2, <1>3, <1>4 DEF IInv, Sound, Owned, State
<1>8. Room(r)
  <2>1. Rest.on = NoTimer
    BY DEF Rest
  <2>2. \A i \in Timers : Unused(state, i) => Unused(r, i)
    BY <1>1, <1>3, <1>4, <2>1, Distinct DEF Unused, State
  <2> QED
    BY <2>2, Distinct DEF Resume, Room
<1>9. GoesOn(r, a, d.job) /\ (d.at \in {"again", "final"} => d.job # "stop")
  BY <1>1, <1>6, <1>7 DEF GoesOn, Doing, IInv, Sound, Shape, StopsAwait, Dozes
<1> HIDE DEF d
<1>10. Sound(Continue(r, a, d.job))
  BY <1>8, <1>9, ContinueSound
<1>11. Sound(CancelStt(r, a, d.job, Continue(r, a, d.job)))
  BY <1>9, <1>10, CancelSttSound
<1>12. d.at = "again" => Sound(Arm(r, a, d.job))
  BY <1>8, <1>9, ArmSound DEF GoesOn
<1>13. d.at = "final" => Sound(Decide(r, a))
  BY <1>8, <1>9, DecideSound DEF GoesOn
<1> QED
  BY <1>1, <1>10, <1>11, <1>12, <1>13 DEF Resume, d, r, s, IInv

\* The handle of its kind is cleared by any timer that ends.
LEMMA ClearedTyped ==
    ASSUME NEW s \in State, NEW i \in Timers
    PROVE  /\ Cleared(s, i) \in State
           /\ Cleared(s, i).timer = s.timer /\ Cleared(s, i).doing = s.doing
           /\ Cleared(s, i).turn = s.turn /\ Cleared(s, i).unpushed = s.unpushed
           /\ Cleared(s, i).speechTask \in {s.speechTask, NoTimer} \ {i}
           /\ Cleared(s, i).sttTask \in {s.sttTask, NoTimer} \ {i}
<1>1. CASE i \in SpeechTimers
  BY <1>1, Distinct DEF Cleared, State
<1>2. CASE i \notin SpeechTimers
  BY <1>2, Distinct DEF Cleared, State, Timers
<1> QED
  BY <1>1, <1>2

LEMMA TimerCancelledStep ==
    ASSUME IInv, NEW i \in Timers, TimerCancelled(i)
    PROVE  IInv'
<1> DEFINE c == Cleared(state, i)
           r == [c EXCEPT !.timer[i] = "free"]
<1>1. state \in State /\ state.timer[i] = "cancelled"
  BY DEF IInv, Sound, Shape, TimerCancelled
<1>2. c \in State /\ c.timer = state.timer /\ c.doing = state.doing
      /\ c.turn = state.turn /\ c.unpushed = state.unpushed
      /\ c.speechTask \in {state.speechTask, NoTimer} \ {i}
      /\ c.sttTask \in {state.sttTask, NoTimer} \ {i}
  BY <1>1, ClearedTyped
<1> HIDE DEF c
<1>3. /\ r \in State /\ r.timer = [state.timer EXCEPT ![i] = "free"] /\ r.doing = c.doing
      /\ r.turn = c.turn /\ r.unpushed = c.unpushed
      /\ r.speechTask = c.speechTask /\ r.sttTask = c.sttTask
  BY <1>2 DEF State
<1> HIDE DEF r
<1>4. HandlesWait(r) /\ FiredAwait(r) /\ StopsAwait(r)
  BY <1>1, <1>2, <1>3, Distinct
     DEF IInv, Sound, Shape, HandlesWait, FiredAwait, StopsAwait, State
<1>5. Owned(r)
  BY <1>2, <1>3 DEF IInv, Sound, Owned
<1>6. state' = r
  BY DEF TimerCancelled, r, c
<1>7. \A b \in Agents : state.doing[b].on # NoTimer =>
         /\ state.doing[b].on \in Timers /\ state.doing[b].after \subseteq Agents
         /\ r.timer[state.doing[b].on] \in {"free", state.timer[state.doing[b].on]}
  BY <1>1, <1>2, <1>3 DEF State, Doing
<1>8. LinesUp(r) /\ Dozes(r)
  BY <1>2, <1>3, <1>7 DEF IInv, Sound, Shape, LinesUp, Dozes
<1>9. Busy(r)
  BY <1>1, <1>2, <1>3 DEF IInv, Sound, Busy, State
<1> QED
  BY <1>3, <1>4, <1>5, <1>6, <1>8, <1>9 DEF IInv, Sound, Shape, TimerCancelled

LEMMA TimerFiresStep ==
    ASSUME IInv, NEW i \in Timers, TimerFires(i)
    PROVE  IInv'
<1> DEFINE c == Cleared(state, i)
           s == [c EXCEPT !.timer[i] = "fires"]
           r == IF i \in SpeechTimers THEN [s EXCEPT !.speechDone = TRUE]
                ELSE [s EXCEPT !.sttDone = TRUE]
<1>1. state \in State /\ state.timer[i] = "due" /\ i \in Agents
  BY Distinct DEF IInv, Sound, Shape, TimerFires
<1>2. c \in State /\ c.timer = state.timer /\ c.doing = state.doing
      /\ c.turn = state.turn /\ c.unpushed = state.unpushed
      /\ c.speechTask \in {state.speechTask, NoTimer} \ {i}
      /\ c.sttTask \in {state.sttTask, NoTimer} \ {i}
  BY <1>1, ClearedTyped
<1> HIDE DEF c
<1>3. /\ s \in State /\ s.timer = [state.timer EXCEPT ![i] = "fires"] /\ s.doing = c.doing
      /\ s.turn = c.turn /\ s.unpushed = c.unpushed
      /\ s.speechTask = c.speechTask /\ s.sttTask = c.sttTask
  BY <1>2 DEF State
<1> HIDE DEF s
<1>4. HandlesWait(s) /\ FiredAwait(s) /\ StopsAwait(s)
  BY <1>1, <1>2, <1>3, Distinct
     DEF IInv, Sound, Shape, HandlesWait, FiredAwait, StopsAwait, State
<1>5. s.doing[i].job # "stop"
  BY <1>1, <1>2, <1>3 DEF IInv, Sound, Shape, FiredAwait, StopsAwait
<1>10. \A b \in Agents : state.doing[b].on # NoTimer =>
          /\ state.doing[b].on \in Timers /\ state.doing[b].after \subseteq Agents
          /\ state.doing[b].on # i
          /\ s.timer[state.doing[b].on] = state.timer[state.doing[b].on]
  BY <1>1, <1>2, <1>3 DEF IInv, Sound, Shape, LinesUp, State, Doing
<1>11. LinesUp(s) /\ Dozes(s)
  BY <1>2, <1>3, <1>10 DEF IInv, Sound, Shape, LinesUp, Dozes
<1>12. /\ s.doing[i].on = NoTimer
       /\ \A j \in Timers \ {i} : s.timer[j] = "fires" => s.doing[j].at # "rest"
  <2>1. state.doing[i].at = "rest"
    BY <1>1 DEF IInv, Sound, Shape, FiredAwait
  <2>2. state.doing[i].on = NoTimer
    BY <1>1, <2>1 DEF IInv, Sound, Shape, LinesUp, Waiting
  <2> QED
    BY <1>1, <1>2, <1>3, <2>2 DEF IInv, Sound, Busy, State
<1>6. Runs(s, i) /\ Owned(s)
  BY <1>1, <1>2, <1>3, <1>4, <1>5, <1>11, <1>12 DEF Runs, Shape, IInv, Sound, Owned, State
<1>7. r \in State /\ SameTasks(r, s) /\ r.turn = s.turn /\ r.unpushed = s.unpushed
  BY <1>3 DEF State, SameTasks
<1> HIDE DEF r
<1>8. Runs(r, i) /\ Owned(r)
  BY <1>6, <1>7, SameTasksRuns DEF Owned, SameTasks
<1>9. Sound(Trigger(r, i))
  BY <1>8, TriggerSound
<1> QED
  BY <1>9 DEF TimerFires, r, s, c, IInv

LEMMA WatchdogTimesOutStep ==
    ASSUME IInv, WatchdogTimesOut
    PROVE  IInv'
<1> DEFINE s == [state EXCEPT !.overdue = FALSE]
<1>1. Runs(state, Watchdog) /\ Owned(state)
  BY Distinct, RestingRuns DEF IInv, WatchdogTimesOut
<1>2. s \in State /\ SameTasks(s, state) /\ s.turn = state.turn /\ s.unpushed = state.unpushed
  BY <1>1 DEF Runs, Shape, State, SameTasks
<1>3. Runs(s, Watchdog) /\ Owned(s)
  BY <1>1, <1>2, SameTasksRuns DEF Owned, SameTasks
<1> HIDE DEF s
<1>4. Sound(Stop(s, Watchdog)) /\ Sound(s)
  BY <1>3, Distinct, StopSound DEF Sound, Busy, Runs
<1> QED
  BY <1>4 DEF WatchdogTimesOut, s, IInv

LEMMA TimePassesStep ==
    ASSUME IInv, NEW due \in SUBSET Timers, NEW late \in BOOLEAN, TimePasses(due, late)
    PROVE  IInv'
<1> DEFINE after == [i \in Timers |-> IF i \in due THEN "due" ELSE state.timer[i]]
           r == [state EXCEPT !.timer = after, !.overdue = late]
<1>1. state \in State /\ \A i \in due : state.timer[i] = "runs"
  BY DEF IInv, Sound, Shape, TimePasses
<1>2. after \in [Timers -> {"free", "runs", "due", "cancelled", "fires"}]
  BY <1>1 DEF State
<1>3. /\ r \in State /\ r.timer = after /\ r.doing = state.doing
      /\ r.turn = state.turn /\ r.unpushed = state.unpushed
      /\ r.speechTask = state.speechTask /\ r.sttTask = state.sttTask
  <2> HIDE DEF after
  <2> QED BY <1>1, <1>2 DEF State
<1>4. state' = r
  BY <1>1 DEF TimePasses
<1> HIDE DEF r
<1>5. HandlesWait(r) /\ FiredAwait(r) /\ StopsAwait(r)
  BY <1>1, <1>3, Distinct
     DEF IInv, Sound, Shape, HandlesWait, FiredAwait, StopsAwait, State
<1>6. Owned(r)
  BY <1>3 DEF IInv, Sound, Owned
<1>7. LinesUp(r) /\ Dozes(r)
  <2>1. \A b \in Agents : state.doing[b].on = NoTimer /\ state.doing[b].at \notin Waiting
    BY DEF TimePasses, Still, Resting, Rest, Waiting
  <2> QED
    BY <1>3, <2>1 DEF IInv, Sound, Shape, LinesUp, Dozes
<1>8. Busy(r)
  BY <1>1, <1>3 DEF IInv, Sound, Busy, State
<1> QED
  BY <1>3, <1>4, <1>5, <1>6, <1>7, <1>8 DEF IInv, Sound, Shape, TimePasses

-----------------------------------------------------------------------------
(* The theorems *)

LEMMA InitSound == Init => IInv
<1> SUFFICES ASSUME Init PROVE IInv
  OBVIOUS
<1>1. Rest \in Doing /\ Rest.at = "rest" /\ Rest.job = "none"
  BY DEF Rest, Doing, Job
<1>2. state \in State
  BY <1>1 DEF Init, State
<1>3. HandlesWait(state) /\ FiredAwait(state) /\ StopsAwait(state) /\ Owned(state)
  BY <1>1, Distinct DEF Init, HandlesWait, FiredAwait, StopsAwait, Owned
<1>4. LinesUp(state) /\ Dozes(state) /\ Busy(state)
  BY <1>1 DEF Init, LinesUp, Dozes, Busy, Waiting, Rest
<1> QED
  BY <1>2, <1>3, <1>4 DEF IInv, Sound, Shape, Init

LEMMA NextSound == IInv /\ [Next]_vars => IInv'
<1> SUFFICES ASSUME IInv, [Next]_vars PROVE IInv'
  OBVIOUS
<1>1. CASE Frames
  BY <1>1, VadStartedStep, VadStoppedStep, InterimStep, TranscriptionStep DEF Frames
<1>2. CASE Tasks
  BY <1>2, ArmSttStep, ResumeStep, TimerCancelledStep, TimerFiresStep, WatchdogTimesOutStep
     DEF Tasks
<1>3. CASE Passing
  BY <1>3, TimePassesStep DEF Passing
<1>4. CASE Hush
  BY <1>4 DEF Hush, IInv
<1>5. CASE UNCHANGED vars
  BY <1>5 DEF vars, IInv
<1> QED
  BY <1>1, <1>2, <1>3, <1>4, <1>5 DEF Next

LEMMA Inductive == Spec => []IInv
BY InitSound, NextSound, PTL DEF Spec

\* The state is of its type, whatever the tasks and the user do.
THEOREM TurnTypeCorrect == Spec => []TypeOK
<1>1. IInv => TypeOK
  BY DEF IInv, Sound, Shape, State, Doing, TypeOK
<1> QED
  BY <1>1, Inductive, PTL

\* Nothing that the user said is left behind at the end of a turn: words that
\* are not pushed belong to an open turn, or to a task that is ending one and
\* will push them -- and then something is in progress.
THEOREM WordsAreSent == Spec => []NothingLeftBehind
<1>1. IInv => NothingLeftBehind
  BY DEF IInv, Sound, Owned, NothingLeftBehind, Still, Resting, Rest
<1> QED
  BY <1>1, Inductive, PTL
-----------------------------------------------------------------------------
(* The state half of Answered: tasks that await something go on.           *)

\* No task awaits a timer that runs on, or one that awaits something itself; of the
\* tasks that await the same timer one is not behind any other; a timer whose time has
\* come is not lost, but its task awaits a timer; and no task but the input task, which
\* the loop resumes, lets the loop come round.
NobodyStuck ==
    /\ \A a \in Agents :
          state.doing[a].at \in Waiting =>
             state.timer[state.doing[a].on] \in {"cancelled", "free"}
    /\ \A i \in Timers :
          (\E a \in Agents : state.doing[a].on = i) =>
             \E a \in Agents :
                /\ state.doing[a].on = i
                /\ \A b \in state.doing[a].after : state.doing[b].on # i
    /\ \A i \in Timers : state.timer[i] = "fires" => state.doing[i].at \in Waiting
    /\ \A a \in Agents : state.doing[a].at = "slept" => a = InputTask

LEMMA AgentsFinite == IsFiniteSet(Agents)
<1> DEFINE n == NSpeech + NStt + 3
<1>1. n \in Nat /\ Agents \subseteq 1..n
  BY TurnAssumption DEF Agents, Timers, SpeechTimers, SttTimers, InputTask, ProcessTask,
     Watchdog
<1>2. IsFiniteSet(1..n)
  BY <1>1, FS_Interval
<1> QED
  BY <1>1, <1>2, FS_Subset

\* A set of numbers that is not empty has a least one.
LEMMA LeastNumber ==
    ASSUME NEW S \in SUBSET Nat, S # {}
    PROVE  \E n \in S : \A m \in S : ~(m < n)
<1>1. PICK n \in S : \A m \in S : ~(<<m, n>> \in OpToRel(<, Nat))
  BY WFMin, NatLessThanWellFounded
<1> QED
  BY <1>1 DEF OpToRel

\* The line before a timer has a head: who has the fewest before it has none.
LEMMA FirstInLine ==
    ASSUME NEW s, Shape(s), NEW i \in Timers, NEW c \in Agents, s.doing[c].on = i
    PROVE  \E a \in Agents :
              s.doing[a].on = i /\ \A b \in s.doing[a].after : s.doing[b].on # i
<1> DEFINE Line == {b \in Agents : s.doing[b].on = i}
           Before(b) == s.doing[b].after \cap Line
           Sizes == {Cardinality(Before(b)) : b \in Line}
<1>1. i # NoTimer /\ c \in Line
  BY Distinct
<1>2. \A b \in Line : IsFiniteSet(Before(b)) /\ Cardinality(Before(b)) \in Nat
  <2>1. IsFiniteSet(Line)
    BY AgentsFinite, FS_Subset
  <2> HIDE DEF Line
  <2>2. \A b \in Line : IsFiniteSet(Before(b))
    BY <2>1, FS_Subset
  <2> QED
    BY <2>2, FS_CardinalityType
<1>3. \A b \in Line : b \notin Before(b)
  BY <1>1 DEF Shape, LinesUp
<1>4. \A a \in Line : \A b \in Before(a) : Before(b) \subseteq Before(a)
  BY <1>1 DEF Shape, LinesUp
<1>5. PICK a \in Line : \A b \in Line : ~(Cardinality(Before(b)) < Cardinality(Before(a)))
  <2>1. Sizes \in SUBSET Nat /\ Sizes # {}
    BY <1>1, <1>2
  <2>2. PICK n \in Sizes : \A m \in Sizes : ~(m < n)
    BY <2>1, LeastNumber
  <2> QED
    BY <2>2
<1>6. ASSUME NEW b \in Before(a) PROVE FALSE
  <2>1. b \in Line /\ Before(b) \subseteq Before(a) /\ Before(b) # Before(a)
    BY <1>3, <1>4, <1>6
  <2> HIDE DEF Line, Before
  <2>2. /\ Cardinality(Before(b)) <= Cardinality(Before(a))
        /\ Cardinality(Before(b)) # Cardinality(Before(a))
    BY <1>2, <2>1, FS_Subset
  <2> QED
    BY <1>2, <1>5, <2>1, <2>2
<1>7. s.doing[a].after \subseteq Agents
  BY DEF Shape, State, Doing
<1> QED
  BY <1>6, <1>7

\* For any number of timers, and whatever is cancelled while others wait for it: nobody
\* waits for ever, neither for a timer that is not told to end nor in a circle.
THEOREM TasksGoOn == Spec => []NobodyStuck
<1>1. IInv => NobodyStuck
  <2> SUFFICES ASSUME IInv PROVE NobodyStuck
    OBVIOUS
  <2>1. Shape(state) /\ Busy(state)
    BY DEF IInv, Sound
  <2>2. \A i \in Timers :
          (\E a \in Agents : state.doing[a].on = i) =>
             \E a \in Agents :
                /\ state.doing[a].on = i
                /\ \A b \in state.doing[a].after : state.doing[b].on # i
    BY <2>1, FirstInLine
  <2>3. \A a \in Agents :
          /\ state.doing[a].at \in Waiting =>
                state.timer[state.doing[a].on] \in {"cancelled", "free"}
          /\ state.doing[a].at = "slept" => a = InputTask
          /\ state.doing[a].at \in Waiting \cup {"rest", "slept"}
    BY <2>1 DEF Shape, LinesUp, Dozes, State, Doing, Waiting
  <2>4. \A i \in Timers : state.timer[i] = "fires" => state.doing[i].at \in Waiting
    BY <2>1, <2>3, Distinct DEF Busy
  <2> QED
    BY <2>2, <2>3, <2>4 DEF NobodyStuck
<1> QED
  BY <1>1, Inductive, PTL
=============================================================================
