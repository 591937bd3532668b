------------------------ MODULE FunctionCallsProofs -------------------------
(***************************************************************************)
(* Proofs about the function calls, for any number of calls and any        *)
(* batches: types; that an interruption which is passed on has cancelled   *)
(* every call; that the context tells how a call came out, once no frame   *)
(* about it is on its way, and that a group of parallel calls makes the    *)
(* model run once (OutcomeInv); and that a call the context shows as       *)
(* running has somebody who will tell of its end (TimerInv).               *)
(***************************************************************************)
EXTENDS FunctionCalls, TLAPS, FiniteSetTheorems, SequenceTheorems,
        WellFoundedInduction

\* What the loop is done with has ended, in the dictionary or not.
DoneEnded == \A c \in loopDone : pc[c] = "ended"

\* The sequential runner takes calls in order.
QueueOrder ==
    \A c, d \in Call :
        pc[c] = "queued"
            => ~parallel /\ (pc[d] \notin {"queued", "idle"} => d < c)

\* What is in the dictionary has been started.
TasksStarted == \A c \in tasks : pc[c] \notin {"queued", "idle"}

\* Behind the call the loop waits for, no call of the function has a task.
LoopBehind ==
    loopAt # 0 =>
        /\ pc[loopAt] \notin {"queued", "idle"}
        /\ \A d \in Call \ async : d < loopAt => pc[d] \notin Live

IInv == TypeOK /\ DoneEnded /\ QueueOrder /\ TasksStarted /\ LoopBehind

-----------------------------------------------------------------------------
(* The wire and the calls the loop looks at.                               *)

\* A set of calls that is not empty has a first one.
LEMMA FirstCall ==
    ASSUME NEW S \in SUBSET Call, S # {}
    PROVE  \E d \in S : \A e \in S : d <= e
<1>1. S \subseteq Nat
  BY CallsAssumption DEF Call
<1>2. \E d \in S : \A e \in S : ~(<<e, d>> \in OpToRel(<, Nat))
  BY <1>1, WFMin, NatLessThanWellFounded
<1>3. PICK d \in S : \A e \in S : ~(<<e, d>> \in OpToRel(<, Nat))
  BY <1>2
<1>4. \A e \in S : ~(e < d)
  BY <1>1, <1>3 DEF OpToRel
<1> QED
  BY <1>1, <1>4

\* broadcast_frame() leaves a sequence of frames.
LEMMA BroadcastType ==
    ASSUME TypeOK, NEW kind \in Kinds, NEW S \in SUBSET Call,
           Broadcast(kind, S)
    PROVE  wire' \in Seq(Message)
<1>1. Msg(kind, S) \in Message
  BY DEF Msg, Message
<1> QED
  BY <1>1, AppendProperties DEF Broadcast, TypeOK

\* So does sending a result.
LEMMA SendResultType ==
    ASSUME TypeOK, NEW c \in Call, NEW kind \in Results, SendResult(c, kind)
    PROVE  /\ wire' \in Seq(Message)
           /\ sent' \in [Call -> {"no", "value", "empty"}]
<1>1. Broadcast(kind, {c}) /\ kind \in Kinds
  BY DEF SendResult, Results, Kinds
<1>2. wire' \in Seq(Message)
  BY <1>1, BroadcastType
<1>3. sent' \in [Call -> {"no", "value", "empty"}]
  BY DEF SendResult, Results, TypeOK
<1> QED
  BY <1>2, <1>3

\* Receiving a frame leaves the others.
LEMMA ReceivedType ==
    ASSUME TypeOK, NEW i \in 1..Len(wire), Received(i)
    PROVE  wire' \in Seq(Message)
<1> DEFINE a == SubSeq(wire, 1, i - 1)
           z == SubSeq(wire, i + 1, Len(wire))
<1>1. wire \in Seq(Message) /\ Len(wire) \in Nat
  BY DEF TypeOK
<1>2. \A j \in 1..Len(wire) : wire[j] \in Message
  BY <1>1
<1>3. a \in Seq(Message)
  <2>1. \A j \in 1..(i - 1) : wire[j] \in Message
    BY <1>1, <1>2
  <2> QED
    BY <1>1, <2>1, SubSeqProperties
<1>4. z \in Seq(Message)
  <2>1. \A j \in (i + 1)..Len(wire) : wire[j] \in Message
    BY <1>1, <1>2
  <2> QED
    BY <1>1, <2>1, SubSeqProperties
<1>5. a \o z \in Seq(Message)
  BY <1>3, <1>4, ConcatProperties
<1> QED
  BY <1>5 DEF Received

\* The dictionary is finite.
LEMMA TasksFinite ==
    ASSUME TypeOK
    PROVE  Cardinality(tasks) \in Nat
<1>1. IsFiniteSet(Call)
  BY FS_Interval, CallsAssumption DEF Call
<1>2. IsFiniteSet(tasks)
  BY <1>1, FS_Subset DEF TypeOK
<1> QED
  BY <1>2, FS_CardinalityType

\* When no task ahead is left, those ahead have ended.
LEMMA NoVictimsAhead ==
    ASSUME TypeOK, NEW c \in Call \cup {0},
           {d \in Victims(c) : \A e \in Victims(c) : d <= e} = {}
    PROVE  \A d \in Ahead(c) : pc[d] = "ended"
<1>1. Victims(c) \in SUBSET Call
  BY DEF Victims, Ahead, TypeOK
<1>2. Victims(c) = {}
  BY <1>1, FirstCall
<1> QED
  BY <1>2 DEF Victims

-----------------------------------------------------------------------------
(* The loop of _cancel_function_call.                                      *)

\* One turn of the loop keeps the invariant, and when it is the last one no
\* call of the function has a task.
LEMMA LoopTurn ==
    ASSUME IInv, NEW c \in Call \cup {0}, NEW done \in SUBSET Call,
           c # 0 => loopAt = c /\ pc[c] = "ended",
           c = 0 => loopAt = 0,
           \A d \in done : pc[d] = "ended",
           LoopGoesOn(c, done), UNCHANGED <<parallel, async, timer>>
    PROVE  /\ loopAt' \in Call \cup {0} /\ loopDone' \subseteq Call
           /\ pc' \in [Call -> PcType] /\ tasks' \subseteq Call
           /\ wire' \in Seq(Message)
           /\ runner' \in Call \cup {0} /\ runnerAlive' \in BOOLEAN
           /\ cancelled' \subseteq Call /\ forwarded' \in Nat
           /\ \A d \in Call : pc'[d] \in Live => d \in tasks'
           /\ DoneEnded' /\ QueueOrder' /\ TasksStarted' /\ LoopBehind'
           /\ forwarded' # forwarded
                => \A d \in Call \ async : pc'[d] \notin Live
<1> DEFINE next == {d \in Victims(c) : \A e \in Victims(c) : d <= e}
           passed == {d \in Ahead(c) : \A e \in next : d < e}
           told == done \cup passed
           news == IF told = {} THEN <<>> ELSE <<Msg("cancel", told)>>
<1>1. TypeOK /\ Ahead(c) \subseteq tasks /\ tasks \subseteq Call
  BY DEF IInv, TypeOK, Ahead
<1>2. told \in SUBSET Call
  BY <1>1
<1>3. Call \subseteq Nat \ {0}
  BY CallsAssumption DEF Call
<1>4. /\ wire \o news \in Seq(Message)
      /\ wire \o news \o <<Msg("interruption", {})>> \in Seq(Message)
  <2>1. Msg("cancel", told) \in Message /\ Msg("interruption", {}) \in Message
    BY <1>2 DEF Msg, Message, Kinds
  <2>2. wire \in Seq(Message) /\ news \in Seq(Message)
    BY <1>1, <2>1 DEF TypeOK
  <2>3. <<Msg("interruption", {})>> \in Seq(Message)
    BY <2>1
  <2>4. wire \o news \in Seq(Message)
    BY <2>2, ConcatProperties
  <2> QED
    BY <2>3, <2>4, ConcatProperties
<1>5. \A d \in Call \ async : d < c => pc[d] \notin Live
  BY <1>3 DEF IInv, LoopBehind
<1>6. \A d \in passed : pc[d] = "ended"
  <2>1. CASE next = {}
    BY <1>1, <2>1, NoVictimsAhead
  <2>2. CASE next # {}
    <3>1. PICK n \in next : TRUE
      BY <2>2
    <3> SUFFICES ASSUME NEW d \in passed, pc[d] # "ended" PROVE FALSE
      OBVIOUS
    <3>2. d \in Victims(c) /\ d < n
      BY <3>1 DEF Victims
    <3>3. n <= d /\ n \in Nat /\ d \in Nat
      BY <1>1, <1>3, <3>1, <3>2 DEF Victims
    <3> QED
      BY <3>2, <3>3
  <2> QED
    BY <2>1, <2>2
<1>7. CASE /\ next # {}
           /\ \E d \in next : CancelTask(d)
           /\ loopDone' = loopDone \cup told
           /\ wire' = wire \o news
           /\ UNCHANGED <<tasks, forwarded>>
  <2>1. PICK d \in next : CancelTask(d)
    BY <1>7
  <2>2. d \in Call /\ d \in tasks /\ d > c /\ pc[d] # "ended" /\ d # 0
    BY <1>1, <1>3, <2>1 DEF Victims, Ahead
  <2>3. /\ pc \in [Call -> PcType]
        /\ pc' = [pc EXCEPT ![d] = AfterCancel(pc[d])]
        /\ loopAt' = d /\ cancelled' = cancelled \cup {d}
    BY <1>1, <2>1 DEF CancelTask, TypeOK
  <2>4. AfterCancel(pc[d]) \in PcType
    BY <2>2, <2>3 DEF AfterCancel, PcType
  <2>5. pc' \in [Call -> PcType]
    BY <2>2, <2>3, <2>4
  <2>6. \A e \in Call : pc'[e] \in Live => e \in tasks
    BY <1>1, <2>2, <2>3 DEF TypeOK
  <2>7. \A e \in loopDone' : e \in Call /\ pc'[e] = "ended"
    <3>1. \A e \in loopDone \cup told : e \in Call /\ pc[e] = "ended"
      BY <1>1, <1>2, <1>6 DEF IInv, DoneEnded, TypeOK
    <3> QED
      BY <1>7, <2>2, <2>3, <3>1
  <2>8. pc[d] \notin {"queued", "idle"}
    BY <2>2 DEF IInv, TasksStarted
  <2>11. QueueOrder'
    BY <2>2, <2>3, <2>8 DEF IInv, QueueOrder, AfterCancel
  <2>12. TasksStarted' /\ pc'[d] \notin {"queued", "idle"}
    BY <1>1, <1>7, <2>2, <2>3, <2>8
       DEF IInv, TasksStarted, AfterCancel, TypeOK
  <2>9. \A e \in Call \ async : e < d => pc'[e] \notin Live
    <3> SUFFICES ASSUME NEW e \in Call \ async, e < d, pc[e] \in Live
                 PROVE  FALSE
      BY <1>3, <2>2, <2>3
    <3>1. e >= c
      BY <1>3, <1>5
    <3>2. e # c
      BY <1>3 DEF Live
    <3>3. e \in Victims(c)
      BY <1>1, <1>3, <3>1, <3>2 DEF Victims, Ahead, TypeOK, Live
    <3>4. d <= e
      BY <2>1, <3>3
    <3> QED
      BY <1>3, <2>2, <3>4
  <2>10. runner' \in Call \cup {0} /\ runnerAlive' \in BOOLEAN
    BY <1>1, <2>1 DEF CancelTask, TypeOK
  <2> QED
    BY <1>1, <1>4, <1>7, <2>2, <2>3, <2>5, <2>6, <2>7, <2>8, <2>9, <2>10,
       <2>11, <2>12
       DEF TypeOK, DoneEnded, LoopBehind
<1>8. CASE /\ next = {}
           /\ loopAt' = 0 /\ loopDone' = {}
           /\ tasks' = tasks \ (loopDone \cup told)
           /\ wire' = wire \o news \o <<Msg("interruption", {})>>
           /\ forwarded' = forwarded + 1
           /\ UNCHANGED <<pc, runner, runnerAlive, cancelled>>
  <2>1. \A e \in loopDone \cup told : pc[e] = "ended"
    BY <1>6 DEF IInv, DoneEnded
  <2>2. \A e \in Call : pc'[e] \in Live => e \in tasks'
    BY <1>1, <1>8, <2>1 DEF TypeOK, Live
  <2>3. \A e \in Call \ async : pc[e] \notin Live
    <3> SUFFICES ASSUME NEW e \in Call \ async, pc[e] \in Live
                 PROVE  FALSE
      OBVIOUS
    <3>1. e >= c /\ e # c
      BY <1>3, <1>5 DEF Live
    <3>2. e \in Ahead(c)
      BY <1>1, <1>3, <3>1 DEF Ahead, TypeOK
    <3>3. pc[e] = "ended"
      BY <1>1, <1>8, <3>2, NoVictimsAhead
    <3> QED
      BY <3>3 DEF Live
  <2>4. QueueOrder' /\ TasksStarted'
    BY <1>8 DEF IInv, QueueOrder, TasksStarted
  <2> QED
    BY <1>1, <1>4, <1>8, <2>2, <2>3, <2>4
       DEF TypeOK, DoneEnded, LoopBehind
<1> QED
  BY <1>7, <1>8 DEF LoopGoesOn

-----------------------------------------------------------------------------
(* The other steps.                                                        *)

\* Starting a batch.
LEMMA StartKeeps ==
    ASSUME IInv, NEW b \in Batches, RunFunctionCalls(b)
    PROVE  IInv'
<1>1. TypeOK /\ Group(b) \in SUBSET Call /\ Call \subseteq Nat \ {0}
  BY CallsAssumption DEF IInv, Group, Call
<1>2. wire' \in Seq(Message)
  BY <1>1, BroadcastType DEF RunFunctionCalls, Kinds
<1>3. QueueOrder'
  <2> SUFFICES ASSUME NEW c \in Call, NEW d \in Call, pc'[c] = "queued",
                      ~parallel, pc'[d] \notin {"queued", "idle"}
               PROVE  d < c
    BY <1>1 DEF QueueOrder, RunFunctionCalls, IInv, TypeOK, modeVars
  <2>1. \A e \in Call : Batch[e] \in Nat
    BY CallsAssumption
  <2>2. b \in Nat
    BY <2>1 DEF Batches
  <2>3. pc[d] \notin {"queued", "idle"}
    BY <1>1 DEF RunFunctionCalls, TypeOK
  <2>4. CASE pc[c] = "queued"
    BY <2>3, <2>4 DEF IInv, QueueOrder
  <2>5. CASE pc[c] # "queued"
    <3>1. Batch[c] = b /\ Batch[d] < b
      BY <2>1, <2>2, <2>3, <2>5, <1>1 DEF RunFunctionCalls, Group, TypeOK
    <3>2. ~(c <= d)
      BY <2>1, <2>2, <3>1, CallsAssumption
    <3> QED
      BY <1>1, <3>2
  <2> QED
    BY <2>4, <2>5
<1>4. /\ UNCHANGED <<modeVars, timer, runner, runnerAlive, loopVars,
                     aggregatorVars, speechVars, historyVars>>
      /\ loopAt = 0 /\ tasks \subseteq tasks' /\ tasks' \subseteq Call
      /\ parallel => Group(b) \subseteq tasks'
  BY <1>1 DEF RunFunctionCalls, TypeOK
<1>5. pc' \in [Call -> PcType]
  BY <1>1 DEF RunFunctionCalls, TypeOK, PcType
<1>6. \A c \in Call :
         /\ c \notin Group(b) => pc'[c] = pc[c]
         /\ c \in Group(b) => pc[c] = "idle"
         /\ c \in Group(b) /\ parallel => pc'[c] = "created"
         /\ c \in Group(b) /\ ~parallel => pc'[c] = "queued"
  <2> SUFFICES ASSUME NEW c \in Call
               PROVE  /\ c \notin Group(b) => pc'[c] = pc[c]
                      /\ c \in Group(b) => pc[c] = "idle"
                      /\ c \in Group(b) /\ parallel => pc'[c] = "created"
                      /\ c \in Group(b) /\ ~parallel => pc'[c] = "queued"
    OBVIOUS
  <2>1. Batch[c] \in Nat /\ b \in Nat
    BY CallsAssumption DEF Batches
  <2>2. c \in Group(b) => pc[c] = "idle"
    BY <2>1 DEF RunFunctionCalls, Group
  <2> QED
    BY <2>2 DEF RunFunctionCalls
<1>7. tasks' = IF parallel THEN tasks \cup Group(b) ELSE tasks
  BY DEF RunFunctionCalls
<1>13. /\ parallel \in BOOLEAN
       /\ \A c \in Call : pc[c] \in Live => c \in tasks
       /\ \A c \in tasks : pc[c] \notin {"queued", "idle"}
       /\ \A c \in loopDone : c \in Call /\ pc[c] = "ended"
       /\ loopDone' = loopDone /\ tasks \subseteq tasks'
       /\ tasks' \subseteq Call
       /\ parallel => tasks' = tasks \cup Group(b)
       /\ ~parallel => tasks' = tasks
  BY <1>4, <1>7 DEF IInv, TypeOK, TasksStarted, DoneEnded, loopVars
<1>14. \A c \in Call :
          /\ c \notin Group(b) => pc'[c] = pc[c]
          /\ c \in Group(b) => pc[c] = "idle" /\ pc'[c] # "idle"
          /\ c \in Group(b) => pc'[c] = IF parallel THEN "created" ELSE "queued"
  BY <1>6, <1>13
<1>8. \A c \in Call : pc'[c] \in Live => c \in tasks'
  <2> SUFFICES ASSUME NEW c \in Call, pc'[c] \in Live PROVE c \in tasks'
    OBVIOUS
  <2>1. CASE c \in Group(b)
    BY <1>13, <1>14, <2>1 DEF Live
  <2>2. CASE c \notin Group(b)
    BY <1>13, <1>14, <2>2
  <2> QED
    BY <2>1, <2>2
<1>9. TypeOK'
  BY <1>1, <1>2, <1>4, <1>5, <1>8
     DEF TypeOK, modeVars, loopVars, aggregatorVars, speechVars, historyVars
<1>10. DoneEnded'
  BY <1>13, <1>14 DEF DoneEnded
<1>11. TasksStarted'
  <2> SUFFICES ASSUME NEW c \in tasks' PROVE pc'[c] \notin {"queued", "idle"}
    BY DEF TasksStarted
  <2>1. CASE c \in Group(b)
    BY <1>13, <1>14, <2>1
  <2>2. CASE c \notin Group(b)
    BY <1>13, <1>14, <2>2
  <2> QED
    BY <2>1, <2>2
<1>12. LoopBehind'
  BY <1>4 DEF LoopBehind, loopVars
<1> QED
  BY <1>3, <1>9, <1>10, <1>11, <1>12 DEF IInv

\* A step of the task of a call.
LEMMA CallStepKeeps ==
    ASSUME IInv, NEW c \in Call,
           pc' \in [Call -> PcType], timer' \in [Call -> BOOLEAN],
           sent' \in [Call -> {"no", "value", "empty"}],
           wire' \in Seq(Message), gaveUp' \subseteq Call,
           \A d \in Call \ {c} : pc'[d] = pc[d],
           pc'[c] \notin {"queued", "idle"}, pc[c] \notin {"idle", "ended"},
           pc[c] = "queued" =>
               \A d \in Call : pc[d] = "queued" => c <= d,
           pc'[c] \in Live => pc[c] \in Live \cup {"queued"},
           tasks' \subseteq Call, tasks' \subseteq tasks \cup {c},
           tasks \ {c} \subseteq tasks', pc'[c] \in Live => c \in tasks',
           runner' \in Call \cup {0}, runnerAlive' \in BOOLEAN,
           UNCHANGED <<modeVars, loopVars, aggregatorVars, speechVars>>
    PROVE  IInv'
<1>1. Call \subseteq Nat \ {0}
  BY CallsAssumption DEF Call
<1> USE DEF IInv, modeVars, loopVars, aggregatorVars, speechVars
<1>2. TypeOK'
  BY DEF TypeOK
<1>3. DoneEnded'
  BY DEF DoneEnded, TypeOK
<1>4. QueueOrder'
  BY <1>1 DEF QueueOrder
<1>5. TasksStarted'
  BY DEF TasksStarted, TypeOK
<1>6. LoopBehind'
  BY <1>1 DEF LoopBehind, QueueOrder, TypeOK
<1> QED
  BY <1>2, <1>3, <1>4, <1>5, <1>6

\* The steps of a task and of its handler.
LEMMA TaskStepKeeps ==
    ASSUME IInv, NEW c \in Call, TaskStep(c)
    PROVE  IInv'
<1>1. TypeOK
  BY DEF IInv
<1> USE <1>1 DEF Live, PcType
<1>2. CASE RunnerTakes(c)
  BY <1>2, CallStepKeeps DEF RunnerTakes, historyVars, TypeOK
<1>3. CASE CallStarts(c)
  <2>1. wire' \in Seq(Message)
    BY <1>3, BroadcastType DEF CallStarts, Kinds
  <2> QED
    BY <1>3, <2>1, CallStepKeeps DEF CallStarts, historyVars, TypeOK
<1>4. CASE HandlerStarts(c)
  BY <1>4, CallStepKeeps DEF HandlerStarts, historyVars, TypeOK
<1>5. CASE TimeoutStopped(c)
  <2>1. /\ wire' \in Seq(Message)
        /\ sent' \in [Call -> {"no", "value", "empty"}]
    BY <1>5, SendResultType DEF TimeoutStopped
  <2> QED
    BY <1>5, <2>1, CallStepKeeps DEF TimeoutStopped, TypeOK
<1>6. CASE TaskStopped(c)
  BY <1>6, CallStepKeeps DEF TaskStopped, historyVars, TypeOK
<1> QED
  BY <1>2, <1>3, <1>4, <1>5, <1>6 DEF TaskStep

LEMMA HandlerStepKeeps ==
    ASSUME IInv, NEW c \in Call, HandlerStep(c)
    PROVE  IInv'
<1>1. TypeOK
  BY DEF IInv
<1> USE <1>1 DEF Live, PcType
<1>2. CASE Report(c)
  <2>1. /\ wire' \in Seq(Message)
        /\ sent' \in [Call -> {"no", "value", "empty"}]
    BY <1>2, SendResultType DEF Report, TypeOK
  <2>2. /\ pc[c] = "running" /\ c \in tasks
        /\ UNCHANGED <<modeVars, tasks, runner, runnerAlive, loopVars,
                       aggregatorVars, speechVars, gaveUp>>
    BY <1>2 DEF Report, TypeOK
  <2>3. /\ pc' \in [Call -> PcType] /\ pc'[c] \in {"reporting", "reported"}
        /\ \A d \in Call \ {c} : pc'[d] = pc[d]
        /\ timer' \in [Call -> BOOLEAN]
    BY <1>2 DEF Report, TypeOK
  <2> QED
    BY <2>1, <2>2, <2>3, CallStepKeeps DEF TypeOK
<1>3. CASE HandlerReturns(c)
  BY <1>3, CallStepKeeps DEF HandlerReturns, TaskEnds, modeVars, historyVars,
     TypeOK
<1>4. CASE HandlerGivesUp(c)
  <2>1. /\ pc[c] = "running" /\ timer' \in [Call -> BOOLEAN]
        /\ pc' \in [Call -> PcType] /\ pc'[c] \in {"ended", "deferred"}
        /\ \A d \in Call \ {c} : pc'[d] = pc[d]
        /\ gaveUp' = gaveUp \cup {c}
        /\ UNCHANGED <<modeVars, runnerAlive, loopVars, wire, aggregatorVars,
                       speechVars, sent>>
    BY <1>4 DEF HandlerGivesUp, TaskEnds, TypeOK, modeVars
  <2>2. /\ tasks' \subseteq tasks /\ tasks \ {c} \subseteq tasks'
        /\ runner' \in Call \cup {0}
    BY <1>4 DEF HandlerGivesUp, TaskEnds, TypeOK
  <2> QED
    BY <2>1, <2>2, CallStepKeeps DEF TypeOK
<1>5. CASE ReportLate(c)
  <2>1. /\ wire' \in Seq(Message)
        /\ sent' \in [Call -> {"no", "value", "empty"}]
    BY <1>5, SendResultType DEF ReportLate
  <2> QED
    BY <1>5, <2>1, CallStepKeeps DEF ReportLate, TypeOK
<1> QED
  BY <1>2, <1>3, <1>4, <1>5 DEF HandlerStep

\* A timeout changes no task.
LEMMA TimeoutKeeps ==
    ASSUME IInv, NEW c \in Call, TimesOut(c)
    PROVE  IInv'
<1>1. TypeOK
  BY DEF IInv
<1>2. /\ wire' \in Seq(Message)
      /\ sent' \in [Call -> {"no", "value", "empty"}]
  BY <1>1, SendResultType DEF TimesOut, Results
<1> QED
  BY <1>1, <1>2
     DEF TimesOut, IInv, TypeOK, DoneEnded, QueueOrder, TasksStarted,
         LoopBehind, modeVars, loopVars, aggregatorVars, speechVars

\* The aggregator and the speakers change nothing of the service.
LEMMA AggregateKeeps ==
    ASSUME IInv, Aggregate
    PROVE  IInv'
<1>1. TypeOK
  BY DEF IInv
<1>2. PICK i \in 1..Len(wire) :
         /\ Received(i)
         /\ \/ HandleStarted(i) \/ HandleInProgress(i) \/ HandleResult(i)
            \/ HandleCancel(i) \/ HandleInterruption(i)
  BY DEF Aggregate
<1>3. wire' \in Seq(Message)
  BY <1>1, <1>2, ReceivedType
<1>4. wire[i] \in Message
  BY <1>1, <1>2 DEF TypeOK
<1>5. wire[i].calls \subseteq Call
  BY <1>4 DEF Message
<1> DEFINE AggregatorTypes ==
      /\ inProgress' \in [Call -> {"no", "None", "frame"}]
      /\ context' \in [Call -> {"none", "running", "result", "completed",
                                "cancelled"}]
      /\ overtaken' \subseteq Call /\ runs' \in [Batches -> Nat]
      /\ userSpeaking' \in BOOLEAN /\ botSpeaking' \in BOOLEAN
      /\ deferred' \in BOOLEAN
<1>20. /\ inProgress \in [Call -> {"no", "None", "frame"}]
       /\ context \in [Call -> {"none", "running", "result", "completed",
                                "cancelled"}]
       /\ overtaken \subseteq Call /\ runs \in [Batches -> Nat]
       /\ userSpeaking \in BOOLEAN /\ botSpeaking \in BOOLEAN
       /\ deferred \in BOOLEAN
  BY <1>1 DEF TypeOK
<1>11. AggregatorTypes
  <2>6. CASE HandleStarted(i)
    BY <1>20, <2>6 DEF HandleStarted, speechVars
  <2>7. CASE HandleInProgress(i)
    BY <1>20, <2>7, <1>5 DEF HandleInProgress, speechVars
  <2>8. CASE HandleResult(i)
    <3>1. PICK c \in wire[i].calls :
            \/ UNCHANGED <<inProgress, context, runs, deferred>>
            \/ /\ inProgress' = [inProgress EXCEPT ![c] = "no"]
               /\ context' = [context EXCEPT ![c] =
                      IF wire[i].kind = "value" THEN "result" ELSE "completed"]
               /\ \/ runs' = [runs EXCEPT ![Batch[c]] = @ + 1]
                  \/ UNCHANGED runs
               /\ \/ UNCHANGED deferred
                  \/ PushAfterResult(i)
      BY <2>8 DEF HandleResult
    <3>2. c \in Call /\ Batch[c] \in Batches
      BY <1>5, <3>1 DEF Batches
    <3>3. deferred' \in BOOLEAN
      BY <1>1, <3>1 DEF PushAfterResult, TypeOK
    <3>4. runs' \in [Batches -> Nat]
      BY <1>1, <3>1, <3>2 DEF TypeOK
    <3>5. /\ inProgress' \in [Call -> {"no", "None", "frame"}]
          /\ context' \in [Call -> {"none", "running", "result", "completed",
                                    "cancelled"}]
      BY <1>1, <3>1, <3>2 DEF TypeOK
    <3> QED
      BY <1>20, <2>8, <3>3, <3>4, <3>5 DEF HandleResult
  <2>9. CASE HandleCancel(i)
    BY <1>20, <1>5, <2>9 DEF HandleCancel, speechVars
  <2>10. CASE HandleInterruption(i)
    BY <1>20, <2>10 DEF HandleInterruption, aggregatorVars
  <2> QED
    BY <1>2, <2>6, <2>7, <2>8, <2>9, <2>10
<1>12. UNCHANGED <<callVars, loopVars, historyVars>>
  BY DEF Aggregate
<1> HIDE DEF AggregatorTypes
<1>13. TypeOK'
  BY <1>1, <1>3, <1>11, <1>12
     DEF AggregatorTypes, TypeOK, callVars, modeVars, loopVars, historyVars
<1> QED
  BY <1>12, <1>13
     DEF IInv, DoneEnded, QueueOrder, TasksStarted, LoopBehind, callVars,
         modeVars, loopVars

LEMMA SpeechKeeps ==
    ASSUME IInv, Speech \/ UNCHANGED vars
    PROVE  IInv'
<1>1. /\ UNCHANGED <<callVars, loopVars, wire, aggregatorVars, historyVars>>
      /\ userSpeaking' \in BOOLEAN /\ botSpeaking' \in BOOLEAN
      /\ deferred' \in BOOLEAN
  BY DEF Speech, UserStartsSpeaking, UserStopsSpeaking, BotStartsSpeaking,
         BotStopsSpeaking, vars, speechVars, IInv, TypeOK
<1> QED
  BY <1>1 DEF IInv, TypeOK, DoneEnded, QueueOrder, TasksStarted, LoopBehind,
              callVars, modeVars, loopVars, aggregatorVars, historyVars

-----------------------------------------------------------------------------
(* The interruption.                                                       *)

LEMMA InterruptKeeps ==
    ASSUME IInv, Interrupt
    PROVE  /\ IInv'
           /\ forwarded' # forwarded
                => \A d \in Call \ async : pc'[d] \notin Live
<1>1. LoopGoesOn(0, {}) /\ loopAt = 0 /\ UNCHANGED <<parallel, async, timer>>
  BY DEF Interrupt, modeVars
<1>2. loopSize' \in Nat
  BY TasksFinite DEF Interrupt, IInv
<1>3. /\ interruptions' = interruptions + 1
      /\ UNCHANGED <<modeVars, timer, aggregatorVars, speechVars, historyVars>>
  BY DEF Interrupt
<1>4. /\ loopAt' \in Call \cup {0} /\ loopDone' \subseteq Call
      /\ pc' \in [Call -> PcType] /\ tasks' \subseteq Call
      /\ wire' \in Seq(Message)
      /\ runner' \in Call \cup {0} /\ runnerAlive' \in BOOLEAN
      /\ cancelled' \subseteq Call /\ forwarded' \in Nat
      /\ \A d \in Call : pc'[d] \in Live => d \in tasks'
      /\ DoneEnded' /\ QueueOrder' /\ TasksStarted' /\ LoopBehind'
      /\ forwarded' # forwarded
           => \A d \in Call \ async : pc'[d] \notin Live
  BY <1>1, LoopTurn
<1>5. TypeOK'
  BY <1>2, <1>3, <1>4
     DEF IInv, TypeOK, modeVars, aggregatorVars, speechVars, historyVars
<1> QED
  BY <1>4, <1>5 DEF IInv

LEMMA ContinueKeeps ==
    ASSUME IInv, LoopContinues
    PROVE  /\ IInv'
           /\ forwarded' # forwarded
                => \A d \in Call \ async : pc'[d] \notin Live
<1>1. TypeOK /\ loopAt \in Call /\ pc[loopAt] = "ended"
  BY DEF LoopContinues, IInv, TypeOK
<1>2. UNCHANGED <<parallel, async, timer>>
  BY DEF LoopContinues, modeVars
<1>3. CASE LoopGoesOn(loopAt, {loopAt})
  BY <1>1, <1>2, <1>3, LoopTurn
     DEF LoopContinues, IInv, TypeOK, aggregatorVars, speechVars, historyVars
<1>4. CASE /\ loopAt' = 0 /\ loopDone' = {}
           /\ Broadcast("cancel", {loopAt})
           /\ UNCHANGED <<pc, tasks, runner, runnerAlive, cancelled, forwarded>>
  <2>1. wire' \in Seq(Message)
    BY <1>1, <1>4, BroadcastType DEF Kinds
  <2> QED
    BY <1>1, <1>2, <1>4, <2>1
       DEF LoopContinues, IInv, TypeOK, DoneEnded, QueueOrder, TasksStarted,
           LoopBehind, aggregatorVars, speechVars, historyVars
<1> QED
  BY <1>3, <1>4 DEF LoopContinues

LEMMA CancelAgainKeeps ==
    ASSUME IInv, LoopCancelsAgain
    PROVE  IInv'
<1>1. loopAt \in Call /\ TypeOK
  BY DEF LoopCancelsAgain, IInv, TypeOK
<1> QED
  BY <1>1, CallStepKeeps
     DEF LoopCancelsAgain, TypeOK, Live, PcType, historyVars

\* A step keeps the invariant, and passes an interruption on only if no call
\* of the function has a task.
LEMMA Step ==
    ASSUME IInv, [Next]_vars
    PROVE  /\ IInv'
           /\ forwarded' # forwarded
                => \A d \in Call \ async : pc'[d] \notin Live
<1>1. CASE Interrupt
  BY <1>1, InterruptKeeps
<1>2. CASE LoopContinues
  BY <1>2, ContinueKeeps
<1>3. CASE \E b \in Batches : RunFunctionCalls(b)
  BY <1>3, StartKeeps DEF RunFunctionCalls, loopVars
<1>4. CASE \E c \in Call : TaskStep(c)
  BY <1>4, TaskStepKeeps
     DEF TaskStep, RunnerTakes, CallStarts, HandlerStarts, TimeoutStopped,
         TaskStopped, loopVars
<1>5. CASE \E c \in Call : HandlerStep(c)
  BY <1>5, HandlerStepKeeps
     DEF HandlerStep, Report, HandlerReturns, HandlerGivesUp, ReportLate,
         loopVars
<1>6. CASE \E c \in Call : TimesOut(c)
  BY <1>6, TimeoutKeeps DEF TimesOut, loopVars
<1>7. CASE LoopCancelsAgain
  BY <1>7, CancelAgainKeeps DEF LoopCancelsAgain, loopVars
<1>8. CASE Aggregate
  BY <1>8, AggregateKeeps DEF Aggregate, loopVars
<1>9. CASE Speech \/ UNCHANGED vars
  BY <1>9, SpeechKeeps
     DEF Speech, UserStartsSpeaking, UserStopsSpeaking, BotStartsSpeaking,
         BotStopsSpeaking, loopVars, vars
<1> QED
  BY <1>1, <1>2, <1>3, <1>4, <1>5, <1>6, <1>7, <1>8, <1>9 DEF Next

LEMMA InitInv == Init => IInv
<1> SUFFICES ASSUME Init PROVE IInv
  OBVIOUS
<1>1. TypeOK
  <2>1. wire \in Seq(Message) /\ runs \in [Batches -> Nat]
    BY DEF Init
  <2>2. parallel \in BOOLEAN /\ async \subseteq Call
    BY CallsAssumption DEF Init
  <2> QED
    BY <2>1, <2>2 DEF Init, TypeOK, PcType, Live
<1> QED
  BY <1>1 DEF Init, IInv, DoneEnded, QueueOrder, TasksStarted, LoopBehind

-----------------------------------------------------------------------------

\* The variables keep their types, and a task that has not ended is in the
\* dictionary of the calls that an interruption looks at.
THEOREM CallsTypeCorrect == Spec => []TypeOK
<1>1. IInv => TypeOK
  BY DEF IInv
<1>2. IInv /\ [Next]_vars => IInv'
  BY Step
<1> QED
  BY <1>1, <1>2, InitInv, PTL DEF Spec

\* An interruption that the service passes on has cancelled all calls of the
\* function, for any number of calls, batches and interruptions.
THEOREM InterruptionsCancelAll == Spec => InterruptionCancelsAll
<1>1. IInv /\ [Next]_vars => IInv'
  BY Step
<1>2. IInv /\ [Next]_vars
        => [forwarded' # forwarded
              => \A c \in Call \ async : pc'[c] \notin Live]_vars
  BY Step
<1> QED
  BY <1>1, <1>2, InitInv, PTL DEF Spec, InterruptionCancelsAll

-----------------------------------------------------------------------------
(* What the context says of a call, and when the LLM runs.                 *)
(*                                                                         *)
(* The wire keeps the frames of a call in order: its start is announced    *)
(* before anything else is said of it, it is in progress before it has a   *)
(* result (CallOrder), and a value follows the progress frames of all      *)
(* calls of its batch (BatchOrder).  So the aggregator knows every call of *)
(* a batch when the first value of the batch arrives, and the first result *)
(* it gets for a call is the first that was sent (ResultInv).  A cancelled *)
(* call has left the context, is about to, or its cancellation came before *)
(* its start (CancelInv).                                                  *)

\* A frame of this kind about the call is on its way.
On(s, kind, c) == \E i \in 1..Len(s) : s[i].kind = kind /\ c \in s[i].calls

\* The first result of the call on its way is of this kind.
Leads(s, kind, c) ==
    \E i \in 1..Len(s) :
        /\ s[i].kind = kind /\ c \in s[i].calls
        /\ \A j \in 1..Len(s) : s[j].kind \in Results /\ c \in s[j].calls => i <= j

\* The frames of a call: its start is announced before anything else is said
\* of it, once, and it is in progress before it has a result.
CallOrder(s) ==
    \A i, j \in 1..Len(s), c \in Call :
        c \in s[i].calls /\ c \in s[j].calls =>
            /\ s[i].kind = "started" => i <= j
            /\ s[i].kind = "progress" /\ s[j].kind = "progress" => i = j
            /\ s[i].kind = "progress" /\ s[j].kind \in Results => i < j

\* A value follows the progress frames of all calls of its batch.
BatchOrder(s) ==
    \A i, j \in 1..Len(s), c, d \in Call :
        /\ s[i].kind = "progress" /\ c \in s[i].calls
        /\ s[j].kind = "value" /\ d \in s[j].calls
        /\ Batch[c] = Batch[d]
        => i < j

Single(s) ==
    \A i \in 1..Len(s) :
        s[i].kind \in {"progress", "value", "empty"}
            => \E c \in Call : s[i].calls = {c}

WireInv == Single(wire) /\ CallOrder(wire) /\ (parallel => BatchOrder(wire))

\* The states of a call that has been told to be in progress, and of one whose
\* handler has been called.
Begun == {"yielded", "running", "reporting", "reported", "stopping", "deferred"}
Handled == {"running", "reporting", "reported", "deferred"}

ProgressSent(c) == context[c] # "none" \/ On(wire, "progress", c)

CallInv(c) ==
    /\ pc[c] = "idle" => inProgress[c] = "no" /\ \A k \in Kinds : ~On(wire, k, c)
    /\ pc[c] \in {"idle", "queued", "created"} =>
           /\ ~timer[c] /\ sent[c] = "no" /\ context[c] = "none"
           /\ ~On(wire, "progress", c)
    /\ pc[c] \in Begun \/ timer[c] \/ sent[c] # "no" => ProgressSent(c)
    /\ pc[c] = "reported" => sent[c] # "no"
    /\ pc[c] = "stopping" => c \in cancelled
    /\ pc[c] = "deferred" => c \in gaveUp /\ c \notin tasks
    /\ pc[c] = "ended" => c \in gaveUp \cup cancelled \/ sent[c] # "no"
    /\ pc[c] = "ended" /\ c \in tasks => c \in cancelled

ContextInv(c) ==
    /\ On(wire, "started", c) => context[c] = "none" /\ inProgress[c] = "no"
    /\ On(wire, "progress", c) => context[c] = "none"
    /\ inProgress[c] = "frame" <=> context[c] = "running"
    /\ inProgress[c] = "None" => context[c] = "none"
    /\ context[c] = "cancelled" => c \in cancelled

ResultInv(c) ==
    /\ sent[c] = "no" => \A k \in Results : ~On(wire, k, c)
    /\ sent[c] # "no" /\ context[c] \in {"none", "running"}
           => Leads(wire, sent[c], c)
    /\ context[c] = "result" => sent[c] = "value"
    /\ context[c] = "completed" => sent[c] = "empty"

CancelInv(c) ==
    /\ On(wire, "cancel", c) => c \in cancelled
    /\ loopAt = c => /\ c \in cancelled
                     /\ pc[c] \in {"stopping", "reporting", "reported", "ended"}
    /\ c \in cancelled => c \notin async
    /\ c \in cancelled /\ loopAt # c =>
           /\ pc[c] = "ended"
           /\ \/ c \in overtaken
              \/ On(wire, "cancel", c)
              \/ context[c] # "running" /\ ~On(wire, "progress", c)

GroupInv(c) ==
    parallel =>
        /\ pc[c] # "queued"
        /\ loopAt # 0 => pc[c] # "created"
        /\ pc[c] \notin {"idle", "created"} => ProgressSent(c)
        /\ \A d \in Group(Batch[c]) :
              /\ pc[c] = "idle" <=> pc[d] = "idle"
              /\ pc[c] \in Handled \/ On(wire, "value", c)
                    => pc[d] \notin {"idle", "created"}

RunInv ==
    parallel =>
        \A b \in Batches :
            /\ runs[b] <= 1
            /\ runs[b] = 1 =>
                 \A c \in Group(b) : inProgress[c] = "no" /\ context[c] # "none"
            /\ (\A c \in Group(b) : context[c] = "result") => runs[b] = 1

OutcomeInv ==
    /\ WireInv /\ RunInv
    /\ \A c \in Call :
          CallInv(c) /\ ContextInv(c) /\ ResultInv(c) /\ CancelInv(c) /\ GroupInv(c)

-----------------------------------------------------------------------------
(* Frames appended to the wire and taken from it.                          *)

LEMMA AppendFacts ==
    ASSUME NEW s \in Seq(Message), NEW m \in Message
    PROVE  /\ Append(s, m) \in Seq(Message)
           /\ Len(s) \in Nat /\ Len(Append(s, m)) = Len(s) + 1
           /\ \A i \in 1..Len(s) : Append(s, m)[i] = s[i] /\ s[i] \in Message
           /\ Append(s, m)[Len(s) + 1] = m
           /\ m.kind \in Kinds /\ m.calls \subseteq Call
<1>1. /\ Append(s, m) \in Seq(Message)
      /\ Len(s) \in Nat /\ Len(Append(s, m)) = Len(s) + 1
      /\ \A i \in 1..Len(s) : Append(s, m)[i] = s[i]
      /\ Append(s, m)[Len(s) + 1] = m
  BY AppendProperties
<1>2. \A i \in 1..Len(s) : s[i] \in Message
  OBVIOUS
<1>3. m.kind \in Kinds /\ m.calls \subseteq Call
  BY DEF Message
<1>4. QED
  BY <1>1, <1>2, <1>3

LEMMA OnAppend ==
    ASSUME NEW s \in Seq(Message), NEW m \in Message, NEW k, NEW c
    PROVE  On(Append(s, m), k, c) <=> On(s, k, c) \/ (m.kind = k /\ c \in m.calls)
<1> DEFINE t == Append(s, m)
<1>1. /\ Len(s) \in Nat /\ Len(t) = Len(s) + 1
      /\ \A i \in 1..Len(s) : t[i] = s[i]
      /\ t[Len(s) + 1] = m
  BY AppendFacts
<1> HIDE DEF t
<1>2. ASSUME NEW i \in 1..Len(t), t[i].kind = k, c \in t[i].calls
      PROVE  On(s, k, c) \/ (m.kind = k /\ c \in m.calls)
  <2>1. CASE i \in 1..Len(s)
    <3>1. s[i].kind = k /\ c \in s[i].calls
      BY <1>1, <1>2, <2>1
    <3>2. QED
      BY <2>1, <3>1 DEF On
  <2>2. CASE i = Len(s) + 1
    BY <1>1, <1>2, <2>2
  <2>3. QED
    BY <1>1, <2>1, <2>2
<1>4. ASSUME NEW i \in 1..Len(s), s[i].kind = k, c \in s[i].calls
      PROVE  On(t, k, c)
  <2>1. i \in 1..Len(t) /\ t[i] = s[i]
    BY <1>1
  <2>2. QED
    BY <1>4, <2>1 DEF On
<1>5. ASSUME m.kind = k, c \in m.calls PROVE On(t, k, c)
  <2>1. Len(s) + 1 \in 1..Len(t)
    BY <1>1
  <2>2. QED
    BY <1>1, <1>5, <2>1 DEF On
<1>6. On(t, k, c) <=> On(s, k, c) \/ (m.kind = k /\ c \in m.calls)
  BY <1>2, <1>4, <1>5 DEF On
<1>7. QED
  BY <1>6 DEF t

\* What may be appended: the start of a call before all its frames, and its
\* progress once and before its results.
LEMMA OrderAppend ==
    ASSUME NEW s \in Seq(Message), NEW m \in Message, Single(s), CallOrder(s),
           m.kind \in {"progress", "value", "empty"} => \E c \in Call : m.calls = {c},
           m.kind = "started" =>
               \A c \in m.calls : \A k \in Kinds : ~On(s, k, c),
           m.kind = "progress" =>
               \A c \in m.calls : \A k \in {"progress", "value", "empty"} : ~On(s, k, c)
    PROVE  Single(Append(s, m)) /\ CallOrder(Append(s, m))
<1> DEFINE t == Append(s, m)
<1>1. /\ Len(s) \in Nat /\ Len(t) = Len(s) + 1
      /\ \A i \in 1..Len(s) : t[i] = s[i] /\ s[i].kind \in Kinds
      /\ t[Len(s) + 1] = m
  <2>1. \A n \in Message : n.kind \in Kinds
    BY DEF Message
  <2>2. QED
    BY <2>1, AppendFacts
<1> HIDE DEF t
<1>2. Single(t)
  <2> SUFFICES ASSUME NEW i \in 1..Len(t), t[i].kind \in {"progress", "value", "empty"}
               PROVE  \E c \in Call : t[i].calls = {c}
    BY DEF Single
  <2>1. CASE i \in 1..Len(s)
    BY <1>1, <2>1 DEF Single
  <2>2. CASE i = Len(s) + 1
    BY <1>1, <2>2
  <2>3. QED
    BY <1>1, <2>1, <2>2
<1>3. CallOrder(t)
  <2> SUFFICES ASSUME NEW i \in 1..Len(t), NEW j \in 1..Len(t), NEW c \in Call,
                      c \in t[i].calls, c \in t[j].calls
               PROVE  /\ t[i].kind = "started" => i <= j
                      /\ t[i].kind = "progress" /\ t[j].kind = "progress" => i = j
                      /\ t[i].kind = "progress" /\ t[j].kind \in Results => i < j
    BY DEF CallOrder
  <2>1. CASE i <= Len(s) /\ j <= Len(s)
    <3>1. i \in 1..Len(s) /\ j \in 1..Len(s) /\ t[i] = s[i] /\ t[j] = s[j]
      BY <1>1, <2>1
    <3>2. QED
      BY <3>1 DEF CallOrder
  <2>2. CASE i = Len(s) + 1 /\ j <= Len(s)
    <3>1. j \in 1..Len(s) /\ t[i] = m /\ t[j] = s[j] /\ s[j].kind \in Kinds
      BY <1>1, <2>2
    <3>2. On(s, s[j].kind, c)
      BY <3>1 DEF On
    <3>3. m.kind # "started"
      BY <3>1, <3>2
    <3>4. m.kind = "progress" => s[j].kind \notin {"progress", "value", "empty"}
      BY <3>1, <3>2
    <3>5. QED
      BY <3>1, <3>3, <3>4 DEF Results
  <2>3. CASE i <= Len(s) /\ j = Len(s) + 1
    <3>1. i \in 1..Len(s) /\ t[j] = m /\ t[i] = s[i] /\ i < j
      BY <1>1, <2>3
    <3>2. On(s, s[i].kind, c)
      BY <3>1 DEF On
    <3>3. m.kind = "progress" => s[i].kind # "progress"
      BY <3>1, <3>2
    <3>4. QED
      BY <1>1, <3>1, <3>3
  <2>4. CASE i = Len(s) + 1 /\ j = Len(s) + 1
    BY <1>1, <2>4 DEF Results
  <2>5. QED
    BY <1>1, <2>1, <2>2, <2>3, <2>4
<1>4. QED
  BY <1>2, <1>3 DEF t

LEMMA BatchAppend ==
    ASSUME NEW s \in Seq(Message), NEW m \in Message, BatchOrder(s),
           m.kind = "progress" =>
               \A c \in m.calls : \A d \in Group(Batch[c]) : ~On(s, "value", d)
    PROVE  BatchOrder(Append(s, m))
<1> DEFINE t == Append(s, m)
<1>1. /\ Len(s) \in Nat /\ Len(t) = Len(s) + 1
      /\ \A i \in 1..Len(s) : t[i] = s[i]
      /\ t[Len(s) + 1] = m
  BY AppendFacts
<1> HIDE DEF t
<1> SUFFICES ASSUME NEW i \in 1..Len(t), NEW j \in 1..Len(t),
                    NEW c \in Call, NEW d \in Call,
                    t[i].kind = "progress", c \in t[i].calls,
                    t[j].kind = "value", d \in t[j].calls, Batch[c] = Batch[d]
             PROVE  i < j
  BY DEF BatchOrder, t
<1>2. CASE i <= Len(s) /\ j <= Len(s)
  <2>1. i \in 1..Len(s) /\ j \in 1..Len(s) /\ t[i] = s[i] /\ t[j] = s[j]
    BY <1>1, <1>2
  <2>2. QED
    BY <2>1 DEF BatchOrder
<1>3. CASE i = Len(s) + 1 /\ j <= Len(s)
  <2>1. j \in 1..Len(s) /\ t[i] = m /\ t[j] = s[j]
    BY <1>1, <1>3
  <2>2. On(s, "value", d) /\ d \in Group(Batch[c])
    BY <2>1 DEF On, Group
  <2>3. QED
    BY <2>1, <2>2
<1>4. CASE i = Len(s) + 1 /\ j = Len(s) + 1
  BY <1>1, <1>4
<1>5. QED
  BY <1>1, <1>2, <1>3, <1>4

LEMMA LeadsAppend ==
    ASSUME NEW s \in Seq(Message), NEW m \in Message, NEW k, NEW c,
           \/ Leads(s, k, c)
           \/ /\ m.kind = k /\ c \in m.calls
              /\ \A r \in Results : ~On(s, r, c)
    PROVE  Leads(Append(s, m), k, c)
<1> DEFINE t == Append(s, m)
<1>1. /\ Len(s) \in Nat /\ Len(t) = Len(s) + 1
      /\ \A i \in 1..Len(s) : t[i] = s[i]
      /\ t[Len(s) + 1] = m
  BY AppendFacts
<1> HIDE DEF t
<1>2. ASSUME Leads(s, k, c) PROVE Leads(t, k, c)
  <2>1. PICK i \in 1..Len(s) :
           /\ s[i].kind = k /\ c \in s[i].calls
           /\ \A j \in 1..Len(s) : s[j].kind \in Results /\ c \in s[j].calls => i <= j
    BY <1>2 DEF Leads
  <2>2. i \in 1..Len(t) /\ t[i] = s[i]
    BY <1>1
  <2>3. \A j \in 1..Len(t) : t[j].kind \in Results /\ c \in t[j].calls => i <= j
    BY <1>1, <2>1
  <2>4. QED
    BY <2>1, <2>2, <2>3 DEF Leads
<1>3. ASSUME m.kind = k, c \in m.calls, \A r \in Results : ~On(s, r, c)
      PROVE  Leads(t, k, c)
  <2>1. \A j \in 1..Len(s) : ~(s[j].kind \in Results /\ c \in s[j].calls)
    BY <1>3 DEF On
  <2>2. \A j \in 1..Len(t) : t[j].kind \in Results /\ c \in t[j].calls => Len(s) + 1 <= j
    BY <1>1, <2>1
  <2>3. Len(s) + 1 \in 1..Len(t)
    BY <1>1
  <2>4. QED
    BY <1>1, <1>3, <2>2, <2>3 DEF Leads
<1>4. QED
  BY <1>2, <1>3 DEF t

\* Where a frame was before another one was taken out, and where it is now.
Kept(i, k) == IF k < i THEN k ELSE k + 1
Moved(i, j) == IF j < i THEN j ELSE j - 1

LEMMA ReceivedFacts ==
    ASSUME wire \in Seq(Message), NEW i \in 1..Len(wire), Received(i)
    PROVE  /\ Len(wire) \in Nat /\ Len(wire') = Len(wire) - 1
           /\ \A k \in 1..Len(wire') :
                 /\ Kept(i, k) \in 1..Len(wire) \ {i}
                 /\ wire'[k] = wire[Kept(i, k)]
           /\ \A j \in 1..Len(wire) \ {i} :
                 /\ Moved(i, j) \in 1..Len(wire')
                 /\ wire'[Moved(i, j)] = wire[j]
                 /\ Kept(i, Moved(i, j)) = j
<1> DEFINE a == SubSeq(wire, 1, i - 1)
           z == SubSeq(wire, i + 1, Len(wire))
           L == Len(wire)
<1>1. L \in Nat /\ i \in 1..L
  OBVIOUS
<1>2. /\ Len(a) = i - 1 /\ \A k \in 1..(i - 1) : a[k] = wire[k]
  BY <1>1
<1>3. /\ Len(z) = L - i /\ \A k \in 1..(L - i) : z[k] = wire[i + k]
  <2>1. \A k \in (i + 1)..L : wire[k] \in Message
    BY <1>1
  <2>2. QED
    BY <1>1, <2>1
<1>4. a \in Seq(Message) /\ z \in Seq(Message) /\ wire' = a \o z
  <2>1. \A k \in 1..L : wire[k] \in Message
    OBVIOUS
  <2>2. \A k \in 1..(i - 1) : wire[k] \in Message
    BY <1>1, <2>1
  <2>3. \A k \in (i + 1)..L : wire[k] \in Message
    BY <1>1, <2>1
  <2>4. QED
    BY <1>1, <2>2, <2>3, SubSeqProperties DEF Received
<1> HIDE DEF a, z
<1>5. /\ Len(wire') = L - 1
      /\ \A k \in 1..(i - 1) : wire'[k] = wire[k]
      /\ \A k \in 1..(L - i) : wire'[(i - 1) + k] = wire[i + k]
  <2>1. Len(a \o z) = Len(a) + Len(z)
    BY <1>4
  <2>2. \A k \in 1..Len(a) : (a \o z)[k] = a[k]
    BY <1>4
  <2>3. \A k \in 1..Len(z) : (a \o z)[Len(a) + k] = z[k]
    BY <1>4
  <2>4. Len(a \o z) = L - 1
    BY <1>1, <1>2, <1>3, <2>1
  <2>5. ASSUME NEW k \in 1..(i - 1) PROVE (a \o z)[k] = wire[k]
    BY <1>1, <1>2, <2>2
  <2>6. ASSUME NEW k \in 1..(L - i) PROVE (a \o z)[(i - 1) + k] = wire[i + k]
    BY <1>1, <1>2, <1>3, <2>3
  <2>7. QED
    BY <1>4, <2>4, <2>5, <2>6
<1>6. \A k \in i..(L - 1) : wire'[k] = wire[k + 1]
  <2> SUFFICES ASSUME NEW k \in i..(L - 1) PROVE wire'[k] = wire[k + 1]
    OBVIOUS
  <2>1. k - (i - 1) \in 1..(L - i) /\ (i - 1) + (k - (i - 1)) = k
        /\ i + (k - (i - 1)) = k + 1
    BY <1>1
  <2>2. QED
    BY <1>5, <2>1
<1> HIDE DEF L
<1>7. \A k \in 1..Len(wire') :
         Kept(i, k) \in 1..L \ {i} /\ wire'[k] = wire[Kept(i, k)]
  BY <1>1, <1>5, <1>6 DEF Kept
<1>8. \A j \in 1..L \ {i} :
         Moved(i, j) \in 1..Len(wire') /\ wire'[Moved(i, j)] = wire[j]
           /\ Kept(i, Moved(i, j)) = j
  <2> SUFFICES ASSUME NEW j \in 1..L \ {i}
               PROVE  Moved(i, j) \in 1..Len(wire') /\ wire'[Moved(i, j)] = wire[j]
                        /\ Kept(i, Moved(i, j)) = j
    OBVIOUS
  <2>1. CASE j < i
    BY <1>1, <1>5, <2>1 DEF Moved, Kept
  <2>2. CASE j > i
    <3>1. j - 1 \in i..(L - 1) /\ (j - 1) + 1 = j
      BY <1>1, <2>2
    <3>2. QED
      BY <1>1, <1>5, <1>6, <2>2, <3>1 DEF Moved, Kept
  <2>3. QED
    BY <1>1, <2>1, <2>2
<1>9. QED
  BY <1>1, <1>5, <1>7, <1>8 DEF L

\* The frames on the wire after one has been received.
LEMMA ReceivedOn ==
    ASSUME wire \in Seq(Message), NEW i \in 1..Len(wire), Received(i), NEW k, NEW c
    PROVE  /\ On(wire', k, c) => On(wire, k, c)
           /\ On(wire, k, c) =>
                On(wire', k, c) \/ (wire[i].kind = k /\ c \in wire[i].calls)
<1>1. ASSUME On(wire', k, c) PROVE On(wire, k, c)
  <2>1. PICK n \in 1..Len(wire') : wire'[n].kind = k /\ c \in wire'[n].calls
    BY <1>1, Zenon DEF On
  <2>2. Kept(i, n) \in 1..Len(wire) /\ wire'[n] = wire[Kept(i, n)]
    BY ReceivedFacts
  <2>3. QED
    BY <2>1, <2>2, Zenon DEF On
<1>2. ASSUME On(wire, k, c), ~(wire[i].kind = k /\ c \in wire[i].calls)
      PROVE  On(wire', k, c)
  <2>1. PICK n \in 1..Len(wire) : wire[n].kind = k /\ c \in wire[n].calls
    BY <1>2, Zenon DEF On
  <2>2. Moved(i, n) \in 1..Len(wire') /\ wire'[Moved(i, n)] = wire[n]
    BY <1>2, <2>1, ReceivedFacts
  <2>3. QED
    BY <2>1, <2>2, Zenon DEF On
<1>3. QED
  BY <1>1, <1>2

\* The order of the others does not change.
LEMMA ReceivedOrder ==
    ASSUME wire \in Seq(Message), NEW i \in 1..Len(wire), Received(i)
    PROVE  /\ Single(wire) => Single(wire')
           /\ CallOrder(wire) => CallOrder(wire')
           /\ BatchOrder(wire) => BatchOrder(wire')
<1>1. /\ \A n \in 1..Len(wire') :
            Kept(i, n) \in 1..Len(wire) /\ wire'[n] = wire[Kept(i, n)]
      /\ Len(wire) \in Nat /\ Len(wire') \in Nat
  BY ReceivedFacts
<1>2. \A n, m \in 1..Len(wire') :
         /\ n < m <=> Kept(i, n) < Kept(i, m)
         /\ n <= m <=> Kept(i, n) <= Kept(i, m)
         /\ n = m <=> Kept(i, n) = Kept(i, m)
  BY <1>1 DEF Kept
<1> HIDE DEF Kept
<1>3. Single(wire) => Single(wire')
  BY <1>1, Zenon DEF Single
<1>4. ASSUME CallOrder(wire) PROVE CallOrder(wire')
  <2> SUFFICES ASSUME NEW n \in 1..Len(wire'), NEW m \in 1..Len(wire'), NEW c \in Call,
                      c \in wire'[n].calls, c \in wire'[m].calls
               PROVE  /\ wire'[n].kind = "started" => n <= m
                      /\ wire'[n].kind = "progress" /\ wire'[m].kind = "progress" => n = m
                      /\ wire'[n].kind = "progress" /\ wire'[m].kind \in Results => n < m
    BY DEF CallOrder
  <2>1. /\ wire'[n].kind = "started" => Kept(i, n) <= Kept(i, m)
        /\ wire'[n].kind = "progress" /\ wire'[m].kind = "progress"
             => Kept(i, n) = Kept(i, m)
        /\ wire'[n].kind = "progress" /\ wire'[m].kind \in Results
             => Kept(i, n) < Kept(i, m)
    BY <1>1, <1>4 DEF CallOrder
  <2>2. QED
    BY <1>2, <2>1
<1>5. ASSUME BatchOrder(wire) PROVE BatchOrder(wire')
  <2> SUFFICES ASSUME NEW n \in 1..Len(wire'), NEW m \in 1..Len(wire'),
                      NEW c \in Call, NEW d \in Call,
                      wire'[n].kind = "progress", c \in wire'[n].calls,
                      wire'[m].kind = "value", d \in wire'[m].calls,
                      Batch[c] = Batch[d]
               PROVE  n < m
    BY DEF BatchOrder
  <2>1. Kept(i, n) < Kept(i, m)
    BY <1>1, <1>5 DEF BatchOrder
  <2>2. QED
    BY <1>2, <2>1
<1>6. QED
  BY <1>3, <1>4, <1>5

\* The first result stays the first until it is received.
LEMMA ReceivedLeads ==
    ASSUME wire \in Seq(Message), NEW i \in 1..Len(wire), Received(i), NEW k, NEW c,
           Leads(wire, k, c), ~(wire[i].kind \in Results /\ c \in wire[i].calls),
           k \in Results
    PROVE  Leads(wire', k, c)
<1>1. PICK n \in 1..Len(wire) :
         /\ wire[n].kind = k /\ c \in wire[n].calls
         /\ \A m \in 1..Len(wire) : wire[m].kind \in Results /\ c \in wire[m].calls => n <= m
  BY Zenon DEF Leads
<1>2. n # i
  BY <1>1
<1>3. /\ Moved(i, n) \in 1..Len(wire') /\ wire'[Moved(i, n)] = wire[n]
      /\ Kept(i, Moved(i, n)) = n
      /\ Len(wire) \in Nat /\ Len(wire') \in Nat
  BY <1>2, ReceivedFacts
<1>4. ASSUME NEW m \in 1..Len(wire'), wire'[m].kind \in Results, c \in wire'[m].calls
      PROVE  Moved(i, n) <= m
  <2>1. Kept(i, m) \in 1..Len(wire) /\ wire'[m] = wire[Kept(i, m)]
    BY ReceivedFacts
  <2>2. n <= Kept(i, m)
    BY <1>1, <1>4, <2>1
  <2>3. Kept(i, Moved(i, n)) <= Kept(i, m)
    BY <1>3, <2>2
  <2>4. QED
    BY <1>3, <2>3 DEF Kept
<1>5. QED
  BY <1>1, <1>3, <1>4, Zenon DEF Leads

\* What is known of a frame that is received: nothing overtook the start of a call,
\* and what is not urgent is the first frame.
LEMMA ArrivalFacts ==
    ASSUME wire \in Seq(Message), Single(wire), CallOrder(wire),
           NEW i \in 1..Len(wire), Arrives(i), Received(i), NEW c \in wire[i].calls
    PROVE  /\ c \in Call
           /\ wire[i].kind = "started" => ~On(wire', "started", c)
           /\ wire[i].kind = "progress" =>
                 /\ wire[i].calls = {c}
                 /\ ~On(wire', "progress", c) /\ ~On(wire, "started", c)
           /\ wire[i].kind \in Results =>
                 /\ wire[i].calls = {c}
                 /\ ~On(wire, "progress", c) /\ ~On(wire, "started", c)
                 /\ \A k : Leads(wire, k, c) => k = wire[i].kind
<1>1. /\ wire[i] \in Message /\ Len(wire) \in Nat
  OBVIOUS
<1>2. c \in Call
  BY <1>1 DEF Message
<1>3. ~Urgent(wire[i]) => i = 1
  BY DEF Arrives
<1>4. wire[i].kind \in {"progress", "value", "empty"} => i = 1 /\ wire[i].calls = {c}
  BY <1>3 DEF Urgent, Single
<1>5. ASSUME wire[i].kind = "started", On(wire', "started", c) PROVE FALSE
  <2>1. PICK n \in 1..Len(wire') : wire'[n].kind = "started" /\ c \in wire'[n].calls
    BY <1>5, Zenon DEF On
  <2>2. Kept(i, n) \in 1..Len(wire) \ {i} /\ wire'[n] = wire[Kept(i, n)]
    BY ReceivedFacts
  <2>3. i <= Kept(i, n) /\ Kept(i, n) <= i
    BY <1>2, <1>5, <2>1, <2>2 DEF CallOrder
  <2>4. QED
    BY <2>2, <2>3
<1>6. ASSUME wire[i].kind = "progress", On(wire', "progress", c) PROVE FALSE
  <2>1. PICK n \in 1..Len(wire') : wire'[n].kind = "progress" /\ c \in wire'[n].calls
    BY <1>6, Zenon DEF On
  <2>2. Kept(i, n) \in 1..Len(wire) \ {i} /\ wire'[n] = wire[Kept(i, n)]
    BY ReceivedFacts
  <2>3. i = Kept(i, n)
    BY <1>2, <1>6, <2>1, <2>2 DEF CallOrder
  <2>4. QED
    BY <2>2, <2>3
<1>7. ASSUME wire[i].kind \in {"progress", "value", "empty"}, On(wire, "started", c)
      PROVE  FALSE
  <2>1. PICK n \in 1..Len(wire) : wire[n].kind = "started" /\ c \in wire[n].calls
    BY <1>7, Zenon DEF On
  <2>2. n <= 1
    BY <1>2, <1>4, <1>7, <2>1 DEF CallOrder
  <2>3. n = i
    BY <1>1, <1>4, <1>7, <2>1, <2>2
  <2>4. QED
    BY <1>7, <2>1, <2>3
<1>8. ASSUME wire[i].kind \in Results, On(wire, "progress", c) PROVE FALSE
  <2>1. PICK n \in 1..Len(wire) : wire[n].kind = "progress" /\ c \in wire[n].calls
    BY <1>8, Zenon DEF On
  <2>2. n < i
    BY <1>2, <1>8, <2>1 DEF CallOrder
  <2>3. QED
    BY <1>1, <1>4, <1>8, <2>1, <2>2 DEF Results
<1>9. ASSUME wire[i].kind \in Results, NEW k, Leads(wire, k, c) PROVE k = wire[i].kind
  <2>1. PICK n \in 1..Len(wire) :
           /\ wire[n].kind = k
           /\ \A m \in 1..Len(wire) : wire[m].kind \in Results /\ c \in wire[m].calls => n <= m
    BY <1>9, Zenon DEF Leads
  <2>2. n <= i /\ i = 1
    BY <1>4, <1>9, <2>1 DEF Results
  <2>3. n = i
    BY <1>1, <2>1, <2>2
  <2>4. QED
    BY <2>1, <2>3
<1>10. QED
  BY <1>2, <1>4, <1>5, <1>6, <1>7, <1>8, <1>9 DEF Results

\* No call of the batch has its progress on the way when a value arrives.
LEMMA ValueArrives ==
    ASSUME wire \in Seq(Message), Single(wire), BatchOrder(wire),
           NEW i \in 1..Len(wire), Arrives(i), wire[i].kind = "value",
           NEW c \in wire[i].calls, NEW d \in Group(Batch[c])
    PROVE  ~On(wire, "progress", d)
<1>1. wire[i] \in Message /\ Len(wire) \in Nat /\ i = 1
  BY DEF Arrives, Urgent
<1>2. c \in Call /\ d \in Call /\ Batch[d] = Batch[c]
  BY <1>1 DEF Message, Group
<1> SUFFICES ASSUME On(wire, "progress", d) PROVE FALSE
  OBVIOUS
<1>3. PICK n \in 1..Len(wire) : wire[n].kind = "progress" /\ d \in wire[n].calls
  BY Zenon DEF On
<1>4. n < i
  BY <1>2, <1>3 DEF BatchOrder
<1>5. QED
  BY <1>1, <1>3, <1>4

-----------------------------------------------------------------------------
(* The steps of the service.                                               *)

LEMMA BroadcastOn ==
    ASSUME TypeOK, NEW kind \in Kinds, NEW S \in SUBSET Call, Broadcast(kind, S)
    PROVE  /\ Msg(kind, S) \in Message
           /\ Msg(kind, S).kind = kind /\ Msg(kind, S).calls = S
           /\ wire' = Append(wire, Msg(kind, S)) /\ wire \in Seq(Message)
           /\ \A k, c : On(wire', k, c) <=> On(wire, k, c) \/ (kind = k /\ c \in S)
<1>1. /\ Msg(kind, S) \in Message
      /\ Msg(kind, S).kind = kind /\ Msg(kind, S).calls = S
  BY DEF Msg, Message
<1>2. wire' = Append(wire, Msg(kind, S)) /\ wire \in Seq(Message)
  BY DEF Broadcast, TypeOK
<1>3. QED
  BY <1>1, <1>2, OnAppend

\* The task of a call goes on, and may report a result.
LEMMA CallMoves ==
    ASSUME IInv, OutcomeInv, NEW c \in Call,
           NEW what \in {"nothing", "value", "empty"},
           what = "nothing" => UNCHANGED <<wire, sent>>,
           what # "nothing" => SendResult(c, what) /\ ProgressSent(c),
           what = "value" => pc[c] \in {"running", "reporting", "deferred"},
           UNCHANGED <<modeVars, loopAt, cancelled, aggregatorVars>>,
           gaveUp \subseteq gaveUp',
           \A d \in Call \ {c} : /\ pc'[d] = pc[d]
                                 /\ d \in tasks' => d \in tasks,
           \A d \in Call : timer'[d] => timer[d],
           pc'[c] \in PcType \ {"idle", "queued"},
           pc'[c] = "created" => pc[c] = "queued",
           pc'[c] \in Begun => pc[c] \in Begun,
           pc'[c] = "reported" => sent'[c] # "no",
           pc'[c] = "stopping" => c \in cancelled,
           pc'[c] = "deferred" => c \in gaveUp' /\ c \notin tasks',
           pc'[c] = "ended" => /\ c \in gaveUp' \cup cancelled \/ sent'[c] # "no"
                               /\ c \in tasks' => c \in cancelled
                               /\ pc[c] \notin {"idle", "queued", "created"},
           loopAt = c => pc'[c] \in {"stopping", "reporting", "reported", "ended"},
           loopAt # c /\ c \in cancelled => pc'[c] = "ended",
           pc'[c] \in Handled =>
               \/ pc[c] \in Handled
               \/ parallel => \A d \in Group(Batch[c]) : pc[d] \notin {"idle", "created"}
    PROVE  OutcomeInv'
<1>1. /\ TypeOK /\ WireInv /\ RunInv
      /\ \A d \in Call : CallInv(d) /\ ContextInv(d) /\ ResultInv(d)
                           /\ CancelInv(d) /\ GroupInv(d)
      /\ parallel' = parallel /\ async' = async /\ loopAt' = loopAt
      /\ cancelled' = cancelled /\ inProgress' = inProgress
      /\ context' = context /\ overtaken' = overtaken /\ runs' = runs
  BY DEF IInv, OutcomeInv, modeVars, aggregatorVars
<1>2. /\ pc \in [Call -> PcType] /\ sent \in [Call -> {"no", "value", "empty"}]
      /\ context \in [Call -> {"none", "running", "result", "completed", "cancelled"}]
      /\ wire \in Seq(Message)
  BY <1>1 DEF TypeOK
<1>13. ASSUME what # "nothing"
       PROVE  /\ what \in Results /\ Msg(what, {c}) \in Message
              /\ Msg(what, {c}).kind = what /\ Msg(what, {c}).calls = {c}
              /\ wire' = Append(wire, Msg(what, {c}))
              /\ \A k, d : On(wire', k, d) <=> On(wire, k, d) \/ (what = k /\ d \in {c})
  <2>1. /\ Broadcast(what, {c}) /\ what \in Kinds /\ what \in Results
        /\ {c} \in SUBSET Call
    BY <1>13 DEF SendResult, Kinds, Results
  <2>2. QED
    BY <1>1, <2>1, BroadcastOn
<1>3. \A k, d : On(wire', k, d) <=> On(wire, k, d) \/ (what = k /\ d = c /\ k \in Results)
  <2>1. CASE what = "nothing"
    BY <2>1 DEF Results
  <2>2. CASE what # "nothing"
    BY <1>13, <2>2
  <2>3. QED
    BY <2>1, <2>2
<1>4. /\ \A d \in Call \ {c} : sent'[d] = sent[d]
      /\ sent'[c] = IF what # "nothing" /\ sent[c] = "no" THEN what ELSE sent[c]
  BY <1>2 DEF SendResult
<1>5. WireInv'
  <2>1. CASE what = "nothing"
    BY <1>1, <2>1 DEF WireInv
  <2>2. CASE what # "nothing"
    <3>1. /\ Msg(what, {c}) \in Message /\ what \in Results
          /\ Msg(what, {c}).kind = what /\ Msg(what, {c}).calls = {c}
          /\ wire' = Append(wire, Msg(what, {c}))
      BY <1>13, <2>2
    <3>2. Single(wire') /\ CallOrder(wire')
      BY <1>1, <1>2, <3>1, OrderAppend DEF WireInv, Results
    <3>3. parallel => BatchOrder(wire')
      BY <1>1, <1>2, <3>1, BatchAppend DEF WireInv, Results
    <3>4. QED
      BY <1>1, <3>2, <3>3 DEF WireInv
  <2>3. QED
    BY <2>1, <2>2
<1>6. ASSUME NEW d \in Call PROVE CallInv(d)'
  <2>1. CASE d # c
    <3>1. /\ pc'[d] = pc[d] /\ sent'[d] = sent[d]
          /\ timer'[d] => timer[d]
          /\ d \in tasks' => d \in tasks
          /\ \A k : On(wire', k, d) <=> On(wire, k, d)
      BY <1>3, <1>4, <2>1
    <3>2. CallInv(d) /\ (ProgressSent(d)' <=> ProgressSent(d))
      BY <1>1, <3>1 DEF ProgressSent
    <3>3. /\ inProgress' = inProgress /\ context' = context
          /\ cancelled' = cancelled /\ gaveUp \subseteq gaveUp'
      BY <1>1
    <3>4. QED
      BY <3>1, <3>2, <3>3 DEF CallInv
  <2>2. CASE d = c
    BY <1>1, <1>2, <1>3, <1>4, <2>2
       DEF CallInv, ProgressSent, Results, PcType, Begun
  <2>3. QED
    BY <2>1, <2>2
<1>7. ASSUME NEW d \in Call PROVE ContextInv(d)'
  BY <1>1, <1>3 DEF ContextInv, Results
<1>8. ASSUME NEW d \in Call PROVE ResultInv(d)'
  <2>1. ResultInv(d)
    BY <1>1
  <2>2. CASE d # c \/ what = "nothing"
    <3>1. Leads(wire, sent[d], d) => Leads(wire', sent[d], d)
      <4>1. CASE what = "nothing"
        BY <4>1
      <4>2. CASE what # "nothing"
        <5>1. Msg(what, {c}) \in Message /\ wire' = Append(wire, Msg(what, {c}))
          BY <1>13, <4>2
        <5>2. QED
          BY <1>2, <5>1, LeadsAppend
      <4>3. QED
        BY <4>1, <4>2
    <3>2. QED
      BY <1>1, <1>3, <1>4, <2>1, <2>2, <3>1 DEF ResultInv
  <2>3. CASE d = c /\ what # "nothing"
    <3>1. /\ Msg(what, {c}) \in Message /\ what \in Results
          /\ Msg(what, {c}).kind = what /\ Msg(what, {c}).calls = {c}
          /\ wire' = Append(wire, Msg(what, {c}))
      BY <1>13, <2>3
    <3>2. CASE sent[c] = "no"
      <4>1. \A k \in Results : ~On(wire, k, c)
        BY <2>1, <2>3, <3>2 DEF ResultInv
      <4>2. Leads(wire', what, c)
        BY <1>2, <3>1, <4>1, LeadsAppend
      <4>3. context[c] \notin {"result", "completed"}
        BY <2>1, <2>3, <3>2 DEF ResultInv
      <4>4. sent'[c] = what /\ what # "no"
        BY <1>4, <2>3, <3>1, <3>2 DEF Results
      <4>5. QED
        BY <1>1, <2>3, <4>2, <4>3, <4>4 DEF ResultInv
    <3>3. CASE sent[c] # "no"
      <4>1. sent'[c] = sent[c]
        BY <1>4, <3>3
      <4>2. Leads(wire, sent[c], c) => Leads(wire', sent[c], c)
        BY <1>2, <3>1, LeadsAppend
      <4>3. QED
        BY <1>1, <2>1, <2>3, <3>3, <4>1, <4>2 DEF ResultInv
    <3>4. QED
      BY <3>2, <3>3
  <2>4. QED
    BY <2>2, <2>3
<1>9. ASSUME NEW d \in Call PROVE CancelInv(d)'
  <2>1. CancelInv(d)
    BY <1>1
  <2>2. On(wire', "cancel", d) <=> On(wire, "cancel", d)
    BY <1>3 DEF Results
  <2>3. On(wire', "progress", d) <=> On(wire, "progress", d)
    BY <1>3 DEF Results
  <2>4. QED
    BY <1>1, <2>1, <2>2, <2>3 DEF CancelInv
<1>10. ASSUME NEW d \in Call PROVE GroupInv(d)'
  <2> SUFFICES ASSUME parallel PROVE GroupInv(d)'
    BY <1>1 DEF GroupInv
  <2>1. /\ \A e \in Call : pc[e] # "queued" /\ (loopAt # 0 => pc[e] # "created")
        /\ \A e \in Call : pc[e] \notin {"idle", "created"} => ProgressSent(e)
        /\ \A e \in Call : \A f \in Group(Batch[e]) :
              /\ pc[e] = "idle" <=> pc[f] = "idle"
              /\ pc[e] \in Handled \/ On(wire, "value", e)
                    => pc[f] \notin {"idle", "created"}
    BY <1>1 DEF GroupInv
  <2>2. pc'[c] \notin {"idle", "queued", "created"} /\ pc[c] # "idle"
    <3>1. pc'[c] \notin {"idle", "queued", "created"}
      BY <2>1
    <3>2. CASE pc'[c] = "ended"
      BY <3>2
    <3>3. CASE pc'[c] # "ended"
      BY <3>1, <3>3 DEF PcType, Begun
    <3>4. QED
      BY <3>1, <3>2, <3>3
  <2>3. \A e \in Call : (pc'[e] = "idle" <=> pc[e] = "idle") /\ pc'[e] # "queued"
    BY <2>1, <2>2
  <2>4. \A e \in Call : pc[e] # "created" => pc'[e] # "created"
    BY <2>2
  <2>5. \A e \in Call : pc'[e] \notin {"idle", "created"} => ProgressSent(e)'
    <3> SUFFICES ASSUME NEW e \in Call, pc'[e] \notin {"idle", "created"}
                 PROVE  ProgressSent(e)'
      OBVIOUS
    <3>1. ProgressSent(e) => ProgressSent(e)'
      BY <1>1, <1>3 DEF ProgressSent
    <3>2. CASE e # c
      BY <2>1, <3>1, <3>2
    <3>3. CASE e = c /\ pc[c] # "created"
      BY <2>1, <2>2, <3>1, <3>3
    <3>4. CASE e = c /\ pc[c] = "created"
      BY <2>2, <3>4 DEF PcType, Begun
    <3>5. QED
      BY <3>2, <3>3, <3>4
  <2>6. Group(Batch[d]) \subseteq Call
    BY DEF Group
  <2>7. ASSUME NEW f \in Group(Batch[d]),
               pc'[d] \in Handled \/ On(wire', "value", d)
        PROVE  pc'[f] \notin {"idle", "created"}
    <3>1. \/ pc[d] \in Handled
          \/ On(wire, "value", d)
          \/ \A e \in Group(Batch[d]) : pc[e] \notin {"idle", "created"}
      <4>1. CASE d # c
        BY <1>3, <2>7, <4>1
      <4>2. CASE d = c
        <5>1. On(wire', "value", c) => On(wire, "value", c) \/ what = "value"
          BY <1>3
        <5>2. CASE pc'[c] \in Handled
          BY <4>2, <5>2
        <5>3. CASE On(wire', "value", c)
          BY <4>2, <5>1, <5>3 DEF Handled
        <5>4. QED
          BY <2>7, <4>2, <5>2, <5>3
      <4>3. QED
        BY <4>1, <4>2
    <3>2. pc[f] \notin {"idle", "created"}
      BY <2>1, <3>1
    <3>3. QED
      BY <2>3, <2>4, <2>6, <3>2
  <2>8. QED
    BY <1>1, <2>1, <2>3, <2>4, <2>5, <2>6, <2>7 DEF GroupInv
<1>11. RunInv'
  BY <1>1 DEF RunInv
<1>12. QED
  BY <1>5, <1>6, <1>7, <1>8, <1>9, <1>10, <1>11 DEF OutcomeInv

\* What a task, its handler, its timeout and the sequential runner do, but for the
\* start of a call.
LEMMA TaskOutcome ==
    ASSUME IInv, OutcomeInv, NEW c \in Call,
           \/ RunnerTakes(c) \/ HandlerStarts(c) \/ TimeoutStopped(c)
           \/ TaskStopped(c) \/ HandlerStep(c) \/ TimesOut(c)
    PROVE  OutcomeInv'
<1>1. TypeOK /\ CallInv(c) /\ CancelInv(c) /\ GroupInv(c)
  BY DEF IInv, OutcomeInv
<1>2. /\ pc \in [Call -> PcType] /\ timer \in [Call -> BOOLEAN]
      /\ sent \in [Call -> {"no", "value", "empty"}]
  BY <1>1 DEF TypeOK
<1>3. ASSUME NEW kind \in Results, SendResult(c, kind)
      PROVE  sent'[c] # "no" /\ kind \in {"value", "empty"} /\ kind # "nothing"
  BY <1>2, <1>3 DEF SendResult, Results
<1>4. pc[c] \in Begun \/ timer[c] => ProgressSent(c)
  BY <1>1 DEF CallInv
<1>5. pc[c] \notin {"idle", "queued", "created", "ended"} /\ c \in cancelled
         => loopAt = c
  BY <1>1 DEF CancelInv
<1>6. loopAt = c => /\ c \in cancelled
                    /\ pc[c] \in {"stopping", "reporting", "reported", "ended"}
  BY <1>1 DEF CancelInv
<1>7. CASE RunnerTakes(c)
  <2>1. c \notin cancelled /\ loopAt # c
    BY <1>1, <1>7 DEF CancelInv, RunnerTakes
  <2>2. /\ pc'[c] = "created" /\ pc[c] = "queued" /\ tasks' = tasks \cup {c}
        /\ \A d \in Call \ {c} : pc'[d] = pc[d]
        /\ UNCHANGED <<modeVars, timer, loopAt, cancelled, wire, aggregatorVars,
                       historyVars>>
    BY <1>2, <1>7 DEF RunnerTakes, loopVars
  <2>3. QED
    BY <2>1, <2>2, CallMoves DEF PcType, Begun, Handled, historyVars
<1>8. CASE HandlerStarts(c)
  <2>1. c \notin cancelled /\ loopAt # c
    BY <1>1, <1>8 DEF CancelInv, HandlerStarts
  <2>2. /\ pc'[c] = "running" /\ pc[c] = "yielded"
        /\ \A d \in Call \ {c} : pc'[d] = pc[d]
        /\ UNCHANGED <<modeVars, timer, tasks, loopAt, cancelled, wire,
                       aggregatorVars, historyVars>>
    BY <1>2, <1>8 DEF HandlerStarts, loopVars
  <2>3. parallel => \A d \in Group(Batch[c]) : pc[d] \notin {"idle", "created"}
    BY <1>1, <1>8, <2>2 DEF HandlerStarts, GroupInv
  <2>4. QED
    BY <2>1, <2>2, <2>3, CallMoves DEF PcType, Begun, historyVars
<1>9. CASE TimeoutStopped(c)
  <2>1. PICK kind \in Results : SendResult(c, kind)
    BY <1>9 DEF TimeoutStopped
  <2>2. /\ pc'[c] = "reported" /\ pc[c] = "reporting"
        /\ \A d \in Call \ {c} : pc'[d] = pc[d]
        /\ UNCHANGED <<modeVars, timer, tasks, loopAt, cancelled,
                       aggregatorVars, gaveUp>>
    BY <1>2, <1>9 DEF TimeoutStopped, loopVars
  <2>3. sent'[c] # "no" /\ kind \in {"value", "empty"} /\ kind # "nothing"
    BY <1>3, <2>1
  <2>4. QED
    BY <1>4, <1>5, <2>1, <2>2, <2>3, CallMoves DEF PcType, Begun, Handled
<1>10. CASE TaskStopped(c)
  <2>1. /\ pc'[c] = "ended" /\ pc[c] = "stopping" /\ c \in cancelled
        /\ \A d \in Call \ {c} : pc'[d] = pc[d]
        /\ \A d \in Call : timer'[d] => timer[d]
        /\ UNCHANGED <<modeVars, tasks, loopAt, cancelled, wire,
                       aggregatorVars, historyVars>>
    BY <1>1, <1>2, <1>10 DEF TaskStopped, loopVars, CallInv
  <2>2. QED
    BY <2>1, CallMoves DEF PcType, Begun, Handled, historyVars
<1>11. CASE Report(c)
  <2>1. /\ pc[c] = "running" /\ loopAt # c /\ c \notin cancelled
        /\ \A d \in Call \ {c} : pc'[d] = pc[d]
        /\ \A d \in Call : timer'[d] => timer[d]
        /\ UNCHANGED <<modeVars, tasks, loopAt, cancelled, aggregatorVars, gaveUp>>
    BY <1>2, <1>5, <1>6, <1>11 DEF Report, loopVars
  <2>2. CASE timer[c]
    <3>1. pc'[c] = "reporting" /\ UNCHANGED <<wire, sent>>
      BY <1>2, <1>11, <2>2 DEF Report
    <3>2. QED
      BY <2>1, <3>1, CallMoves DEF PcType, Begun, Handled
  <2>3. CASE ~timer[c]
    <3>1. PICK kind \in Results : SendResult(c, kind)
      BY <1>11, <2>3 DEF Report
    <3>2. pc'[c] = "reported"
      BY <1>2, <1>11, <2>3 DEF Report
    <3>3. sent'[c] # "no" /\ kind \in {"value", "empty"} /\ kind # "nothing"
      BY <1>3, <3>1
    <3>4. QED
      BY <1>4, <2>1, <3>1, <3>2, <3>3, CallMoves DEF PcType, Begun, Handled
  <2>4. QED
    BY <2>2, <2>3
<1>12. CASE HandlerReturns(c)
  <2>1. /\ pc'[c] = "ended" /\ pc[c] = "reported" /\ sent[c] # "no"
        /\ \A d \in Call \ {c} : pc'[d] = pc[d]
        /\ UNCHANGED <<modeVars, timer, loopAt, cancelled, wire,
                       aggregatorVars, historyVars>>
    BY <1>1, <1>2, <1>12 DEF HandlerReturns, TaskEnds, loopVars, CallInv
  <2>2. /\ tasks' \subseteq tasks
        /\ c \in tasks' => loopAt = c
    BY <1>12 DEF HandlerReturns, TaskEnds
  <2>3. c \in tasks' => c \in cancelled
    BY <1>6, <2>2
  <2>4. QED
    BY <1>5, <2>1, <2>2, <2>3, CallMoves DEF PcType, Begun, Handled, historyVars
<1>13. CASE HandlerGivesUp(c)
  <2>1. /\ pc'[c] \in {"ended", "deferred"} /\ pc[c] = "running"
        /\ loopAt # c /\ c \notin cancelled
        /\ \A d \in Call \ {c} : pc'[d] = pc[d]
        /\ \A d \in Call : timer'[d] => timer[d]
        /\ UNCHANGED <<modeVars, loopAt, cancelled, wire, aggregatorVars, sent>>
        /\ gaveUp' = gaveUp \cup {c}
    BY <1>2, <1>5, <1>6, <1>13 DEF HandlerGivesUp, TaskEnds, loopVars
  <2>2. tasks' \subseteq tasks /\ c \notin tasks'
    BY <1>13, <2>1 DEF HandlerGivesUp, TaskEnds
  <2>3. QED
    BY <2>1, <2>2, CallMoves DEF PcType, Begun, Handled
<1>14. CASE ReportLate(c)
  <2>1. PICK kind \in Results : SendResult(c, kind)
    BY <1>14 DEF ReportLate
  <2>2. /\ pc'[c] = "ended" /\ pc[c] = "deferred" /\ c \notin tasks
        /\ loopAt # c /\ c \notin cancelled
        /\ \A d \in Call \ {c} : pc'[d] = pc[d]
        /\ UNCHANGED <<modeVars, timer, tasks, loopAt, cancelled,
                       aggregatorVars, gaveUp>>
    BY <1>1, <1>2, <1>5, <1>6, <1>14 DEF ReportLate, loopVars, CallInv
  <2>3. sent'[c] # "no" /\ kind \in {"value", "empty"} /\ kind # "nothing"
    BY <1>3, <2>1
  <2>4. QED
    BY <1>4, <2>1, <2>2, <2>3, CallMoves DEF PcType, Begun, Handled
<1>15. CASE TimesOut(c)
  <2>1. /\ SendResult(c, "empty") /\ timer[c] /\ pc' = pc
        /\ \A d \in Call : timer'[d] => timer[d]
        /\ UNCHANGED <<modeVars, tasks, loopAt, cancelled, aggregatorVars, gaveUp>>
    BY <1>2, <1>15 DEF TimesOut, loopVars
  <2>2. pc[c] \notin {"idle", "queued", "created"}
    BY <1>1, <2>1 DEF CallInv
  <2>3. sent'[c] # "no"
    BY <1>3, <2>1 DEF Results
  <2>4. /\ pc[c] = "stopping" => c \in cancelled
        /\ pc[c] = "deferred" => c \in gaveUp /\ c \notin tasks
        /\ pc[c] = "ended" /\ c \in tasks => c \in cancelled
    BY <1>1 DEF CallInv
  <2>5. /\ pc'[c] \in PcType \ {"idle", "queued"} /\ pc'[c] # "created"
        /\ c \in cancelled /\ loopAt # c => pc'[c] = "ended"
        /\ loopAt = c => pc'[c] \in {"stopping", "reporting", "reported", "ended"}
    BY <1>1, <1>2, <2>1, <2>2 DEF CancelInv
  <2>6. QED
    BY <1>4, <2>1, <2>2, <2>3, <2>4, <2>5, CallMoves
<1>16. QED
  BY <1>7, <1>8, <1>9, <1>10, <1>11, <1>12, <1>13, <1>14, <1>15 DEF HandlerStep

\* The loop cancels the call it waits for once more.
LEMMA AgainOutcome ==
    ASSUME IInv, OutcomeInv, LoopCancelsAgain
    PROVE  OutcomeInv'
<1>1. /\ TypeOK /\ loopAt \in Call /\ pc[loopAt] = "reported"
      /\ pc \in [Call -> PcType]
  BY DEF IInv, TypeOK, LoopCancelsAgain
<1>2. loopAt \in cancelled
  BY <1>1 DEF OutcomeInv, CancelInv
<1>3. /\ pc'[loopAt] = "stopping"
      /\ \A d \in Call \ {loopAt} : pc'[d] = pc[d]
      /\ UNCHANGED <<modeVars, timer, tasks, loopAt, cancelled, wire,
                     aggregatorVars, historyVars>>
  BY <1>1 DEF LoopCancelsAgain, loopVars
<1>4. QED
  BY <1>1, <1>2, <1>3, CallMoves DEF PcType, Begun, Handled, historyVars

\* A call starts: it is announced as in progress.
LEMMA CallStartsOutcome ==
    ASSUME IInv, OutcomeInv, NEW c \in Call, CallStarts(c)
    PROVE  OutcomeInv'
<1>1. /\ TypeOK /\ WireInv /\ RunInv
      /\ \A d \in Call : CallInv(d) /\ ContextInv(d) /\ ResultInv(d)
                           /\ CancelInv(d) /\ GroupInv(d)
      /\ UNCHANGED <<parallel, async, tasks, loopAt, cancelled, inProgress,
                     context, overtaken, runs, gaveUp, sent>>
  BY DEF IInv, OutcomeInv, CallStarts, modeVars, loopVars, aggregatorVars, historyVars
<1>2. /\ pc \in [Call -> PcType] /\ timer \in [Call -> BOOLEAN]
      /\ wire \in Seq(Message)
      /\ sent \in [Call -> {"no", "value", "empty"}]
  BY <1>1 DEF TypeOK
<1>3. /\ pc[c] = "created" /\ pc'[c] = "yielded"
      /\ \A d \in Call \ {c} : pc'[d] = pc[d] /\ timer'[d] = timer[d]
  BY <1>2 DEF CallStarts
<1>4. /\ Msg("progress", {c}) \in Message /\ wire' = Append(wire, Msg("progress", {c}))
      /\ Msg("progress", {c}).kind = "progress" /\ Msg("progress", {c}).calls = {c}
      /\ \A k, d : On(wire', k, d) <=> On(wire, k, d) \/ ("progress" = k /\ d \in {c})
  BY <1>1, BroadcastOn DEF CallStarts, Kinds
<1>5. \A k, d : On(wire', k, d) <=> On(wire, k, d) \/ (k = "progress" /\ d = c)
  <2> SUFFICES ASSUME NEW k, NEW d
               PROVE  On(wire', k, d) <=> On(wire, k, d) \/ (k = "progress" /\ d = c)
    OBVIOUS
  <2>1. On(wire', k, d) <=> On(wire, k, d) \/ ("progress" = k /\ d \in {c})
    BY <1>4
  <2>2. QED
    BY <2>1
<1>6. /\ sent[c] = "no" /\ context[c] = "none" /\ ~timer[c]
      /\ \A k \in {"progress", "value", "empty"} : ~On(wire, k, c)
  BY <1>1, <1>3 DEF CallInv, ResultInv, Results
<1>7. loopAt # c /\ c \notin cancelled
  BY <1>1, <1>3 DEF CancelInv
<1>8. parallel => \A d \in Group(Batch[c]) : ~On(wire, "value", d)
  <2> SUFFICES ASSUME parallel, NEW d \in Group(Batch[c]), On(wire, "value", d)
               PROVE  FALSE
    OBVIOUS
  <2>1. d \in Call /\ c \in Group(Batch[d])
    BY DEF Group
  <2>2. pc[c] # "created"
    BY <1>1, <2>1 DEF GroupInv
  <2>3. QED
    BY <1>3, <2>2
<1>9. WireInv'
  <2>1. Single(wire') /\ CallOrder(wire')
    BY <1>1, <1>2, <1>4, <1>6, OrderAppend DEF WireInv
  <2>2. parallel => BatchOrder(wire')
    BY <1>1, <1>2, <1>4, <1>8, BatchAppend DEF WireInv
  <2>3. QED
    BY <1>1, <2>1, <2>2 DEF WireInv
<1>10. ASSUME NEW d \in Call PROVE CallInv(d)'
  <2>1. CASE d = c
    <3>1. ProgressSent(c)'
      BY <1>5 DEF ProgressSent
    <3>2. QED
      BY <1>3, <2>1, <3>1 DEF CallInv
  <2>2. CASE d # c
    <3>1. /\ pc'[d] = pc[d] /\ timer'[d] = timer[d]
          /\ \A k : On(wire', k, d) <=> On(wire, k, d)
      BY <1>3, <1>5, <2>2
    <3>2. CallInv(d)
      BY <1>1
    <3>3. QED
      BY <1>1, <3>1, <3>2 DEF CallInv, ProgressSent
  <2>3. QED
    BY <2>1, <2>2
<1>11. ASSUME NEW d \in Call PROVE ContextInv(d)'
  BY <1>1, <1>5, <1>6 DEF ContextInv
<1>12. ASSUME NEW d \in Call PROVE ResultInv(d)'
  <2>1. \A k : Leads(wire, k, d) => Leads(wire', k, d)
    BY <1>2, <1>4, LeadsAppend
  <2>2. QED
    BY <1>1, <1>5, <2>1 DEF ResultInv, Results
<1>13. ASSUME NEW d \in Call PROVE CancelInv(d)'
  BY <1>1, <1>3, <1>5, <1>7 DEF CancelInv
<1>14. ASSUME NEW d \in Call PROVE GroupInv(d)'
  <2> SUFFICES ASSUME parallel PROVE GroupInv(d)'
    BY <1>1 DEF GroupInv
  <2>1. Group(Batch[d]) \subseteq Call /\ GroupInv(d)
    BY <1>1 DEF Group
  <2>2. /\ \A e \in Call : pc[e] # "created" => pc'[e] # "created"
        /\ \A e \in Call : (pc'[e] = "idle" <=> pc[e] = "idle")
        /\ pc'[d] # "queued"
    BY <1>3, <2>1 DEF GroupInv
  <2>3. pc'[d] \notin {"idle", "created"} => ProgressSent(d)'
    BY <1>1, <1>3, <1>5, <2>1 DEF GroupInv, ProgressSent
  <2>4. pc'[d] \in Handled \/ On(wire', "value", d) => pc[d] \in Handled \/ On(wire, "value", d)
    BY <1>3, <1>5 DEF Handled
  <2>5. QED
    BY <1>1, <2>1, <2>2, <2>3, <2>4 DEF GroupInv
<1>15. RunInv'
  BY <1>1 DEF RunInv
<1>16. QED
  BY <1>9, <1>10, <1>11, <1>12, <1>13, <1>14, <1>15 DEF OutcomeInv

\* A batch of calls begins.
LEMMA BatchOutcome ==
    ASSUME IInv, OutcomeInv, NEW b \in Batches, RunFunctionCalls(b)
    PROVE  OutcomeInv'
<1>1. /\ TypeOK /\ WireInv /\ RunInv
      /\ \A d \in Call : CallInv(d) /\ ContextInv(d) /\ ResultInv(d)
                           /\ CancelInv(d) /\ GroupInv(d)
      /\ UNCHANGED <<parallel, async, timer, loopAt, cancelled, inProgress,
                     context, overtaken, runs, gaveUp, sent>>
      /\ loopAt = 0
  BY DEF IInv, OutcomeInv, RunFunctionCalls, modeVars, loopVars, aggregatorVars,
         historyVars
<1>2. wire \in Seq(Message) /\ Group(b) \in SUBSET Call
  BY <1>1 DEF TypeOK, Group
<1>3. /\ Msg("started", Group(b)) \in Message
      /\ wire' = Append(wire, Msg("started", Group(b)))
      /\ Msg("started", Group(b)).kind = "started"
      /\ Msg("started", Group(b)).calls = Group(b)
      /\ \A k, d : On(wire', k, d) <=> On(wire, k, d) \/ ("started" = k /\ d \in Group(b))
  BY <1>1, <1>2, BroadcastOn DEF RunFunctionCalls, Kinds
<1>4. \A d \in Call :
         /\ d \notin Group(b) => pc'[d] = pc[d]
         /\ d \in Group(b) => pc[d] = "idle"
         /\ d \in Group(b) => pc'[d] = IF parallel THEN "created" ELSE "queued"
  <2> SUFFICES ASSUME NEW d \in Call
               PROVE  /\ d \notin Group(b) => pc'[d] = pc[d]
                      /\ d \in Group(b) => pc[d] = "idle"
                      /\ d \in Group(b) => pc'[d] = IF parallel THEN "created" ELSE "queued"
    OBVIOUS
  <2>1. Batch[d] \in Nat /\ b \in Nat
    BY CallsAssumption DEF Batches
  <2>2. d \in Group(b) => pc[d] = "idle"
    BY <2>1 DEF RunFunctionCalls, Group
  <2>3. QED
    BY <2>2 DEF RunFunctionCalls
<1>5. \A d \in Group(b) :
         /\ \A k \in Kinds : ~On(wire, k, d)
         /\ inProgress[d] = "no" /\ context[d] = "none" /\ sent[d] = "no" /\ ~timer[d]
         /\ ~On(wire, "progress", d) /\ ~On(wire, "value", d)
  BY <1>1, <1>2, <1>4 DEF CallInv, Kinds
<1>6. WireInv'
  <2>1. Single(wire') /\ CallOrder(wire')
    BY <1>1, <1>2, <1>3, <1>5, OrderAppend DEF WireInv
  <2>2. parallel => BatchOrder(wire')
    BY <1>1, <1>2, <1>3, BatchAppend DEF WireInv
  <2>3. QED
    BY <1>1, <2>1, <2>2 DEF WireInv
<1>7. ASSUME NEW d \in Call PROVE CallInv(d)'
  <2>1. CASE d \in Group(b)
    <3>1. pc'[d] \in {"created", "queued"} /\ ~On(wire', "progress", d)
      BY <1>3, <1>4, <1>5, <2>1
    <3>2. QED
      BY <1>1, <1>5, <2>1, <3>1 DEF CallInv, Begun
  <2>2. CASE d \notin Group(b)
    <3>1. /\ pc'[d] = pc[d]
          /\ \A k : On(wire', k, d) <=> On(wire, k, d)
      BY <1>3, <1>4, <2>2
    <3>2. tasks' \subseteq tasks \cup Group(b)
      BY DEF RunFunctionCalls
    <3>3. d \in tasks' => d \in tasks
      BY <2>2, <3>2
    <3>4. CallInv(d)
      BY <1>1
    <3>5. QED
      BY <1>1, <3>1, <3>3, <3>4 DEF CallInv, ProgressSent
  <2>3. QED
    BY <2>1, <2>2
<1>8. ASSUME NEW d \in Call PROVE ContextInv(d)'
  BY <1>1, <1>3, <1>5 DEF ContextInv
<1>9. ASSUME NEW d \in Call PROVE ResultInv(d)'
  <2>1. \A k : Leads(wire, k, d) => Leads(wire', k, d)
    BY <1>2, <1>3, LeadsAppend
  <2>2. \A k \in Results : On(wire', k, d) <=> On(wire, k, d)
    BY <1>3 DEF Results
  <2>3. QED
    BY <1>1, <2>1, <2>2 DEF ResultInv
<1>10. ASSUME NEW d \in Call PROVE CancelInv(d)'
  <2>1. CancelInv(d) /\ d # 0
    BY <1>1, CallsAssumption DEF Call
  <2>2. /\ On(wire', "cancel", d) <=> On(wire, "cancel", d)
        /\ On(wire', "progress", d) <=> On(wire, "progress", d)
    BY <1>3
  <2>3. pc[d] = "ended" => pc'[d] = "ended"
    BY <1>4
  <2>4. QED
    BY <1>1, <2>1, <2>2, <2>3 DEF CancelInv
<1>11. ASSUME NEW d \in Call PROVE GroupInv(d)'
  <2> SUFFICES ASSUME parallel PROVE GroupInv(d)'
    BY <1>1 DEF GroupInv
  <2>1. Group(Batch[d]) \subseteq Call /\ GroupInv(d)
    BY <1>1 DEF Group
  <2>2. CASE d \in Group(b)
    <3>1. Group(Batch[d]) = Group(b)
      BY <2>2 DEF Group
    <3>2. \A e \in Group(b) : pc'[e] = "created"
      BY <1>2, <1>4
    <3>3. ~On(wire', "value", d)
      BY <1>3, <1>5, <2>2
    <3>4. QED
      BY <1>1, <2>2, <3>1, <3>2, <3>3 DEF GroupInv, Handled
  <2>3. CASE d \notin Group(b)
    <3>1. \A e \in Group(Batch[d]) : pc'[e] = pc[e]
      <4>1. \A e \in Group(Batch[d]) : e \notin Group(b)
        BY <2>3 DEF Group
      <4>2. QED
        BY <1>4, <2>1, <4>1
    <3>2. pc'[d] = pc[d] /\ \A k : On(wire', k, d) <=> On(wire, k, d)
      BY <1>3, <1>4, <2>3
    <3>3. QED
      BY <1>1, <2>1, <3>1, <3>2 DEF GroupInv, ProgressSent
  <2>4. QED
    BY <2>2, <2>3
<1>12. RunInv'
  BY <1>1 DEF RunInv
<1>13. QED
  BY <1>6, <1>7, <1>8, <1>9, <1>10, <1>11, <1>12 DEF OutcomeInv
\* What the loop appends to the wire tells of cancelled calls and disturbs nothing.
LEMMA UrgentAppend ==
    ASSUME NEW s \in Seq(Message), Single(s), CallOrder(s),
           NEW m \in Message, m.kind \in {"cancel", "interruption"}
    PROVE  /\ Append(s, m) \in Seq(Message)
           /\ Single(Append(s, m)) /\ CallOrder(Append(s, m))
           /\ BatchOrder(s) => BatchOrder(Append(s, m))
           /\ \A k, c : On(Append(s, m), k, c)
                            <=> On(s, k, c) \/ (m.kind = k /\ c \in m.calls)
           /\ \A k, c : Leads(s, k, c) => Leads(Append(s, m), k, c)
<1>1. Append(s, m) \in Seq(Message)
  BY AppendFacts
<1>2. Single(Append(s, m)) /\ CallOrder(Append(s, m))
  BY OrderAppend
<1>3. BatchOrder(s) => BatchOrder(Append(s, m))
  BY BatchAppend
<1>4. \A k, c : On(Append(s, m), k, c)
                    <=> On(s, k, c) \/ (m.kind = k /\ c \in m.calls)
  BY OnAppend
<1>5. \A k, c : Leads(s, k, c) => Leads(Append(s, m), k, c)
  BY LeadsAppend
<1>6. QED
  BY <1>1, <1>2, <1>3, <1>4, <1>5

\* The wire after a turn of the loop that tells of these calls.
Tells(told) ==
    /\ Single(wire') /\ CallOrder(wire')
    /\ BatchOrder(wire) => BatchOrder(wire')
    /\ \A k, c : On(wire', k, c) <=> On(wire, k, c) \/ (k = "cancel" /\ c \in told)
    /\ \A k, c : Leads(wire, k, c) => Leads(wire', k, c)

LEMMA NewsTell ==
    ASSUME wire \in Seq(Message), Single(wire), CallOrder(wire),
           NEW told \in SUBSET Call, NEW news,
           news = IF told = {} THEN <<>> ELSE <<Msg("cancel", told)>>,
           \/ wire' = wire \o news
           \/ wire' = wire \o news \o <<Msg("interruption", {})>>
    PROVE  Tells(told)
<1> DEFINE w == wire \o news
           m == Msg("cancel", told)
           e == Msg("interruption", {})
<1>1. /\ m \in Message /\ m.kind = "cancel" /\ m.calls = told
      /\ e \in Message /\ e.kind = "interruption" /\ e.calls = {}
  BY DEF Msg, Message, Kinds
<1> HIDE DEF m, e
<1>2. /\ w \in Seq(Message) /\ Single(w) /\ CallOrder(w)
      /\ BatchOrder(wire) => BatchOrder(w)
      /\ \A k, c : On(w, k, c) <=> On(wire, k, c) \/ (k = "cancel" /\ c \in told)
      /\ \A k, c : Leads(wire, k, c) => Leads(w, k, c)
  <2>1. CASE told = {}
    <3>1. w = wire
      BY <2>1
    <3>2. QED
      BY <2>1, <3>1
  <2>2. CASE told # {}
    <3>1. w = Append(wire, m)
      BY <1>1, <2>2 DEF m
    <3> HIDE DEF w
    <3>2. /\ Append(wire, m) \in Seq(Message)
          /\ Single(Append(wire, m)) /\ CallOrder(Append(wire, m))
          /\ BatchOrder(wire) => BatchOrder(Append(wire, m))
          /\ \A k, c : On(Append(wire, m), k, c)
                            <=> On(wire, k, c) \/ (m.kind = k /\ c \in m.calls)
          /\ \A k, c : Leads(wire, k, c) => Leads(Append(wire, m), k, c)
      BY <1>1, UrgentAppend
    <3>3. \A k, c : On(Append(wire, m), k, c)
                        <=> On(wire, k, c) \/ (k = "cancel" /\ c \in told)
      BY <1>1, <3>2
    <3>4. QED
      BY <3>1, <3>2, <3>3
  <2>3. QED
    BY <2>1, <2>2
<1> HIDE DEF w
<1>3. CASE wire' = w
  BY <1>2, <1>3 DEF Tells
<1>4. CASE wire' = w \o <<e>>
  <2>1. wire' = Append(w, e)
    BY <1>1, <1>2, <1>4
  <2>2. /\ Single(wire') /\ CallOrder(wire')
        /\ BatchOrder(w) => BatchOrder(wire')
        /\ \A k, c : On(wire', k, c) <=> On(w, k, c) \/ (e.kind = k /\ c \in e.calls)
        /\ \A k, c : Leads(w, k, c) => Leads(wire', k, c)
    BY <1>1, <1>2, <2>1, UrgentAppend
  <2>3. \A k, c : On(wire', k, c) <=> On(wire, k, c) \/ (k = "cancel" /\ c \in told)
    BY <1>1, <1>2, <2>2
  <2>4. QED
    BY <1>2, <2>2, <2>3 DEF Tells
<1>5. QED
  BY <1>3, <1>4 DEF w, e

\* A turn of the loop: the call it waited for and those it passed have been told,
\* and it cancels another call or is over.
LEMMA LoopOutcome ==
    ASSUME IInv, OutcomeInv, NEW told \in SUBSET Call, Tells(told),
           told \subseteq cancelled,
           loopAt # 0 => loopAt \in told /\ pc[loopAt] = "ended",
           UNCHANGED <<parallel, async, timer, inProgress, context, overtaken, runs,
                       gaveUp, sent>>,
           tasks' \subseteq tasks,
           \/ loopAt' = 0 /\ UNCHANGED <<pc, cancelled>>
           \/ /\ loopAt' \in Call \ async /\ pc[loopAt'] \in Live
              /\ parallel => \A c \in Call : pc[c] # "created"
              /\ pc' = [pc EXCEPT ![loopAt'] = AfterCancel(@)]
              /\ cancelled' = cancelled \cup {loopAt'}
    PROVE  OutcomeInv'
<1> DEFINE v == loopAt'
<1>1. /\ TypeOK /\ WireInv /\ RunInv
      /\ \A d \in Call : CallInv(d) /\ ContextInv(d) /\ ResultInv(d)
                           /\ CancelInv(d) /\ GroupInv(d)
      /\ 0 \notin Call
  BY CallsAssumption DEF IInv, OutcomeInv, Call
<1>2. /\ pc \in [Call -> PcType] /\ cancelled \subseteq cancelled'
      /\ \A d \in Call \ {v} : pc'[d] = pc[d] /\ (d \in cancelled' => d \in cancelled)
  BY <1>1 DEF TypeOK
<1>3. ASSUME v \in Call
      PROVE  /\ pc[v] \in Live /\ pc'[v] = AfterCancel(pc[v]) /\ v \in cancelled'
             /\ v \notin async
             /\ parallel => \A c \in Call : pc[c] # "created"
  BY <1>1, <1>2, <1>3
<1>4. \A k, c : On(wire', k, c) <=> On(wire, k, c) \/ (k = "cancel" /\ c \in told)
  BY DEF Tells
<1> HIDE DEF v
<1>5. v \in Call => pc'[v] \in {"ended", "stopping", "reporting"}
                    /\ (pc'[v] # "ended" => pc[v] \in Begun)
                    /\ (pc'[v] = "reporting" => pc[v] = "reporting")
  BY <1>3 DEF AfterCancel, Live, Begun
<1>6. WireInv'
  BY <1>1 DEF WireInv, Tells
<1>7. ASSUME NEW d \in Call PROVE CallInv(d)'
  <2>1. CallInv(d) /\ \A k \in Kinds \ {"cancel"} : On(wire', k, d) <=> On(wire, k, d)
    BY <1>1, <1>4
  <2>2. ProgressSent(d)' <=> ProgressSent(d)
    BY <1>4 DEF ProgressSent
  <2>3. CASE d = v
    BY <1>3, <1>5, <2>1, <2>2, <2>3 DEF CallInv, Begun, Live
  <2>4. CASE d # v
    <3>1. pc'[d] = pc[d] /\ cancelled \subseteq cancelled'
      BY <1>2, <2>4
    <3>2. pc[d] = "idle" => \A k \in Kinds : ~On(wire', k, d)
      <4>1. pc[d] = "idle" => d \notin told
        BY <1>1, <2>1, <2>2 DEF CancelInv
      <4>2. QED
        BY <1>4, <2>1, <4>1 DEF CallInv
    <3>3. On(wire', "progress", d) <=> On(wire, "progress", d)
      BY <1>4
    <3>4. QED
      BY <2>1, <2>2, <3>1, <3>2, <3>3 DEF CallInv
  <2>5. QED
    BY <2>3, <2>4
<1>8. ASSUME NEW d \in Call PROVE ContextInv(d)'
  BY <1>1, <1>2, <1>4 DEF ContextInv
<1>9. ASSUME NEW d \in Call PROVE ResultInv(d)'
  BY <1>1, <1>4 DEF ResultInv, Results, Tells
<1>10. ASSUME NEW d \in Call PROVE CancelInv(d)'
  <2>1. CancelInv(d)
    BY <1>1
  <2>2. On(wire', "cancel", d) <=> On(wire, "cancel", d) \/ d \in told
    BY <1>4
  <2>3. On(wire', "progress", d) <=> On(wire, "progress", d)
    BY <1>4
  <2>4. On(wire', "cancel", d) => d \in cancelled'
    BY <1>2, <2>1, <2>2 DEF CancelInv
  <2>5. CASE d = v
    BY <1>3, <1>5, <2>4, <2>5 DEF CancelInv, v
  <2>6. CASE d # v
    <3>1. pc'[d] = pc[d] /\ (d \in cancelled' => d \in cancelled) /\ loopAt' # d
      BY <1>2, <2>6 DEF v
    <3>2. CASE loopAt = d
      BY <1>1, <2>1, <2>2, <2>4, <3>1, <3>2 DEF CancelInv
    <3>3. CASE loopAt # d
      BY <2>1, <2>2, <2>3, <2>4, <3>1, <3>3 DEF CancelInv
    <3>4. QED
      BY <3>2, <3>3
  <2>7. QED
    BY <2>5, <2>6
<1>11. ASSUME NEW d \in Call PROVE GroupInv(d)'
  <2> SUFFICES ASSUME parallel PROVE GroupInv(d)'
    BY DEF GroupInv
  <2>1. Group(Batch[d]) \subseteq Call /\ GroupInv(d) /\ (ProgressSent(d)' <=> ProgressSent(d))
    BY <1>1, <1>4 DEF Group, ProgressSent
  <2>2. \A e \in Call : /\ pc'[e] = "idle" <=> pc[e] = "idle"
                        /\ pc'[e] = "created" => pc[e] = "created"
                        /\ pc'[e] \in Handled => pc[e] \in Handled
                        /\ pc'[e] = "queued" => pc[e] = "queued"
    BY <1>2, <1>3, <1>5 DEF Live, Handled
  <2>3. loopAt' # 0 => pc'[d] # "created"
    BY <1>3, <2>2 DEF v
  <2>4. pc'[d] \notin {"idle", "created"} => ProgressSent(d)'
    <3>1. CASE d = v
      BY <1>3, <2>1, <3>1 DEF Live, GroupInv
    <3>2. CASE d # v
      BY <1>2, <2>1, <3>2 DEF GroupInv
    <3>3. QED
      BY <3>1, <3>2
  <2>5. On(wire', "value", d) <=> On(wire, "value", d)
    BY <1>4
  <2>6. \A e \in Group(Batch[d]) :
           /\ pc'[d] = "idle" <=> pc'[e] = "idle"
           /\ pc'[d] \in Handled \/ On(wire', "value", d)
                 => pc'[e] \notin {"idle", "created"}
    BY <2>1, <2>2, <2>5 DEF GroupInv
  <2>7. pc'[d] # "queued"
    BY <2>1, <2>2 DEF GroupInv
  <2>8. QED
    BY <2>3, <2>4, <2>6, <2>7 DEF GroupInv
<1>12. RunInv'
  BY <1>1 DEF RunInv
<1>13. QED
  BY <1>6, <1>7, <1>8, <1>9, <1>10, <1>11, <1>12 DEF OutcomeInv
LEMMA TurnOutcome ==
    ASSUME IInv, OutcomeInv, NEW c \in Call \cup {0}, NEW done \in SUBSET Call,
           LoopGoesOn(c, done),
           c = loopAt, c = 0 => done = {}, c # 0 => done = {c} /\ pc[c] = "ended",
           parallel => \A d \in Call : pc[d] # "created",
           UNCHANGED <<modeVars, timer, aggregatorVars, historyVars>>
    PROVE  OutcomeInv'
<1> DEFINE next == {d \in Victims(c) : \A e \in Victims(c) : d <= e}
           passed == {d \in Ahead(c) : \A e \in next : d < e}
           told == done \cup passed
           news == IF told = {} THEN <<>> ELSE <<Msg("cancel", told)>>
<1>1. /\ TypeOK /\ WireInv /\ TasksStarted /\ Call \subseteq Nat \ {0}
      /\ \A d \in Call : CallInv(d) /\ CancelInv(d)
      /\ Ahead(c) \subseteq tasks \ async /\ tasks \subseteq Call
      /\ wire \in Seq(Message) /\ pc \in [Call -> PcType]
  BY CallsAssumption DEF IInv, OutcomeInv, Ahead, Call, TypeOK
<1>2. told \in SUBSET Call
  BY <1>1
<1>3. \A d \in passed : pc[d] = "ended"
  <2>1. CASE next = {}
    BY <1>1, <2>1, NoVictimsAhead
  <2>2. CASE next # {}
    <3>1. PICK n \in next : TRUE
      BY <2>2
    <3> SUFFICES ASSUME NEW d \in passed, pc[d] # "ended" PROVE FALSE
      OBVIOUS
    <3>2. d \in Victims(c) /\ d < n
      BY <3>1 DEF Victims
    <3>3. n <= d /\ n \in Nat /\ d \in Nat
      BY <1>1, <3>1, <3>2 DEF Victims
    <3>4. QED
      BY <3>2, <3>3
  <2>3. QED
    BY <2>1, <2>2
<1>4. told \subseteq cancelled
  <2>1. passed \subseteq cancelled
    BY <1>1, <1>3 DEF CallInv
  <2>2. done \subseteq cancelled
    BY <1>1 DEF CancelInv
  <2>3. QED
    BY <2>1, <2>2
<1>5. /\ UNCHANGED <<parallel, async, timer, inProgress, context, overtaken, runs,
                     gaveUp, sent>>
      /\ loopAt # 0 => loopAt \in told /\ pc[loopAt] = "ended"
  BY DEF modeVars, aggregatorVars, historyVars
<1>6. CASE /\ next # {}
           /\ \E d \in next : CancelTask(d)
           /\ loopDone' = loopDone \cup told
           /\ wire' = wire \o news
           /\ UNCHANGED <<tasks, forwarded>>
  <2>1. PICK d \in next : CancelTask(d)
    BY <1>6
  <2>2. /\ d \in tasks /\ d \in Call \ async /\ pc[d] # "ended"
        /\ loopAt' = d /\ pc' = [pc EXCEPT ![d] = AfterCancel(@)]
        /\ cancelled' = cancelled \cup {d}
    BY <1>1, <2>1 DEF Victims, CancelTask
  <2>3. pc[d] \in Live
    BY <1>1, <2>2 DEF TasksStarted, CallInv, PcType, Live
  <2>4. Tells(told)
    BY <1>1, <1>2, <1>6, NewsTell DEF WireInv
  <2>5. tasks' \subseteq tasks
    BY <1>6
  <2> HIDE DEF told
  <2>6. QED
    BY <1>2, <1>4, <1>5, <2>2, <2>3, <2>4, <2>5, LoopOutcome
<1>7. CASE /\ next = {}
           /\ loopAt' = 0 /\ loopDone' = {}
           /\ tasks' = tasks \ (loopDone \cup told)
           /\ wire' = wire \o news \o <<Msg("interruption", {})>>
           /\ forwarded' = forwarded + 1
           /\ UNCHANGED <<pc, runner, runnerAlive, cancelled>>
  <2>1. Tells(told)
    BY <1>1, <1>2, <1>7, NewsTell DEF WireInv
  <2>2. tasks' \subseteq tasks
    BY <1>7
  <2> HIDE DEF told
  <2>3. QED
    BY <1>2, <1>4, <1>5, <1>7, <2>1, <2>2, LoopOutcome
<1>8. QED
  BY <1>6, <1>7 DEF LoopGoesOn

LEMMA InterruptOutcome ==
    ASSUME IInv, OutcomeInv, Interrupt
    PROVE  OutcomeInv'
<1>1. /\ loopAt = 0 /\ LoopGoesOn(0, {})
      /\ parallel => \A d \in Call : pc[d] # "created"
      /\ UNCHANGED <<modeVars, timer, aggregatorVars, historyVars>>
  BY DEF Interrupt
<1>2. QED
  BY <1>1, TurnOutcome

\* The loop goes on, or fails: the cancelled calls are told all the same.
LEMMA ContinueOutcome ==
    ASSUME IInv, OutcomeInv, LoopContinues
    PROVE  OutcomeInv'
<1>1. /\ TypeOK /\ loopAt \in Call /\ loopAt # 0 /\ pc[loopAt] = "ended"
      /\ UNCHANGED <<modeVars, timer, aggregatorVars, historyVars>>
      /\ WireInv /\ wire \in Seq(Message)
      /\ \A d \in Call : CancelInv(d) /\ GroupInv(d)
  BY DEF IInv, OutcomeInv, TypeOK, LoopContinues
<1>2. parallel => \A d \in Call : pc[d] # "created"
  BY <1>1 DEF GroupInv
<1>3. CASE LoopGoesOn(loopAt, {loopAt})
  <2>1. {loopAt} \in SUBSET Call
    BY <1>1
  <2>2. QED
    BY <1>1, <1>2, <1>3, <2>1, TurnOutcome
<1>4. CASE /\ loopAt' = 0 /\ Broadcast("cancel", {loopAt})
           /\ UNCHANGED <<pc, tasks, cancelled>>
  <2>1. wire' = wire \o <<Msg("cancel", {loopAt})>> /\ {loopAt} \in SUBSET Call
    <3>1. {loopAt} \in SUBSET Call
      BY <1>1
    <3>2. /\ Msg("cancel", {loopAt}) \in Message
          /\ wire' = Append(wire, Msg("cancel", {loopAt}))
      BY <1>1, <1>4, <3>1, BroadcastOn DEF Kinds
    <3>3. ASSUME NEW m \in Message PROVE Append(wire, m) = wire \o <<m>>
      BY <1>1
    <3>4. QED
      BY <3>1, <3>2, <3>3
  <2>2. Tells({loopAt})
    BY <1>1, <2>1, NewsTell DEF WireInv
  <2>3. {loopAt} \subseteq cancelled
    BY <1>1 DEF CancelInv
  <2>4. QED
    BY <1>1, <1>4, <2>1, <2>2, <2>3, LoopOutcome
       DEF modeVars, aggregatorVars, historyVars
<1>5. QED
  BY <1>3, <1>4 DEF LoopContinues
-----------------------------------------------------------------------------
(* The steps of the aggregator.                                            *)

\* The aggregator changes nothing of the service.
ServiceKeeps ==
    UNCHANGED <<parallel, async, pc, timer, tasks, loopAt, cancelled, gaveUp, sent>>

\* What a received frame leaves on the wire.
LEMMA ReceivedKeeps ==
    ASSUME IInv, OutcomeInv, NEW i \in 1..Len(wire), Received(i), ServiceKeeps
    PROVE  /\ WireInv'
           /\ \A k, c : On(wire', k, c) => On(wire, k, c)
           /\ \A k, c : k # wire[i].kind \/ c \notin wire[i].calls
                            => (On(wire', k, c) <=> On(wire, k, c))
           /\ \A k \in Results : \A c :
                 /\ Leads(wire, k, c)
                 /\ ~(wire[i].kind \in Results /\ c \in wire[i].calls)
                 => Leads(wire', k, c)
<1>1. wire \in Seq(Message) /\ WireInv /\ parallel' = parallel
  BY DEF IInv, TypeOK, OutcomeInv, ServiceKeeps
<1>2. WireInv'
  BY <1>1, ReceivedOrder DEF WireInv
<1>3. \A k, c : On(wire', k, c) => On(wire, k, c)
  BY <1>1, ReceivedOn
<1>4. \A k, c : k # wire[i].kind \/ c \notin wire[i].calls
                    => (On(wire', k, c) <=> On(wire, k, c))
  BY <1>1, ReceivedOn
<1>5. \A k \in Results : \A c :
         /\ Leads(wire, k, c)
         /\ ~(wire[i].kind \in Results /\ c \in wire[i].calls)
         => Leads(wire', k, c)
  BY <1>1, ReceivedLeads
<1>6. QED
  BY <1>2, <1>3, <1>4, <1>5

\* A call that the frame is not about.
LEMMA OtherCall ==
    ASSUME IInv, OutcomeInv, NEW i \in 1..Len(wire), Received(i), ServiceKeeps,
           NEW d \in Call,
           d \notin wire[i].calls \/ wire[i].kind = "interruption",
           inProgress'[d] = inProgress[d], context'[d] = context[d],
           overtaken \subseteq overtaken'
    PROVE  CallInv(d)' /\ ContextInv(d)' /\ ResultInv(d)' /\ CancelInv(d)'
<1>1. /\ CallInv(d) /\ ContextInv(d) /\ ResultInv(d) /\ CancelInv(d)
      /\ sent \in [Call -> {"no", "value", "empty"}]
      /\ UNCHANGED <<parallel, async, pc, timer, tasks, loopAt, cancelled, gaveUp, sent>>
  BY DEF IInv, TypeOK, OutcomeInv, ServiceKeeps
<1>2. \A k : On(wire', k, d) => On(wire, k, d)
  BY ReceivedKeeps
<1>3. \A k \in {"started", "progress", "value", "empty", "cancel"} :
         On(wire', k, d) <=> On(wire, k, d)
  BY ReceivedKeeps
<1>4. \A k \in Results : Leads(wire, k, d) => Leads(wire', k, d)
  BY ReceivedKeeps DEF Results
<1>5. CallInv(d)'
  BY <1>1, <1>2, <1>3 DEF CallInv, ProgressSent
<1>6. ContextInv(d)'
  BY <1>1, <1>3 DEF ContextInv
<1>7. ResultInv(d)'
  BY <1>1, <1>2, <1>4 DEF ResultInv, Results
<1>8. CancelInv(d)'
  BY <1>1, <1>3 DEF CancelInv
<1>9. QED
  BY <1>5, <1>6, <1>7, <1>8

\* The batches, if no call is forgotten.
LEMMA GroupReceived ==
    ASSUME IInv, OutcomeInv, NEW i \in 1..Len(wire), Received(i), ServiceKeeps,
           \A e \in Call : ProgressSent(e) => ProgressSent(e)',
           NEW d \in Call
    PROVE  GroupInv(d)'
<1> SUFFICES ASSUME parallel PROVE GroupInv(d)'
  BY DEF GroupInv, ServiceKeeps
<1>1. /\ GroupInv(d) /\ pc' = pc /\ loopAt' = loopAt
      /\ On(wire', "value", d) => On(wire, "value", d)
  BY ReceivedKeeps DEF OutcomeInv, ServiceKeeps
<1>2. QED
  BY <1>1 DEF GroupInv

LEMMA StartedOutcome ==
    ASSUME IInv, OutcomeInv, NEW i \in 1..Len(wire), Arrives(i), Received(i),
           ServiceKeeps, HandleStarted(i)
    PROVE  OutcomeInv'
<1>1. /\ TypeOK /\ WireInv /\ RunInv
      /\ wire \in Seq(Message) /\ wire[i] \in Message
      /\ \A c \in Call : CallInv(c) /\ ContextInv(c) /\ ResultInv(c)
                           /\ CancelInv(c) /\ GroupInv(c)
      /\ UNCHANGED <<parallel, async, pc, timer, tasks, loopAt, cancelled, gaveUp, sent,
                     context, overtaken, runs>>
      /\ wire[i].kind = "started" /\ wire[i].calls \subseteq Call
      /\ sent \in [Call -> {"no", "value", "empty"}]
  <2>1. wire \in Seq(Message) /\ wire[i] \in Message
    BY DEF IInv, TypeOK
  <2>2. wire[i].calls \subseteq Call
    BY <2>1 DEF Message
  <2>3. QED
    BY <2>1, <2>2 DEF IInv, TypeOK, OutcomeInv, ServiceKeeps, HandleStarted
<1>2. /\ \A c \in wire[i].calls : inProgress'[c] = "None"
      /\ \A c \in Call \ wire[i].calls : inProgress'[c] = inProgress[c]
  BY <1>1 DEF HandleStarted
<1>3. /\ WireInv'
      /\ \A k, c : On(wire', k, c) => On(wire, k, c)
      /\ \A k, c : k # "started" => (On(wire', k, c) <=> On(wire, k, c))
      /\ \A k \in Results : \A c : Leads(wire, k, c) => Leads(wire', k, c)
  BY <1>1, ReceivedKeeps DEF Results
<1>4. ASSUME NEW c \in Call PROVE CallInv(c)' /\ ContextInv(c)' /\ ResultInv(c)' /\ CancelInv(c)'
  <2>1. CASE c \notin wire[i].calls
    BY <1>1, <1>2, <2>1, OtherCall
  <2>2. CASE c \in wire[i].calls
    <3>1. On(wire, "started", c)
      BY <1>1, <2>2 DEF On
    <3>2. context[c] = "none" /\ pc[c] # "idle" /\ inProgress'[c] = "None"
      BY <1>1, <1>2, <2>2, <3>1 DEF ContextInv, CallInv, Kinds
    <3>3. ~On(wire', "started", c)
      BY <1>1, <2>2, ArrivalFacts DEF WireInv
    <3>4. CallInv(c)'
      BY <1>1, <1>3, <3>2 DEF CallInv, ProgressSent
    <3>5. ContextInv(c)'
      BY <1>1, <1>3, <3>2, <3>3 DEF ContextInv
    <3>6. ResultInv(c)'
      BY <1>1, <1>3 DEF ResultInv, Results
    <3>7. CancelInv(c)'
      BY <1>1, <1>3 DEF CancelInv
    <3>8. QED
      BY <3>4, <3>5, <3>6, <3>7
  <2>3. QED
    BY <2>1, <2>2
<1>5. ASSUME NEW c \in Call PROVE GroupInv(c)'
  <2>1. \A e \in Call : ProgressSent(e) => ProgressSent(e)'
    BY <1>1, <1>3 DEF ProgressSent
  <2>2. QED
    BY <2>1, GroupReceived
<1>6. RunInv'
  <2>1. \A c \in wire[i].calls : context[c] = "none"
    BY <1>1 DEF ContextInv, On
  <2>2. \A c \in Call : context[c] # "none" => inProgress'[c] = inProgress[c]
    BY <1>2, <2>1
  <2>3. \A b \in Batches : Group(b) \subseteq Call
    BY DEF Group
  <2>4. QED
    BY <1>1, <2>2, <2>3 DEF RunInv
<1>7. QED
  BY <1>3, <1>4, <1>5, <1>6 DEF OutcomeInv

LEMMA ProgressOutcome ==
    ASSUME IInv, OutcomeInv, NEW i \in 1..Len(wire), Arrives(i), Received(i),
           ServiceKeeps, HandleInProgress(i)
    PROVE  OutcomeInv'
<1>1. /\ TypeOK /\ WireInv /\ RunInv
      /\ wire \in Seq(Message) /\ wire[i] \in Message
      /\ \A d \in Call : CallInv(d) /\ ContextInv(d) /\ ResultInv(d)
                           /\ CancelInv(d) /\ GroupInv(d)
      /\ UNCHANGED <<parallel, async, pc, timer, tasks, loopAt, cancelled, gaveUp, sent,
                     overtaken, runs>>
      /\ wire[i].kind = "progress"
      /\ sent \in [Call -> {"no", "value", "empty"}]
  BY DEF IInv, TypeOK, OutcomeInv, ServiceKeeps, HandleInProgress
<1>2. PICK c \in wire[i].calls : /\ inProgress' = [inProgress EXCEPT ![c] = "frame"]
                                 /\ context' = [context EXCEPT ![c] = "running"]
  BY DEF HandleInProgress
<1>3. /\ c \in Call /\ wire[i].calls = {c}
      /\ ~On(wire', "progress", c) /\ ~On(wire, "started", c)
  BY <1>1, ArrivalFacts DEF WireInv
<1>4. /\ inProgress'[c] = "frame" /\ context'[c] = "running"
      /\ \A d \in Call \ {c} : inProgress'[d] = inProgress[d] /\ context'[d] = context[d]
  BY <1>1, <1>2, <1>3 DEF TypeOK
<1>5. /\ WireInv'
      /\ \A k, d : On(wire', k, d) => On(wire, k, d)
      /\ \A k, d : k # "progress" \/ d # c => (On(wire', k, d) <=> On(wire, k, d))
      /\ \A k \in Results : \A d : Leads(wire, k, d) => Leads(wire', k, d)
  BY <1>1, <1>3, ReceivedKeeps DEF Results
<1>6. On(wire, "progress", c)
  BY <1>1 DEF On
<1>7. context[c] = "none" /\ pc[c] \notin {"idle", "queued", "created"}
  BY <1>1, <1>3, <1>6 DEF ContextInv, CallInv
<1>8. ASSUME NEW d \in Call PROVE CallInv(d)' /\ ContextInv(d)' /\ ResultInv(d)' /\ CancelInv(d)'
  <2>1. CASE d # c
    BY <1>1, <1>3, <1>4, <2>1, OtherCall
  <2>2. CASE d = c
    <3>1. CallInv(c)'
      BY <1>1, <1>3, <1>4, <1>7 DEF CallInv, ProgressSent
    <3>2. ContextInv(c)'
      BY <1>3, <1>4, <1>5 DEF ContextInv
    <3>3. ResultInv(c)'
      BY <1>1, <1>3, <1>4, <1>5, <1>7 DEF ResultInv, Results
    <3>4. CancelInv(c)'
      BY <1>1, <1>3, <1>5, <1>6 DEF CancelInv
    <3>5. QED
      BY <2>2, <3>1, <3>2, <3>3, <3>4
  <2>3. QED
    BY <2>1, <2>2
<1>9. ASSUME NEW d \in Call PROVE GroupInv(d)'
  <2>1. \A e \in Call : ProgressSent(e) => ProgressSent(e)'
    BY <1>4, <1>5 DEF ProgressSent
  <2>2. QED
    BY <2>1, GroupReceived
<1>10. RunInv'
  <2>1. ASSUME parallel, NEW b \in Batches, runs[b] = 1
        PROVE  \A d \in Group(b) : inProgress'[d] = "no" /\ context'[d] # "none"
    <3>1. Group(b) \subseteq Call /\ c \notin Group(b)
      BY <1>1, <1>7, <2>1 DEF Group, RunInv
    <3>2. QED
      BY <1>1, <1>4, <2>1, <3>1 DEF RunInv
  <2>2. ASSUME parallel, NEW b \in Batches, \A d \in Group(b) : context'[d] = "result"
        PROVE  runs[b] = 1
    <3>1. Group(b) \subseteq Call /\ c \notin Group(b)
      BY <1>4, <2>2 DEF Group
    <3>2. QED
      BY <1>1, <1>4, <2>2, <3>1 DEF RunInv
  <2>3. QED
    BY <1>1, <2>1, <2>2 DEF RunInv
<1>11. QED
  BY <1>5, <1>8, <1>9, <1>10 DEF OutcomeInv
\* A result that is known to be the last of a group makes the LLM run, once.
LEMMA ResultRuns ==
    ASSUME IInv, OutcomeInv, NEW i \in 1..Len(wire), Arrives(i), NEW c \in wire[i].calls,
           parallel, wire[i].kind = "value", inProgress[c] # "no", c \in Call
    PROVE  /\ runs[Batch[c]] = 0
           /\ LastOfGroup(c) => \A d \in Group(Batch[c]) \ {c} :
                                   inProgress[d] = "no" /\ context[d] # "none"
<1>1. /\ TypeOK /\ WireInv /\ RunInv
      /\ \A d \in Call : GroupInv(d) /\ ContextInv(d)
      /\ wire \in Seq(Message) /\ runs \in [Batches -> Nat]
      /\ inProgress \in [Call -> {"no", "None", "frame"}]
  BY DEF IInv, TypeOK, OutcomeInv
<1>2. Batch[c] \in Batches /\ c \in Group(Batch[c]) /\ Group(Batch[c]) \subseteq Call
  BY DEF Batches, Group
<1>3. runs[Batch[c]] = 0
  <2>1. runs[Batch[c]] \in Nat /\ runs[Batch[c]] <= 1 /\ runs[Batch[c]] # 1
    BY <1>1, <1>2 DEF RunInv
  <2>2. QED
    BY <2>1
<1>4. \A d \in Group(Batch[c]) : ~On(wire, "progress", d)
  BY <1>1, ValueArrives DEF WireInv
<1>5. On(wire, "value", c)
  BY DEF On
<1>6. \A d \in Group(Batch[c]) : pc[d] \notin {"idle", "created"}
  BY <1>1, <1>5 DEF GroupInv
<1>7. \A d \in Group(Batch[c]) : context[d] # "none"
  BY <1>1, <1>2, <1>4, <1>6 DEF GroupInv, ProgressSent
<1>8. ASSUME LastOfGroup(c), NEW d \in Group(Batch[c]) \ {c}
      PROVE  inProgress[d] = "no"
  BY <1>1, <1>2, <1>7, <1>8 DEF LastOfGroup, ContextInv
<1>9. QED
  BY <1>3, <1>7, <1>8

LEMMA ResultOutcome ==
    ASSUME IInv, OutcomeInv, NEW i \in 1..Len(wire), Arrives(i), Received(i),
           ServiceKeeps, HandleResult(i)
    PROVE  OutcomeInv'
<1>1. /\ TypeOK /\ WireInv /\ RunInv
      /\ wire \in Seq(Message) /\ wire[i] \in Message
      /\ \A d \in Call : CallInv(d) /\ ContextInv(d) /\ ResultInv(d)
                           /\ CancelInv(d) /\ GroupInv(d)
      /\ UNCHANGED <<parallel, async, pc, timer, tasks, loopAt, cancelled, gaveUp, sent,
                     overtaken>>
      /\ wire[i].kind \in Results
      /\ sent \in [Call -> {"no", "value", "empty"}]
      /\ runs \in [Batches -> Nat]
  <2>1. wire \in Seq(Message) /\ wire[i] \in Message
    BY DEF IInv, TypeOK
  <2>2. wire[i].kind \in Results
    BY DEF HandleResult, IsResult, Results
  <2>3. QED
    BY <2>1, <2>2 DEF IInv, TypeOK, OutcomeInv, ServiceKeeps, HandleResult
<1>2. PICK c \in wire[i].calls :
         \/ /\ inProgress[c] = "no"
            /\ UNCHANGED <<inProgress, context, runs, deferred>>
         \/ /\ inProgress[c] # "no"
            /\ inProgress' = [inProgress EXCEPT ![c] = "no"]
            /\ context' = [context EXCEPT ![c] =
                   IF wire[i].kind = "value" THEN "result" ELSE "completed"]
            /\ IF wire[i].kind = "value" /\ LastOfGroup(c)
                 THEN runs' = [runs EXCEPT ![Batch[c]] = @ + 1]
                 ELSE UNCHANGED runs
  BY Zenon DEF HandleResult
<1>3. /\ c \in Call /\ wire[i].calls = {c}
      /\ ~On(wire, "progress", c) /\ ~On(wire, "started", c)
      /\ \A k : Leads(wire, k, c) => k = wire[i].kind
  BY <1>1, ArrivalFacts DEF WireInv
<1>4. /\ WireInv'
      /\ \A k, d : On(wire', k, d) => On(wire, k, d)
      /\ \A k, d : k \notin Results \/ d # c => (On(wire', k, d) <=> On(wire, k, d))
      /\ \A k \in Results : \A d : Leads(wire, k, d) /\ d # c => Leads(wire', k, d)
  BY <1>1, <1>3, ReceivedKeeps
<1>5. /\ On(wire, wire[i].kind, c) /\ sent[c] # "no"
      /\ ~On(wire', "progress", c) /\ ~On(wire', "started", c)
  <2>1. On(wire, wire[i].kind, c)
    BY DEF On
  <2>2. sent[c] # "no"
    BY <1>1, <1>3, <2>1 DEF ResultInv
  <2>3. QED
    BY <1>3, <1>4, <2>1, <2>2
<1>6. context[c] # "none" /\ pc[c] \notin {"idle", "queued", "created"}
  BY <1>1, <1>3, <1>5 DEF CallInv, ProgressSent
<1>7. \A d \in Call \ {c} : inProgress'[d] = inProgress[d] /\ context'[d] = context[d]
  BY <1>1, <1>2 DEF TypeOK
<1>8. CASE inProgress[c] = "no"
  <2>1. UNCHANGED <<inProgress, context, runs>>
    BY <1>2, <1>8
  <2>2. context[c] \notin {"none", "running"}
    BY <1>1, <1>3, <1>6, <1>8 DEF ContextInv
  <2>3. ASSUME NEW d \in Call
        PROVE  CallInv(d)' /\ ContextInv(d)' /\ ResultInv(d)' /\ CancelInv(d)'
    <3>1. CASE d # c
      BY <1>1, <1>3, <2>1, <3>1, OtherCall
    <3>2. CASE d = c
      <4>1. CallInv(c)'
        BY <1>1, <1>3, <1>5, <1>6, <2>1 DEF CallInv, ProgressSent
      <4>2. ContextInv(c)'
        BY <1>1, <1>3, <1>5, <2>1 DEF ContextInv
      <4>3. ResultInv(c)'
        BY <1>1, <1>3, <1>5, <2>1, <2>2 DEF ResultInv
      <4>4. CancelInv(c)'
        BY <1>1, <1>3, <1>4, <2>1 DEF CancelInv, Results
      <4>5. QED
        BY <3>2, <4>1, <4>2, <4>3, <4>4
    <3>3. QED
      BY <3>1, <3>2
  <2>4. ASSUME NEW d \in Call PROVE GroupInv(d)'
    <3>1. \A e \in Call : ProgressSent(e) => ProgressSent(e)'
      BY <1>4, <2>1 DEF ProgressSent, Results
    <3>2. QED
      BY <3>1, GroupReceived
  <2>5. RunInv'
    BY <1>1, <2>1 DEF RunInv
  <2>6. QED
    BY <1>4, <2>3, <2>4, <2>5 DEF OutcomeInv
<1>9. CASE inProgress[c] # "no"
  <2>1. /\ inProgress'[c] = "no"
        /\ context'[c] = IF wire[i].kind = "value" THEN "result" ELSE "completed"
        /\ IF wire[i].kind = "value" /\ LastOfGroup(c)
             THEN runs' = [runs EXCEPT ![Batch[c]] = @ + 1]
             ELSE UNCHANGED runs
    BY <1>1, <1>2, <1>3, <1>9 DEF TypeOK
  <2>2. context[c] = "running"
    BY <1>1, <1>3, <1>6, <1>9 DEF ContextInv, TypeOK
  <2>3. sent[c] = wire[i].kind
    BY <1>1, <1>3, <1>5, <2>2 DEF ResultInv
  <2>4. ASSUME NEW d \in Call
        PROVE  CallInv(d)' /\ ContextInv(d)' /\ ResultInv(d)' /\ CancelInv(d)'
    <3>1. CASE d # c
      BY <1>1, <1>3, <1>7, <3>1, OtherCall
    <3>2. CASE d = c
      <4>1. CallInv(c)'
        BY <1>1, <1>3, <1>5, <1>6, <2>1 DEF CallInv, ProgressSent
      <4>2. ContextInv(c)'
        BY <1>5, <2>1 DEF ContextInv
      <4>3. ResultInv(c)'
        BY <1>1, <2>1, <2>3 DEF ResultInv, Results
      <4>4. CancelInv(c)'
        BY <1>1, <1>3, <1>4, <1>5, <2>1 DEF CancelInv, Results
      <4>5. QED
        BY <3>2, <4>1, <4>2, <4>3, <4>4
    <3>3. QED
      BY <3>1, <3>2
  <2>5. ASSUME NEW d \in Call PROVE GroupInv(d)'
    <3>1. ASSUME NEW e \in Call, ProgressSent(e) PROVE ProgressSent(e)'
      <4>1. CASE e = c
        BY <2>1, <4>1 DEF ProgressSent
      <4>2. CASE e # c
        BY <1>4, <1>7, <3>1, <4>2 DEF ProgressSent
      <4>3. QED
        BY <4>1, <4>2
    <3>2. QED
      BY <3>1, GroupReceived
  <2>6. ASSUME parallel PROVE RunInv'
    <3>1. ASSUME NEW b \in Batches, b # Batch[c]
          PROVE  /\ runs'[b] = runs[b] /\ c \notin Group(b) /\ Group(b) \subseteq Call
      BY <1>1, <2>1, <3>1 DEF Group
    <3>2. ASSUME NEW b \in Batches, b # Batch[c]
          PROVE  /\ runs'[b] <= 1
                 /\ runs'[b] = 1 =>
                      \A d \in Group(b) : inProgress'[d] = "no" /\ context'[d] # "none"
                 /\ (\A d \in Group(b) : context'[d] = "result") => runs'[b] = 1
      <4>1. runs'[b] = runs[b] /\ c \notin Group(b) /\ Group(b) \subseteq Call
        BY <3>1, <3>2
      <4>2. \A d \in Group(b) : inProgress'[d] = inProgress[d] /\ context'[d] = context[d]
        BY <1>7, <4>1
      <4>3. QED
        BY <1>1, <2>6, <4>1, <4>2 DEF RunInv
    <3>3. Batch[c] \in Batches /\ c \in Group(Batch[c]) /\ Group(Batch[c]) \subseteq Call
      BY <1>3 DEF Batches, Group
    <3>4. runs[Batch[c]] = 0
      <4>1. runs[Batch[c]] \in Nat /\ runs[Batch[c]] <= 1 /\ runs[Batch[c]] # 1
        BY <1>1, <1>9, <2>6, <3>3 DEF RunInv
      <4>2. QED
        BY <4>1
    <3>5. CASE wire[i].kind = "value" /\ LastOfGroup(c)
      <4>1. runs'[Batch[c]] = 1
        BY <1>1, <2>1, <3>3, <3>4, <3>5
      <4>2. \A d \in Group(Batch[c]) \ {c} : inProgress[d] = "no" /\ context[d] # "none"
        BY <1>3, <1>9, <2>6, <3>5, ResultRuns
      <4>3. \A d \in Group(Batch[c]) : inProgress'[d] = "no" /\ context'[d] # "none"
        BY <1>7, <2>1, <3>3, <4>2
      <4>4. QED
        BY <3>2, <4>1, <4>3 DEF RunInv
    <3>6. CASE wire[i].kind = "value" /\ ~LastOfGroup(c)
      <4>1. runs'[Batch[c]] = 0
        BY <2>1, <3>4, <3>6
      <4>2. PICK d \in Group(Batch[c]) \ {c} : inProgress[d] = "frame"
        BY <3>6 DEF LastOfGroup
      <4>3. context'[d] = "running"
        BY <1>1, <1>7, <3>3, <4>2 DEF ContextInv
      <4>4. QED
        BY <3>2, <4>1, <4>2, <4>3 DEF RunInv
    <3>7. CASE wire[i].kind # "value"
      <4>1. runs'[Batch[c]] = 0 /\ context'[c] = "completed"
        BY <2>1, <3>4, <3>7
      <4>2. QED
        BY <3>2, <3>3, <4>1 DEF RunInv
    <3>8. QED
      BY <3>5, <3>6, <3>7
  <2>7. RunInv'
    BY <1>1, <2>6 DEF RunInv
  <2>8. QED
    BY <1>4, <2>4, <2>5, <2>7 DEF OutcomeInv
<1>10. QED
  BY <1>8, <1>9

LEMMA CancelOutcome ==
    ASSUME IInv, OutcomeInv, NEW i \in 1..Len(wire), Arrives(i), Received(i),
           ServiceKeeps, HandleCancel(i)
    PROVE  OutcomeInv'
<1> DEFINE known == {c \in wire[i].calls \ async : inProgress[c] = "frame"}
<1>1. /\ TypeOK /\ WireInv /\ RunInv
      /\ wire \in Seq(Message) /\ wire[i] \in Message
      /\ \A d \in Call : CallInv(d) /\ ContextInv(d) /\ ResultInv(d)
                           /\ CancelInv(d) /\ GroupInv(d)
      /\ UNCHANGED <<parallel, async, pc, timer, tasks, loopAt, cancelled, gaveUp, sent,
                     runs>>
      /\ wire[i].kind = "cancel"
      /\ sent \in [Call -> {"no", "value", "empty"}]
  BY DEF IInv, TypeOK, OutcomeInv, ServiceKeeps, HandleCancel
<1>2. \A c \in Call :
         /\ c \in known => inProgress'[c] = "no" /\ context'[c] = "cancelled"
         /\ c \notin known => inProgress'[c] = inProgress[c] /\ context'[c] = context[c]
  BY DEF HandleCancel
<1>3. /\ overtaken \subseteq overtaken'
      /\ \A c \in wire[i].calls :
            (\E j \in 1..Len(wire) : wire[j] = Msg("progress", {c})) => c \in overtaken'
  BY DEF HandleCancel
<1>4. /\ WireInv'
      /\ \A k, c : On(wire', k, c) => On(wire, k, c)
      /\ \A k, c : k # "cancel" => (On(wire', k, c) <=> On(wire, k, c))
      /\ \A k \in Results : \A c : Leads(wire, k, c) => Leads(wire', k, c)
  BY <1>1, ReceivedKeeps DEF Results
<1>5. \A c \in Call : c \in wire[i].calls => c \in cancelled /\ c \notin async
  BY <1>1 DEF CancelInv, On
<1>6. ASSUME NEW c \in Call, c \in wire[i].calls, On(wire, "progress", c)
      PROVE  c \in overtaken'
  <2>1. PICK j \in 1..Len(wire) : wire[j].kind = "progress" /\ c \in wire[j].calls
    BY <1>6, Zenon DEF On
  <2>2. wire[j].calls = {c}
    BY <1>1, <2>1 DEF WireInv, Single
  <2>3. wire[j] \in Message
    BY <1>1
  <2>4. wire[j] = Msg("progress", {c})
    BY <2>1, <2>2, <2>3 DEF Msg, Message
  <2>5. QED
    BY <1>3, <1>6, <2>4
<1>7. \A c \in Call : c \in known =>
         /\ c \in wire[i].calls /\ context[c] = "running"
         /\ ~On(wire, "started", c) /\ ~On(wire, "progress", c)
  BY <1>1 DEF ContextInv
<1>8. \A c \in Call : c \in wire[i].calls /\ c \notin known => inProgress[c] # "frame"
  BY <1>5
<1> HIDE DEF known
<1>9. \A c \in Call : ProgressSent(c)' <=> ProgressSent(c)
  BY <1>2, <1>4, <1>7 DEF ProgressSent
<1>10. \A c \in Call : /\ context'[c] = "none" <=> context[c] = "none"
                       /\ inProgress[c] = "no" => inProgress'[c] = "no"
                       /\ context'[c] = "result" => context[c] = "result"
  BY <1>2, <1>7
<1>11. ASSUME NEW c \in Call
       PROVE  CallInv(c)' /\ ContextInv(c)' /\ ResultInv(c)' /\ CancelInv(c)'
  <2>1. CASE c \notin wire[i].calls
    BY <1>1, <1>2, <1>3, <1>7, <2>1, OtherCall
  <2>2. CASE c \in wire[i].calls
    <3>1. CallInv(c)'
      BY <1>1, <1>4, <1>9, <1>10 DEF CallInv
    <3>2. ContextInv(c)'
      BY <1>1, <1>2, <1>4, <1>5, <1>7, <2>2 DEF ContextInv
    <3>3. ResultInv(c)'
      BY <1>1, <1>2, <1>4 DEF ResultInv, Results
    <3>4. /\ c \in known => context'[c] # "running" /\ ~On(wire', "progress", c)
          /\ c \notin known => context'[c] # "running"
          /\ On(wire', "progress", c) => c \in overtaken'
      BY <1>1, <1>2, <1>4, <1>6, <1>7, <1>8, <2>2 DEF ContextInv
    <3>5. CancelInv(c)'
      BY <1>1, <1>4, <3>4 DEF CancelInv
    <3>6. QED
      BY <3>1, <3>2, <3>3, <3>5
  <2>3. QED
    BY <2>1, <2>2
<1>12. ASSUME NEW c \in Call PROVE GroupInv(c)'
  BY <1>9, GroupReceived
<1>13. RunInv'
  <2>1. \A b \in Batches : Group(b) \subseteq Call
    BY DEF Group
  <2>2. QED
    BY <1>1, <1>10, <2>1 DEF RunInv
<1>14. QED
  BY <1>4, <1>11, <1>12, <1>13 DEF OutcomeInv

LEMMA InterruptionOutcome ==
    ASSUME IInv, OutcomeInv, NEW i \in 1..Len(wire), Arrives(i), Received(i),
           ServiceKeeps, HandleInterruption(i)
    PROVE  OutcomeInv'
<1>1. /\ wire[i].kind = "interruption" /\ RunInv
      /\ UNCHANGED <<parallel, inProgress, context, overtaken, runs>>
  BY DEF HandleInterruption, aggregatorVars, OutcomeInv, ServiceKeeps
<1>2. \A c \in Call : CallInv(c)' /\ ContextInv(c)' /\ ResultInv(c)' /\ CancelInv(c)'
  BY <1>1, OtherCall
<1>3. \A e \in Call : ProgressSent(e) => ProgressSent(e)'
  BY <1>1, ReceivedKeeps DEF ProgressSent
<1>4. \A c \in Call : GroupInv(c)'
  BY <1>3, GroupReceived
<1>5. RunInv'
  BY <1>1 DEF RunInv
<1>6. WireInv'
  BY ReceivedKeeps
<1>7. QED
  BY <1>2, <1>4, <1>5, <1>6 DEF OutcomeInv

LEMMA AggregateOutcome ==
    ASSUME IInv, OutcomeInv, Aggregate
    PROVE  OutcomeInv'
<1>1. ServiceKeeps
  BY DEF Aggregate, ServiceKeeps, callVars, modeVars, loopVars, historyVars
<1>2. QED
  BY <1>1, StartedOutcome, ProgressOutcome, ResultOutcome, CancelOutcome,
     InterruptionOutcome DEF Aggregate
-----------------------------------------------------------------------------

\* Who speaks says nothing about a call.
LEMMA SpeechOutcome ==
    ASSUME OutcomeInv, Speech \/ UNCHANGED vars
    PROVE  OutcomeInv'
<1>1. UNCHANGED <<callVars, loopVars, wire, aggregatorVars, historyVars>>
  BY DEF Speech, UserStartsSpeaking, UserStopsSpeaking, BotStartsSpeaking,
         BotStopsSpeaking, vars
<1>2. UNCHANGED <<parallel, pc, async, timer, tasks, loopAt, cancelled, wire, inProgress,
                  context, overtaken, runs, gaveUp, sent>>
  BY <1>1 DEF callVars, modeVars, loopVars, aggregatorVars, historyVars
<1>3. WireInv' /\ RunInv'
  BY <1>2 DEF OutcomeInv, WireInv, RunInv
<1>4. ASSUME NEW c \in Call
      PROVE  CallInv(c)' /\ ContextInv(c)' /\ ResultInv(c)' /\ CancelInv(c)' /\ GroupInv(c)'
  BY <1>2 DEF OutcomeInv, CallInv, ContextInv, ResultInv, CancelInv, GroupInv, ProgressSent
<1>5. QED
  BY <1>3, <1>4 DEF OutcomeInv

LEMMA OutcomeStep ==
    ASSUME IInv, OutcomeInv, [Next]_vars
    PROVE  OutcomeInv'
<1>1. CASE \E b \in Batches : RunFunctionCalls(b)
  BY <1>1, BatchOutcome
<1>2. CASE \E c \in Call : TaskStep(c)
  BY <1>2, TaskOutcome, CallStartsOutcome DEF TaskStep
<1>3. CASE \E c \in Call : TimesOut(c) \/ HandlerStep(c)
  BY <1>3, TaskOutcome
<1>4. CASE Interrupt
  BY <1>4, InterruptOutcome
<1>5. CASE LoopContinues
  BY <1>5, ContinueOutcome
<1>6. CASE LoopCancelsAgain
  BY <1>6, AgainOutcome
<1>7. CASE Aggregate
  BY <1>7, AggregateOutcome
<1>8. CASE Speech \/ UNCHANGED vars
  BY <1>8, SpeechOutcome
<1>9. QED
  BY <1>1, <1>2, <1>3, <1>4, <1>5, <1>6, <1>7, <1>8 DEF Next

LEMMA OutcomeInit == Init => OutcomeInv
<1> SUFFICES ASSUME Init PROVE OutcomeInv
  OBVIOUS
<1>1. wire = <<>> /\ Len(wire) = 0 /\ 1..Len(wire) = {}
  BY DEF Init
<1>2. \A k, c : ~On(wire, k, c)
  BY <1>1 DEF On
<1>3. WireInv
  BY <1>1 DEF WireInv, Single, CallOrder, BatchOrder
<1>4. ASSUME NEW b \in Batches PROVE runs[b] = 0 /\ \E c \in Group(b) : context[c] = "none"
  <2>1. PICK c \in Call : Batch[c] = b
    BY DEF Batches
  <2>2. c \in Group(b) /\ context[c] = "none"
    BY <2>1 DEF Group, Init
  <2>3. QED
    BY <2>2 DEF Init
<1>5. RunInv
  <2>1. ASSUME NEW b \in Batches
        PROVE  /\ runs[b] <= 1 /\ runs[b] # 1
               /\ ~\A c \in Group(b) : context[c] = "result"
    <3>1. PICK c \in Group(b) : context[c] = "none"
      BY <1>4
    <3>2. QED
      BY <1>4, <3>1
  <2>2. QED
    BY <2>1 DEF RunInv
<1>6. 0 \notin Call
  BY CallsAssumption DEF Call
<1>7. ASSUME NEW c \in Call
      PROVE  CallInv(c) /\ ContextInv(c) /\ ResultInv(c) /\ CancelInv(c) /\ GroupInv(c)
  <2>1. /\ pc[c] = "idle" /\ ~timer[c] /\ sent[c] = "no" /\ context[c] = "none"
        /\ inProgress[c] = "no" /\ loopAt = 0 /\ cancelled = {}
        /\ \A d \in Group(Batch[c]) : pc[d] = "idle"
    BY DEF Init, Group
  <2>2. CallInv(c) /\ ContextInv(c) /\ ResultInv(c)
    BY <1>2, <2>1 DEF CallInv, ContextInv, ResultInv, Begun
  <2>3. CancelInv(c)
    BY <1>2, <1>6, <2>1 DEF CancelInv
  <2>4. GroupInv(c)
    BY <1>2, <2>1 DEF GroupInv, Handled
  <2>5. QED
    BY <2>2, <2>3, <2>4
<1>8. QED
  BY <1>3, <1>5, <1>7 DEF OutcomeInv

LEMMA OutcomeAlways == Spec => [](IInv /\ OutcomeInv)
<1>1. Init => IInv /\ OutcomeInv
  BY InitInv, OutcomeInit
<1>2. IInv /\ OutcomeInv /\ [Next]_vars => (IInv /\ OutcomeInv)'
  BY Step, OutcomeStep
<1>3. QED
  BY <1>1, <1>2, PTL DEF Spec

\* Once the frames of a call have arrived, the context says what happened to it: the
\* first result that was reported, or that it was cancelled; it is left as running only
\* if its handler gave up or its cancellation overtook its start.
THEOREM OutcomeTold == Spec => []ContextTellsOutcome
<1>1. IInv /\ OutcomeInv => ContextTellsOutcome
  <2> SUFFICES ASSUME IInv, OutcomeInv, NEW c \in Call, Settled(c)
               PROVE  \/ /\ c \in gaveUp \cup cancelled
                         /\ context[c] = "running" => c \in gaveUp \cup overtaken
                      \/ sent[c] = "value" /\ context[c] = "result"
                      \/ sent[c] = "empty" /\ context[c] = "completed"
    BY DEF ContextTellsOutcome
  <2>1. /\ CallInv(c) /\ ContextInv(c) /\ ResultInv(c) /\ CancelInv(c)
        /\ context[c] \in {"none", "running", "result", "completed", "cancelled"}
    BY DEF IInv, TypeOK, OutcomeInv
  <2>2. pc[c] = "ended" /\ loopAt # c /\ \A k : ~On(wire, k, c)
    BY DEF Settled, On
  <2>3. CASE c \in gaveUp
    BY <2>3
  <2>4. CASE c \in cancelled
    BY <2>1, <2>2, <2>4 DEF CancelInv
  <2>5. CASE c \notin gaveUp \cup cancelled
    <3>1. sent[c] # "no"
      BY <2>1, <2>2, <2>5 DEF CallInv
    <3>2. ~Leads(wire, sent[c], c) /\ context[c] # "cancelled"
      BY <2>1, <2>2, <2>5 DEF Leads, On, ContextInv
    <3>3. context[c] \in {"result", "completed"}
      BY <2>1, <3>1, <3>2 DEF ResultInv
    <3>4. QED
      BY <2>1, <3>3 DEF ResultInv
  <2>6. QED
    BY <2>3, <2>4, <2>5
<1>2. QED
  BY <1>1, OutcomeAlways, PTL

\* With parallel calls no batch makes the LLM run twice, and a batch whose calls all
\* reported a value has made it run.
THEOREM GroupsRunOnce == Spec => []OneRunPerGroup
<1>1. OutcomeInv => OneRunPerGroup
  BY DEF OutcomeInv, RunInv, OneRunPerGroup
<1>2. QED
  BY <1>1, OutcomeAlways, PTL
-----------------------------------------------------------------------------
(* Nothing is left in progress: the state half of TimedCallsAnswered.      *)

\* A call that has a timeout and no result has it until its handler reports.
TimerInv ==
    \A c \in Timed :
        pc[c] \in {"yielded", "running"} /\ sent[c] = "no" => timer[c]

\* Somebody will tell the aggregator of the call: its handler, which reports or whose
\* timeout does, the loop that has cancelled it, or a frame that is on its way.
WillBeTold(c) ==
    \/ /\ pc[c] \in {"yielded", "running"}
       /\ c \in Timed => timer[c] \/ \E k \in Results : On(wire, k, c)
    \/ pc[c] = "reporting"
    \/ loopAt = c
    \/ \E k \in {"value", "empty", "cancel"} : On(wire, k, c)

\* A call the aggregator shows as running is not forgotten by the service, unless its
\* handler ended without a result or its cancellation was missed: a call that runs out
\* of time has its timeout, one that was interrupted the loop or the frame that says so.
NoCallForgotten ==
    \A c \in Call :
        inProgress[c] = "frame" => WillBeTold(c) \/ c \in gaveUp \cup overtaken

LEMMA TimerStep ==
    ASSUME IInv, TimerInv, [Next]_vars
    PROVE  TimerInv'
<1> USE CallsAssumption DEF Call
<1>1. /\ pc \in [Call -> PcType] /\ timer \in [Call -> BOOLEAN]
      /\ sent \in [Call -> {"no", "value", "empty"}] /\ Timed \subseteq Call
  BY DEF IInv, TypeOK
<1>2. ASSUME NEW b \in Batches, RunFunctionCalls(b) PROVE TimerInv'
  BY <1>1, <1>2 DEF TimerInv, RunFunctionCalls, historyVars
<1>3. ASSUME NEW c \in Call, TaskStep(c) PROVE TimerInv'
  <2>1. CASE RunnerTakes(c)
    BY <1>1, <2>1 DEF TimerInv, RunnerTakes, historyVars
  <2>2. CASE CallStarts(c)
    BY <1>1, <2>2 DEF TimerInv, CallStarts, historyVars
  <2>3. CASE HandlerStarts(c)
    BY <1>1, <2>3 DEF TimerInv, HandlerStarts, historyVars
  <2>4. CASE TimeoutStopped(c)
    BY <1>1, <2>4 DEF TimerInv, TimeoutStopped, SendResult, Results
  <2>5. CASE TaskStopped(c)
    BY <1>1, <2>5 DEF TimerInv, TaskStopped, historyVars
  <2>6. QED
    BY <1>3, <2>1, <2>2, <2>3, <2>4, <2>5 DEF TaskStep
<1>4. ASSUME NEW c \in Call, TimesOut(c) PROVE TimerInv'
  BY <1>1, <1>4 DEF TimerInv, TimesOut, SendResult
<1>5. ASSUME NEW c \in Call, HandlerStep(c) PROVE TimerInv'
  <2>1. CASE Report(c)
    BY <1>1, <2>1 DEF TimerInv, Report, SendResult, Results
  <2>2. CASE HandlerReturns(c)
    BY <1>1, <2>2 DEF TimerInv, HandlerReturns, historyVars
  <2>3. CASE HandlerGivesUp(c)
    BY <1>1, <2>3 DEF TimerInv, HandlerGivesUp
  <2>4. CASE ReportLate(c)
    BY <1>1, <2>4 DEF TimerInv, ReportLate, SendResult, Results
  <2>5. QED
    BY <1>5, <2>1, <2>2, <2>3, <2>4 DEF HandlerStep
<1>6. ASSUME NEW c \in Call \cup {0}, NEW done, LoopGoesOn(c, done),
             UNCHANGED <<timer, sent>>
      PROVE  TimerInv'
  <2>1. \/ pc' = pc
        \/ \E d \in Call : pc' = [pc EXCEPT ![d] = AfterCancel(@)]
    BY <1>6 DEF LoopGoesOn, CancelTask, Victims, Ahead, IInv, TypeOK
  <2>2. QED
    BY <1>1, <1>6, <2>1 DEF TimerInv, AfterCancel
<1>7. CASE Interrupt
  BY <1>6, <1>7 DEF Interrupt, historyVars
<1>8. CASE LoopContinues
  <2>1. loopAt \in Call \cup {0}
    BY DEF IInv, TypeOK
  <2>2. CASE LoopGoesOn(loopAt, {loopAt})
    BY <1>6, <1>8, <2>1, <2>2 DEF LoopContinues, historyVars
  <2>3. CASE UNCHANGED pc
    BY <1>8, <2>3 DEF TimerInv, LoopContinues, historyVars
  <2>4. QED
    BY <1>8, <2>2, <2>3 DEF LoopContinues
<1>9. CASE LoopCancelsAgain
  BY <1>1, <1>9 DEF TimerInv, LoopCancelsAgain, historyVars
<1>10. CASE Aggregate \/ Speech \/ UNCHANGED vars
  <2>1. UNCHANGED <<pc, timer, sent>>
    BY <1>10 DEF Aggregate, Speech, UserStartsSpeaking, UserStopsSpeaking,
       BotStartsSpeaking, BotStopsSpeaking, callVars, historyVars, vars
  <2>2. QED
    BY <2>1 DEF TimerInv
<1>11. QED
  BY <1>2, <1>3, <1>4, <1>5, <1>7, <1>8, <1>9, <1>10 DEF Next

\* A call shown as running has somebody who will report it, or its handler gave up or
\* its cancellation overtook its start.
THEOREM CallsAccountedFor == Spec => []NoCallForgotten
<1>1. Init => TimerInv
  BY CallsAssumption DEF Init, TimerInv
<1>2. (IInv /\ OutcomeInv) /\ TimerInv /\ [Next]_vars => TimerInv'
  BY TimerStep
<1>3. (IInv /\ OutcomeInv) /\ TimerInv => NoCallForgotten
  <2> SUFFICES ASSUME IInv, OutcomeInv, TimerInv, NEW c \in Call,
                      inProgress[c] = "frame", c \notin gaveUp \cup overtaken
               PROVE  WillBeTold(c)
    BY DEF NoCallForgotten
  <2>1. CallInv(c) /\ ContextInv(c) /\ ResultInv(c) /\ CancelInv(c)
    BY DEF OutcomeInv
  <2>2. context[c] = "running" /\ pc[c] \in PcType
    BY <2>1 DEF ContextInv, IInv, TypeOK
  <2>3. sent[c] \in {"no", "value", "empty"}
    BY DEF IInv, TypeOK
  <2>4. CASE sent[c] # "no"
    <3>1. Leads(wire, sent[c], c)
      BY <2>1, <2>2, <2>4 DEF ResultInv
    <3>2. On(wire, sent[c], c)
      BY <3>1 DEF Leads, On
    <3>3. QED
      BY <2>3, <2>4, <3>2 DEF WillBeTold
  <2>5. CASE c \in cancelled
    BY <2>1, <2>2, <2>5 DEF CancelInv, WillBeTold
  <2>6. CASE sent[c] = "no" /\ c \notin cancelled
    <3>1. pc[c] \in {"yielded", "running", "reporting"}
      BY <2>1, <2>2, <2>6 DEF CallInv, PcType
    <3>2. QED
      BY <2>6, <3>1 DEF WillBeTold, TimerInv
  <2>7. QED
    BY <2>4, <2>5, <2>6
<1>4. QED
  BY <1>1, <1>2, <1>3, OutcomeAlways, PTL DEF Spec
=============================================================================
