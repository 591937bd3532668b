----------------------- MODULE WebsocketServiceProofs -----------------------
(***************************************************************************)
(* Proofs about the shared connection of a websocket service, for any      *)
(* number of sockets, attempts and quick failures: types, that one task at *)
(* a time is in the loop that reconnects, that nobody uses the connection  *)
(* once the CancelFrame has been handled, and that what a task waits for   *)
(* comes (WaitsEnd).                                                       *)
(***************************************************************************)
EXTENDS WebsocketService, TLAPS

(***************************************************************************)
(* The inductive invariant.                                                *)
(***************************************************************************)

\* What the three tasks do, and where they wait while they do it.
Shape ==
    /\ job["receive"] = "none"
    /\ pc["receive"] \in Loop \cup {"idle", "enter", "listen"}
    /\ job["process"] \in {"none", "text"} \cup Uninterruptible
    /\ job["input"] \in {"none", "start", "interruption", "cancel"}
    /\ job["input"] = "none" <=> pc["input"] = "idle"
    /\ job["process"] = "none" => pc["process"] \in {"idle", "gone"}
    /\ pc["process"] = "idle" => job["process"] = "none"
    /\ \A t \in Task :
          /\ pc[t] = "connect" => job[t] \in {"start", "text", "update", "rest"}
          /\ pc[t] \in Join => job[t] \in Disconnects
    /\ job["input"] = "start" => pc["input"] = "connect" /\ pc["process"] = "idle"

\* A receive task that runs has not had its last quick failure, and one that a
\* task is about to create has had none.
Quick ==
    /\ pc["receive"] # "idle" => quickFailures < MaxQuick
    /\ \A t \in Task :
          ~receiveTask /\ pc[t] = "connect" => quickFailures = 0

\* The input task handles the CancelFrame when the process task has ended, and
\* closes the connection when the receive task has ended.
CancelAlone ==
    job["input"] = "cancel" /\ pc["input"] \notin Awaiting \cup {"lost"} =>
        /\ pc["process"] = "gone"
        /\ pc["input"] \notin Join \cup {"handle"} =>
              pc["receive"] = "idle" /\ ~receiveTask

IInv == TypeOK /\ OneReconnects /\ Shape /\ Quick /\ CancelAlone /\ CancelSticks

-----------------------------------------------------------------------------
(* A task goes on to wait for something else: what that takes to keep the  *)
(* invariant, one lemma for each of its parts.                             *)

Moves(t, l, j) ==
    /\ pc' = [pc EXCEPT ![t] = l]
    /\ job' = [job EXCEPT ![t] = j]

\* The variables that are neither pc nor job have their types.
Rest ==
    /\ at \in [Task -> Socket \cup {NoSocket}]
    /\ conn \in [Socket -> {"open", "closing", "closed"}]
    /\ websocket \in Socket \cup {NoSocket}
    /\ disconnecting \in BOOLEAN /\ reconnecting \in BOOLEAN
    /\ attempt \in 1..MaxRetries /\ quickFailures \in 0..MaxQuick
    /\ receiveTask \in BOOLEAN /\ stopped \in BOOLEAN

Jobs(t) ==
    CASE t = "process" -> {"text"} \cup Uninterruptible
      [] t = "input"   -> {"interruption", "cancel"}
      [] OTHER         -> {}

\* A task may wait there, for that.
Fits(t, l, j) ==
    \/ t = "receive" /\ j = "none" /\ l \in Loop \cup {"idle", "enter", "listen"}
    \/ t # "receive" /\ j = "none" /\ l = "idle"
    \/ /\ t # "receive" /\ j \in Jobs(t) /\ l # "idle"
       /\ l = "connect" => j \in {"text", "update", "rest"}
       /\ l \in Join => j \in Disconnects

\* Where a task is that uses the connection or makes one beside the loop.
Busy == Loop \cup Drop \cup Join \cup {"send", "retry", "enter", "listen"}

\* After a CancelFrame, unless another one is being handled.
Quiet == pc["process"] = "gone" /\ job["input"] # "cancel"

\* The task enters the loop, leaves it or does neither.
Flagged(t, l) ==
    \/ l \in Loop /\ pc[t] \in Loop /\ reconnecting' = reconnecting
    \/ l \in Loop /\ pc[t] \notin Loop /\ ~reconnecting /\ reconnecting'
    \/ l \notin Loop /\ pc[t] \in Loop /\ ~reconnecting'
    \/ l \notin Loop /\ pc[t] \notin Loop /\ reconnecting' = reconnecting

LEMMA Bounds == 1 \in 1..MaxRetries /\ 0 \in 0..MaxQuick /\ MaxQuick > 0
BY ServiceAssumption

LEMMA NoSocketIsNone == NoSocket \notin Socket
BY ServiceAssumption DEF NoSocket, Socket

LEMMA MoveTypes ==
    ASSUME TypeOK, NEW t \in Task, NEW l \in PcType, NEW j \in JobType,
           Moves(t, l, j), Rest',
           pc'["receive"] # "idle" => receiveTask'
    PROVE  TypeOK'
<1>1. pc' \in [Task -> PcType] /\ job' \in [Task -> JobType]
  BY DEF Moves, TypeOK
<1> QED
  BY <1>1 DEF Rest, TypeOK

LEMMA MoveShape ==
    ASSUME TypeOK, Shape, NEW t \in Task, NEW l \in PcType, NEW j \in JobType,
           Moves(t, l, j), Fits(t, l, j),
           t = "process" => job["input"] # "start"
    PROVE  Shape'
<1>1. /\ pc'[t] = l /\ job'[t] = j
      /\ \A u \in Task \ {t} : pc'[u] = pc[u] /\ job'[u] = job[u]
  BY DEF Moves, TypeOK
<1>2. CASE t = "receive"
  BY <1>1, <1>2 DEF Fits, Shape, Task, Loop, Join
<1>3. CASE t = "process"
  BY <1>1, <1>3 DEF Fits, Jobs, Shape, Task, Disconnects, Uninterruptible, Join
<1>4. CASE t = "input"
  BY <1>1, <1>4 DEF Fits, Jobs, Shape, Task, Disconnects, Uninterruptible, Join
<1> QED
  BY <1>2, <1>3, <1>4 DEF Task

LEMMA MoveFlag ==
    ASSUME TypeOK, OneReconnects, NEW t \in Task, NEW l \in PcType,
           NEW j \in JobType, Moves(t, l, j), Rest', Flagged(t, l)
    PROVE  OneReconnects'
<1>1. /\ pc'[t] = l
      /\ \A u \in Task \ {t} : pc'[u] = pc[u]
  BY DEF Moves, TypeOK
<1> DEFINE InLoop(u) == pc[u] \in Loop
<1>2. CASE l \in Loop /\ pc[t] \in Loop /\ reconnecting' = reconnecting
  BY <1>1, <1>2 DEF OneReconnects
<1>3. CASE l \in Loop /\ pc[t] \notin Loop /\ ~reconnecting /\ reconnecting'
  BY <1>1, <1>3 DEF OneReconnects
<1>4. CASE l \notin Loop /\ pc[t] \in Loop /\ ~reconnecting'
  BY <1>1, <1>4 DEF OneReconnects
<1>5. CASE l \notin Loop /\ pc[t] \notin Loop /\ reconnecting' = reconnecting
  BY <1>1, <1>5 DEF OneReconnects
<1> QED
  BY <1>2, <1>3, <1>4, <1>5 DEF Flagged

LEMMA MoveQuick ==
    ASSUME TypeOK, Shape, Quick, NEW t \in Task, NEW l \in PcType,
           NEW j \in JobType, Moves(t, l, j), Rest',
           \/ quickFailures' = 0
           \/ /\ UNCHANGED <<quickFailures, receiveTask>>
              /\ l # "connect"
              /\ t = "receive" => l = "idle" \/ pc[t] # "idle"
           \/ /\ UNCHANGED receiveTask
              /\ t = "receive" /\ receiveTask /\ l # "connect"
              /\ l # "idle" => quickFailures' < MaxQuick
    PROVE  Quick'
<1>1. /\ pc'[t] = l
      /\ \A u \in Task \ {t} : pc'[u] = pc[u]
  BY DEF Moves, TypeOK
<1>2. "receive" \in Task /\ MaxQuick > 0
  BY ServiceAssumption DEF Task
<1>3. CASE quickFailures' = 0
  BY <1>2, <1>3 DEF Quick
<1>4. CASE /\ UNCHANGED <<quickFailures, receiveTask>>
           /\ l # "connect"
           /\ t = "receive" => l = "idle" \/ pc[t] # "idle"
  BY <1>1, <1>2, <1>4 DEF Quick
<1>5. CASE /\ UNCHANGED receiveTask
           /\ t = "receive" /\ receiveTask /\ l # "connect"
           /\ l # "idle" => quickFailures' < MaxQuick
  BY <1>1, <1>2, <1>5 DEF Quick
<1> QED
  BY <1>3, <1>4, <1>5

LEMMA MoveCancel ==
    ASSUME TypeOK, Shape, CancelAlone, NEW t \in Task, NEW l \in PcType,
           NEW j \in JobType, Moves(t, l, j), UNCHANGED receiveTask,
           t = "process" => pc[t] # "gone",
           t = "receive" => l = "idle" \/ pc[t] # "idle",
           t = "input" /\ j = "cancel" =>
               \/ l \in Awaiting \cup {"lost"}
               \/ l \in Join \cup {"handle"} /\ pc["process"] = "gone"
               \/ /\ job[t] = "cancel"
                  /\ pc[t] \notin Awaiting \cup Join \cup {"lost", "handle"}
    PROVE  CancelAlone'
<1>1. /\ pc'[t] = l /\ job'[t] = j
      /\ \A u \in Task \ {t} : pc'[u] = pc[u] /\ job'[u] = job[u]
  BY DEF Moves, TypeOK
<1>2. CASE t = "receive"
  BY <1>1, <1>2 DEF CancelAlone, Task
<1>3. CASE t = "process"
  BY <1>1, <1>3 DEF CancelAlone, Task
<1>4. CASE t = "input"
  BY <1>1, <1>4 DEF CancelAlone, Task
<1> QED
  BY <1>2, <1>3, <1>4 DEF Task

LEMMA MoveSticks ==
    ASSUME TypeOK, NEW t \in Task, NEW l \in PcType, NEW j \in JobType,
           Moves(t, l, j), ~Quiet,
           t = "process" => l # "gone",
           t = "input" /\ job[t] = "cancel" /\ j # "cancel" =>
               /\ l = "idle" /\ pc["receive"] = "idle"
               /\ websocket' = NoSocket /\ ~receiveTask'
    PROVE  CancelSticks'
<1>1. /\ pc'[t] = l /\ job'[t] = j
      /\ \A u \in Task \ {t} : pc'[u] = pc[u] /\ job'[u] = job[u]
  BY DEF Moves, TypeOK
<1> QED
  BY <1>1 DEF CancelSticks, Quiet, Task

-----------------------------------------------------------------------------
(* What the operators that actions share do with the variables.            *)

\* A task goes round the loop of _try_reconnect.
Circles(t) ==
    \E l \in Loop :
        /\ Moves(t, l, job[t])
        /\ at' \in [Task -> Socket \cup {NoSocket}]
        /\ conn' \in [Socket -> {"open", "closing", "closed"}]
        /\ websocket' \in Socket \cup {NoSocket}

\* A task has sent what it had to, or closed the connection: it ends what it
\* does, or goes on to close, or to connect again.
Leaves(t) ==
    \E l \in Drop \cup {"connect", "idle"}, j \in JobType :
        /\ Moves(t, l, j)
        /\ at' \in [Task -> Socket \cup {NoSocket}]
        /\ conn' \in [Socket -> {"open", "closing", "closed"}]
        /\ websocket' \in Socket \cup {NoSocket}
        /\ disconnecting' \in BOOLEAN
        /\ \/ /\ l \in Drop /\ j = job[t] /\ j \in Disconnects
              /\ UNCHANGED quickFailures
           \/ /\ l = "idle" /\ j = "none" /\ UNCHANGED quickFailures
              /\ job[t] = "cancel" => websocket' = NoSocket
           \/ /\ l = "connect" /\ quickFailures' = 0
              /\ job[t] \in {"update", "stop"} /\ j \in {"update", "rest"}

LEMMA GotoMoves ==
    ASSUME TypeOK, NEW t \in Task, NEW l \in PcType,
           NEW k \in Socket \cup {NoSocket}, Goto(t, l, k)
    PROVE  /\ Moves(t, l, job[t])
           /\ job[t] \in JobType
           /\ at' \in [Task -> Socket \cup {NoSocket}]
<1>1. job' = [job EXCEPT ![t] = job[t]]
  BY DEF Goto, TypeOK
<1>2. job[t] \in JobType /\ at' \in [Task -> Socket \cup {NoSocket}]
  BY DEF Goto, TypeOK
<1> QED
  BY <1>1, <1>2 DEF Goto, Moves

LEMMA EndsMoves ==
    ASSUME TypeOK, NEW t \in Task, Ends(t)
    PROVE  /\ Moves(t, "idle", "none")
           /\ at' \in [Task -> Socket \cup {NoSocket}]
BY DEF Ends, Moves, TypeOK, NoSocket

LEMMA BeginCloseMoves ==
    ASSUME TypeOK, NEW t \in Task, NEW l \in PcType, BeginClose(t, l)
    PROVE  /\ Moves(t, l, job[t])
           /\ at' \in [Task -> Socket \cup {NoSocket}]
           /\ conn' \in [Socket -> {"open", "closing", "closed"}]
           /\ websocket' \in Socket \cup {NoSocket}
<1>1. websocket \in Socket \cup {NoSocket} /\ Goto(t, l, websocket)
  BY DEF BeginClose, TypeOK
<1>2. conn' \in [Socket -> {"open", "closing", "closed"}]
  BY DEF BeginClose, TypeOK
<1> QED
  BY <1>1, <1>2, GotoMoves DEF BeginClose

LEMMA ReconnectCircles ==
    ASSUME TypeOK, NEW t \in Task, NEW first \in BOOLEAN, Reconnect(t, first)
    PROVE  Circles(t)
<1> USE DEF Loop
<1>0. \A l \in Loop : l \in PcType
  BY DEF PcType
<1>1. CASE /\ first /\ websocket # NoSocket
           /\ Goto(t, "loop farewell", websocket)
           /\ UNCHANGED <<conn, websocket>>
  <2>1. websocket \in Socket \cup {NoSocket}
    BY DEF TypeOK
  <2>2. /\ Moves(t, "loop farewell", job[t])
        /\ at' \in [Task -> Socket \cup {NoSocket}]
    BY <1>0, <1>1, <2>1, GotoMoves
  <2> QED
    BY <1>1, <2>2 DEF Circles, TypeOK
<1>2. CASE BeginClose(t, "loop close")
  BY <1>0, <1>2, BeginCloseMoves DEF Circles
<1>3. CASE /\ websocket = NoSocket
           /\ Goto(t, "loop connect", NoSocket)
           /\ UNCHANGED <<conn, websocket>>
  <2>1. /\ Moves(t, "loop connect", job[t])
        /\ at' \in [Task -> Socket \cup {NoSocket}]
    BY <1>0, <1>3, GotoMoves
  <2> QED
    BY <1>3, <2>1 DEF Circles, TypeOK
<1> QED
  BY <1>1, <1>2, <1>3 DEF Reconnect

LEMMA DroppedLeaves ==
    ASSUME TypeOK, NEW t \in Task, Dropped(t), conn' = conn
    PROVE  Leaves(t)
<1> USE DEF Disconnects
<1>1. /\ websocket' = NoSocket
      /\ websocket' \in Socket \cup {NoSocket}
      /\ conn' \in [Socket -> {"open", "closing", "closed"}]
  BY DEF Dropped, TypeOK
<1>2. ASSUME NEW task \in {"update", "rest"}, job[t] \in {"update", "stop"},
             BeginConnect(t, task)
      PROVE  Leaves(t)
  <2>1. /\ Moves(t, "connect", task) /\ task \in JobType
        /\ quickFailures' = 0 /\ disconnecting' = FALSE
        /\ at' \in [Task -> Socket \cup {NoSocket}]
    BY <1>2 DEF BeginConnect, Moves, JobType, Uninterruptible, TypeOK
  <2> QED
    BY <1>1, <1>2, <2>1 DEF Leaves
<1>3. CASE job[t] # "update" /\ Ends(t) /\ UNCHANGED connectVars
  <2>1. UNCHANGED <<disconnecting, quickFailures>>
    BY <1>3 DEF connectVars
  <2>2. /\ Moves(t, "idle", "none")
        /\ at' \in [Task -> Socket \cup {NoSocket}]
    BY <1>3, EndsMoves
  <2>3. "none" \in JobType /\ disconnecting' \in BOOLEAN
    BY <2>1 DEF JobType, TypeOK
  <2> QED
    BY <1>1, <2>1, <2>2, <2>3 DEF Leaves
<1> QED
  BY <1>2, <1>3 DEF Dropped

LEMMA CloseSocketLeaves ==
    ASSUME TypeOK, NEW t \in Task, job[t] \in Disconnects, CloseSocket(t)
    PROVE  Leaves(t)
<1>1. CASE BeginClose(t, "close") /\ UNCHANGED connectVars
  <2>1. "close" \in PcType /\ "close" \in Drop /\ job[t] \in JobType
    BY DEF PcType, Drop, TypeOK
  <2>2. UNCHANGED <<disconnecting, quickFailures>> /\ disconnecting' \in BOOLEAN
    BY <1>1 DEF connectVars, TypeOK
  <2> QED
    BY <1>1, <2>1, <2>2, BeginCloseMoves DEF Leaves
<1>2. CASE websocket = NoSocket /\ Dropped(t) /\ UNCHANGED conn
  BY <1>2, DroppedLeaves
<1> QED
  BY <1>1, <1>2 DEF CloseSocket

LEMMA DropSocketLeaves ==
    ASSUME TypeOK, NEW t \in Task, job[t] \in Disconnects, DropSocket(t)
    PROVE  Leaves(t)
<1>1. CASE /\ Goto(t, "farewell", websocket)
           /\ UNCHANGED <<conn, websocket, connectVars>>
  <2>1. "farewell" \in PcType /\ "farewell" \in Drop /\ job[t] \in JobType
    BY DEF PcType, Drop, TypeOK
  <2>2. /\ UNCHANGED <<disconnecting, quickFailures>> /\ disconnecting' \in BOOLEAN
        /\ conn' \in [Socket -> {"open", "closing", "closed"}]
        /\ websocket' \in Socket \cup {NoSocket}
        /\ websocket \in Socket \cup {NoSocket}
    BY <1>1 DEF connectVars, TypeOK
  <2>3. /\ Moves(t, "farewell", job[t])
        /\ at' \in [Task -> Socket \cup {NoSocket}]
    BY <1>1, <2>1, <2>2, GotoMoves
  <2> QED
    BY <1>1, <2>1, <2>2, <2>3 DEF Leaves
<1>2. CASE CloseSocket(t)
  BY <1>2, CloseSocketLeaves
<1> QED
  BY <1>1, <1>2 DEF DropSocket

LEMMA AfterSendLeaves ==
    ASSUME TypeOK, NEW t \in Task, AfterSend(t)
    PROVE  Leaves(t)
<1>1. CASE job[t] \in Disconnects /\ CloseSocket(t)
  BY <1>1, CloseSocketLeaves
<1>2. CASE /\ job[t] \notin Disconnects /\ Ends(t)
           /\ UNCHANGED <<conn, websocket, connectVars>>
  <2>1. /\ UNCHANGED <<disconnecting, quickFailures>> /\ disconnecting' \in BOOLEAN
        /\ conn' \in [Socket -> {"open", "closing", "closed"}]
        /\ websocket' \in Socket \cup {NoSocket}
        /\ "none" \in JobType /\ job[t] # "cancel"
    BY <1>2 DEF connectVars, JobType, Disconnects, TypeOK
  <2> QED
    BY <1>2, <2>1, EndsMoves DEF Leaves
<1> QED
  BY <1>1, <1>2 DEF AfterSend

-----------------------------------------------------------------------------
(* Steps in the loop, and steps out of it or out of a disconnection.       *)

\* A task that uses the connection does so for a frame, and is not one of those
\* that a CancelFrame has left.
LEMMA BusyTask ==
    ASSUME IInv, NEW t \in Task, pc[t] \in Busy
    PROVE  /\ t # "receive" => job[t] \in Jobs(t)
           /\ t = "process" => job["input"] # "start"
           /\ pc[t] \notin {"idle", "connect", "gone", "handle", "lost"} \cup Awaiting
           /\ ~Quiet
<1>1. pc[t] \notin {"idle", "connect", "gone", "handle", "lost"} \cup Awaiting
  BY DEF Busy, Loop, Drop, Join, Awaiting
<1> QED
  BY <1>1 DEF IInv, Shape, Jobs, CancelSticks, Quiet, Task

LEMMA CirclesKeeps ==
    ASSUME IInv, NEW t \in Task, Circles(t),
           pc[t] \in Busy \ Join,
           attempt' \in 1..MaxRetries,
           IF pc[t] \in Loop THEN reconnecting' = reconnecting
                             ELSE ~reconnecting /\ reconnecting' = TRUE,
           UNCHANGED <<disconnecting, receiverVars>>,
           \/ quickFailures' = quickFailures
           \/ /\ t = "receive" /\ quickFailures' \in 0..MaxQuick
              /\ quickFailures' < MaxQuick
    PROVE  IInv'
<1>1. PICK l \in Loop :
          /\ Moves(t, l, job[t])
          /\ at' \in [Task -> Socket \cup {NoSocket}]
          /\ conn' \in [Socket -> {"open", "closing", "closed"}]
          /\ websocket' \in Socket \cup {NoSocket}
  BY DEF Circles
<1>2. /\ l \in PcType /\ job[t] \in JobType
      /\ l \notin {"idle", "connect", "gone"} \cup Awaiting \cup Join
  BY DEF IInv, TypeOK, PcType, Loop, Awaiting, Join
<1>3. UNCHANGED <<disconnecting, receiveTask, stopped>>
  BY DEF receiverVars
<1>4. /\ t # "receive" => job[t] \in Jobs(t)
      /\ t = "process" => job["input"] # "start"
      /\ pc[t] \notin {"idle", "connect", "gone", "handle", "lost"} \cup Awaiting
      /\ ~Quiet
  BY BusyTask
<1>5. TypeOK'
  <2>1. Rest'
    BY <1>1, <1>3 DEF IInv, TypeOK, Rest
  <2>2. pc'["receive"] # "idle" => receiveTask'
    BY <1>1, <1>2, <1>3, <1>4 DEF IInv, TypeOK, Moves
  <2> QED
    BY <1>1, <1>2, <2>1, <2>2, MoveTypes DEF IInv
<1>6. Rest'
  BY <1>5 DEF TypeOK, Rest
<1>7. Fits(t, l, job[t])
  BY <1>2, <1>4 DEF Fits, IInv, Shape
<1>8. Flagged(t, l)
  BY DEF Flagged
<1>9. Shape'
  BY <1>1, <1>2, <1>4, <1>7, MoveShape DEF IInv
<1>10. OneReconnects'
  BY <1>1, <1>2, <1>6, <1>8, MoveFlag DEF IInv
<1>11. Quick'
  <2>1. t = "receive" => receiveTask
    BY <1>4 DEF IInv, TypeOK
  <2> QED
    BY <1>1, <1>2, <1>3, <1>4, <1>6, <2>1, MoveQuick DEF IInv
<1>12. CancelAlone'
  BY <1>1, <1>2, <1>3, <1>4, MoveCancel DEF IInv
<1>13. CancelSticks'
  BY <1>1, <1>2, <1>4, MoveSticks DEF IInv
<1> QED
  BY <1>5, <1>9, <1>10, <1>11, <1>12, <1>13 DEF IInv

LEMMA LeavesKeeps ==
    ASSUME IInv, NEW t \in Task, Leaves(t),
           pc[t] \in Busy, attempt' \in 1..MaxRetries, stopped' \in BOOLEAN,
           IF pc[t] \in Loop THEN reconnecting' = FALSE
                             ELSE reconnecting' = reconnecting,
           IF pc[t] \in Join THEN pc["receive"] = "idle" /\ receiveTask' = FALSE
                             ELSE UNCHANGED receiveTask
    PROVE  IInv'
<1>1. PICK l \in Drop \cup {"connect", "idle"}, j \in JobType :
          /\ Moves(t, l, j)
          /\ at' \in [Task -> Socket \cup {NoSocket}]
          /\ conn' \in [Socket -> {"open", "closing", "closed"}]
          /\ websocket' \in Socket \cup {NoSocket}
          /\ disconnecting' \in BOOLEAN
          /\ \/ /\ l \in Drop /\ j = job[t] /\ j \in Disconnects
                /\ UNCHANGED quickFailures
             \/ /\ l = "idle" /\ j = "none" /\ UNCHANGED quickFailures
                /\ job[t] = "cancel" => websocket' = NoSocket
             \/ /\ l = "connect" /\ quickFailures' = 0
                /\ job[t] \in {"update", "stop"} /\ j \in {"update", "rest"}
  BY DEF Leaves
<1>2. /\ l \in PcType /\ l \notin Loop /\ l \notin Join /\ l \notin Awaiting
      /\ l \notin {"gone", "handle", "lost"} /\ "join" \in Join
  BY DEF PcType, Loop, Drop, Awaiting, Join
<1>3. /\ t # "receive" => job[t] \in Jobs(t)
      /\ t = "process" => job["input"] # "start"
      /\ pc[t] \notin {"idle", "connect", "gone", "handle", "lost"} \cup Awaiting
      /\ ~Quiet
  BY BusyTask
<1>4. t = "receive" => l = "idle" /\ pc[t] \notin Join /\ j = "none"
  BY <1>1 DEF IInv, Shape, Disconnects, Loop, Join
<1>5. /\ pc'[t] = l /\ job'[t] = j
      /\ \A u \in Task \ {t} : pc'[u] = pc[u] /\ job'[u] = job[u]
      /\ "receive" \in Task /\ "process" \in Task /\ "input" \in Task
  BY <1>1, <1>2 DEF Moves, IInv, TypeOK, Task
<1>6. TypeOK'
  <2>1. quickFailures' \in 0..MaxQuick
    BY <1>1, ServiceAssumption DEF IInv, TypeOK
  <2>2. /\ receiveTask' \in BOOLEAN /\ reconnecting' \in BOOLEAN
    BY <1>1 DEF IInv, TypeOK
  <2>3. Rest'
    BY <1>1, <2>1, <2>2 DEF Rest
  <2>4. pc'["receive"] # "idle" => receiveTask'
    BY <1>4, <1>5 DEF IInv, TypeOK
  <2> QED
    BY <1>1, <1>2, <2>3, <2>4, MoveTypes DEF IInv
<1>7. Rest'
  BY <1>6 DEF TypeOK, Rest
<1>8. Fits(t, l, j)
  BY <1>1, <1>2, <1>3, <1>4
     DEF Fits, IInv, Shape, Drop, Jobs, Uninterruptible, Task
<1>9. Shape'
  BY <1>1, <1>2, <1>3, <1>8, MoveShape DEF IInv
<1>10. OneReconnects'
  <2>1. Flagged(t, l)
    BY <1>2 DEF Flagged
  <2> QED
    BY <1>1, <1>2, <1>7, <2>1, MoveFlag DEF IInv
<1>11. Quick'
  <2>1. CASE pc[t] \in Join
    <3>1. ASSUME NEW u \in Task, pc'[u] = "connect"
          PROVE  quickFailures' = 0
      <4>1. t # "receive" /\ u # "receive"
        BY <1>4, <1>5, <2>1, <3>1 DEF IInv, Shape, Loop
      <4>2. CASE u = t
        BY <1>1, <1>2, <1>5, <3>1, <4>2 DEF Drop
      <4>3. CASE u # t
        <5>1. pc[u] = "connect" /\ job[t] \in Disconnects
          BY <1>5, <2>1, <3>1, <4>3 DEF IInv, Shape
        <5>2. CASE t = "input"
          BY <1>3, <2>1, <4>1, <4>3, <5>1, <5>2
             DEF IInv, Shape, CancelAlone, Disconnects, Awaiting, Join, Task
        <5>3. CASE t = "process"
          BY <1>3, <4>1, <4>3, <5>1, <5>3 DEF IInv, Shape, Task
        <5> QED
          BY <4>1, <5>2, <5>3 DEF Task
      <4> QED
        BY <4>2, <4>3
    <3>2. pc'["receive"] = "idle"
      BY <1>4, <1>5, <2>1
    <3> QED
      BY <3>1, <3>2 DEF Quick
  <2>2. CASE pc[t] \notin Join
    <3>1. UNCHANGED receiveTask
      BY <2>2
    <3>2. quickFailures' = 0 \/ (l # "connect" /\ UNCHANGED quickFailures)
      BY <1>1 DEF Drop
    <3> QED
      BY <1>1, <1>2, <1>3, <1>7, <3>1, <3>2, MoveQuick DEF IInv
  <2> QED
    BY <2>1, <2>2
<1>12. CancelAlone'
  <2>1. CASE pc[t] \in Join
    <3>1. CASE t = "input"
      <4>1. CASE j = "cancel"
        <5>1. job[t] = "cancel"
          BY <1>1, <4>1
        <5>2. pc["process"] = "gone" /\ pc["receive"] = "idle" /\ ~receiveTask'
          BY <1>3, <2>1, <3>1, <5>1 DEF IInv, CancelAlone
        <5> QED
          BY <1>5, <3>1, <5>2 DEF CancelAlone
      <4>2. CASE j # "cancel"
        BY <1>5, <3>1, <4>2 DEF CancelAlone
      <4> QED
        BY <4>1, <4>2
    <3>2. CASE t = "process"
      BY <1>3, <1>5, <2>1, <3>2 DEF IInv, CancelAlone
    <3> QED
      BY <1>4, <2>1, <3>1, <3>2 DEF Task
  <2>2. CASE pc[t] \notin Join
    <3>1. UNCHANGED receiveTask
      BY <2>2
    <3>2. t = "input" /\ j = "cancel" => job[t] = "cancel"
      BY <1>1
    <3> QED
      BY <1>1, <1>2, <1>3, <1>4, <2>2, <3>1, <3>2, MoveCancel DEF IInv
  <2> QED
    BY <2>1, <2>2
<1>13. CancelSticks'
  <2>1. ASSUME t = "input", job[t] = "cancel", j # "cancel"
        PROVE  /\ l = "idle" /\ pc["receive"] = "idle"
               /\ websocket' = NoSocket /\ ~receiveTask'
    <3>1. l = "idle" /\ websocket' = NoSocket
      BY <1>1, <2>1
    <3>2. pc["receive"] = "idle" /\ ~receiveTask'
      BY <1>3, <2>1 DEF IInv, CancelAlone
    <3> QED
      BY <3>1, <3>2
  <2> QED
    BY <1>1, <1>2, <1>3, <2>1, MoveSticks DEF IInv
<1> QED
  BY <1>6, <1>9, <1>10, <1>11, <1>12, <1>13 DEF IInv

-----------------------------------------------------------------------------
(* Every action keeps the invariant.                                       *)

LEMMA JoinedKeeps ==
    ASSUME IInv, NEW t \in Task, Joined(t)
    PROVE  IInv'
<1>1. job[t] \in Disconnects /\ pc[t] \in Join /\ pc["receive"] = "idle"
  BY DEF Joined, IInv, Shape
<1>2. Leaves(t)
  BY <1>1, DropSocketLeaves DEF Joined, IInv
<1>3. /\ attempt' \in 1..MaxRetries /\ stopped' \in BOOLEAN
      /\ reconnecting' = reconnecting /\ receiveTask' = FALSE
  BY DEF Joined, loopVars, IInv, TypeOK
<1> QED
  BY <1>1, <1>2, <1>3, LeavesKeeps DEF Loop, Join, Busy

LEMMA LoopFarewellKeeps ==
    ASSUME IInv, NEW t \in Task, LoopFarewell(t)
    PROVE  IInv'
<1>1. Circles(t)
  BY ReconnectCircles DEF LoopFarewell, IInv
<1>2. /\ attempt' \in 1..MaxRetries /\ reconnecting' = reconnecting
      /\ UNCHANGED <<disconnecting, quickFailures, receiverVars>>
  BY DEF LoopFarewell, connectVars, loopVars, IInv, TypeOK
<1> QED
  BY <1>1, <1>2, CirclesKeeps DEF LoopFarewell, Loop, Join, Busy

LEMMA LoopClosedKeeps ==
    ASSUME IInv, NEW t \in Task, LoopClosed(t)
    PROVE  IInv'
<1>1. "loop connect" \in PcType /\ "loop connect" \in Loop
  BY DEF PcType, Loop
<1>2. /\ Moves(t, "loop connect", job[t])
      /\ at' \in [Task -> Socket \cup {NoSocket}]
  BY <1>1, GotoMoves DEF LoopClosed, IInv
<1>3. Circles(t)
  BY <1>1, <1>2 DEF LoopClosed, Circles, IInv, TypeOK
<1>4. /\ attempt' \in 1..MaxRetries /\ reconnecting' = reconnecting
      /\ UNCHANGED <<disconnecting, quickFailures, receiverVars>>
  BY DEF LoopClosed, connectVars, loopVars, IInv, TypeOK
<1> QED
  BY <1>3, <1>4, CirclesKeeps DEF LoopClosed, Loop, Join, Busy

LEMMA ReconnectFailsKeeps ==
    ASSUME IInv, NEW t \in Task, ReconnectFails(t)
    PROVE  IInv'
<1>1. "sleep" \in PcType /\ "sleep" \in Loop
  BY DEF PcType, Loop
<1>2. /\ Moves(t, "sleep", job[t])
      /\ at' \in [Task -> Socket \cup {NoSocket}]
  BY <1>1, GotoMoves DEF ReconnectFails, IInv
<1>3. Circles(t)
  BY <1>1, <1>2 DEF ReconnectFails, Free, Circles, IInv, TypeOK
<1>4. /\ attempt' \in 1..MaxRetries /\ reconnecting' = reconnecting
      /\ UNCHANGED <<disconnecting, quickFailures, receiverVars>>
  BY DEF ReconnectFails, connectVars, loopVars, IInv, TypeOK
<1> QED
  BY <1>3, <1>4, CirclesKeeps DEF ReconnectFails, Loop, Join, Busy

LEMMA NextAttemptKeeps ==
    ASSUME IInv, NEW t \in Task, NextAttempt(t)
    PROVE  IInv'
<1>1. Circles(t)
  BY ReconnectCircles DEF NextAttempt, IInv
<1>2. attempt' \in 1..MaxRetries
  BY ServiceAssumption DEF NextAttempt, IInv, TypeOK
<1>3. UNCHANGED <<reconnecting, disconnecting, quickFailures, receiverVars>>
  BY DEF NextAttempt, connectVars
<1> QED
  BY <1>1, <1>2, <1>3, CirclesKeeps DEF NextAttempt, Loop, Join, Busy

LEMMA GivesUpKeeps ==
    ASSUME IInv, NEW t \in Task, GivesUp(t)
    PROVE  IInv'
<1>1. Leaves(t)
  BY AfterSendLeaves DEF GivesUp, IInv
<1>2. /\ attempt' \in 1..MaxRetries /\ stopped' \in BOOLEAN
      /\ reconnecting' = FALSE /\ UNCHANGED receiveTask
  BY ServiceAssumption DEF GivesUp, receiverVars, IInv, TypeOK
<1> QED
  BY <1>1, <1>2, LeavesKeeps DEF GivesUp, Loop, Drop, Join, Busy

LEMMA SentKeeps ==
    ASSUME IInv, NEW t \in Task, Sent(t)
    PROVE  IInv'
<1>1. Leaves(t)
  BY AfterSendLeaves DEF Sent, IInv
<1>2. /\ attempt' \in 1..MaxRetries /\ stopped' \in BOOLEAN
      /\ UNCHANGED <<reconnecting, receiveTask>>
  BY DEF Sent, loopVars, receiverVars, IInv, TypeOK
<1> QED
  BY <1>1, <1>2, LeavesKeeps DEF Sent, Loop, Drop, Join, Busy

LEMMA SendFailsKeeps ==
    ASSUME IInv, NEW t \in Task, SendFails(t)
    PROVE  IInv'
<1>1. pc[t] \in {"send", "farewell"} /\ UNCHANGED receiverVars
  BY DEF SendFails
<1>2. CASE EnterLoop(t) /\ UNCHANGED connectVars
  <2>1. Circles(t)
    BY <1>2, ReconnectCircles DEF EnterLoop, IInv
  <2>2. /\ attempt' \in 1..MaxRetries /\ ~reconnecting /\ reconnecting' = TRUE
        /\ UNCHANGED <<disconnecting, quickFailures>>
    BY <1>2 DEF EnterLoop, connectVars, IInv, TypeOK
  <2> QED
    BY <1>1, <2>1, <2>2, CirclesKeeps DEF Loop, Drop, Join, Busy
<1>3. CASE reconnecting /\ AfterSend(t) /\ UNCHANGED loopVars
  <2>1. Leaves(t)
    BY <1>3, AfterSendLeaves DEF IInv
  <2>2. /\ attempt' \in 1..MaxRetries /\ stopped' \in BOOLEAN
        /\ UNCHANGED <<reconnecting, receiveTask>>
    BY <1>1, <1>3 DEF loopVars, receiverVars, IInv, TypeOK
  <2> QED
    BY <1>1, <2>1, <2>2, LeavesKeeps DEF Loop, Drop, Join, Busy
<1> QED
  BY <1>2, <1>3 DEF SendFails

LEMMA RetryFailsKeeps ==
    ASSUME IInv, NEW t \in Task, RetryFails(t)
    PROVE  IInv'
<1>1. Leaves(t)
  <2>1. CASE Dropped(t)
    BY <2>1, DroppedLeaves DEF RetryFails, IInv
  <2>2. CASE /\ job[t] \notin Disconnects /\ Ends(t)
             /\ UNCHANGED <<websocket, connectVars>>
    <3>1. AfterSend(t)
      BY <2>2 DEF AfterSend, RetryFails
    <3> QED
      BY <3>1, AfterSendLeaves DEF IInv
  <2> QED
    BY <2>1, <2>2 DEF RetryFails
<1>2. /\ attempt' \in 1..MaxRetries /\ stopped' \in BOOLEAN
      /\ UNCHANGED <<reconnecting, receiveTask>>
  BY DEF RetryFails, loopVars, receiverVars, IInv, TypeOK
<1> QED
  BY <1>1, <1>2, LeavesKeeps DEF RetryFails, Loop, Drop, Join, Busy

LEMMA ClosedKeeps ==
    ASSUME IInv, NEW t \in Task, Closed(t)
    PROVE  IInv'
<1>1. Leaves(t)
  BY DroppedLeaves DEF Closed, IInv
<1>2. /\ attempt' \in 1..MaxRetries /\ stopped' \in BOOLEAN
      /\ UNCHANGED <<reconnecting, receiveTask>>
  BY DEF Closed, loopVars, receiverVars, IInv, TypeOK
<1> QED
  BY <1>1, <1>2, LeavesKeeps DEF Closed, Loop, Drop, Join, Busy

\* A task goes on to wait for something that is neither a connection nor the
\* end of one.
LEMMA WaitsKeeps ==
    ASSUME IInv, NEW t \in Task, NEW l \in PcType, NEW j \in JobType,
           Moves(t, l, j), Rest', Fits(t, l, j), Flagged(t, l),
           l # "connect", UNCHANGED <<quickFailures, receiveTask>>,
           ~Quiet,
           t = "process" => job["input"] # "start",
           t = "process" => pc[t] # "gone" /\ l # "gone",
           t = "receive" => l = "idle" \/ pc[t] # "idle",
           t = "input" => j = "cancel" \/ job[t] # "cancel",
           t = "input" /\ j = "cancel" =>
               \/ l \in Awaiting \cup {"lost"}
               \/ l \in Join \cup {"handle"} /\ pc["process"] = "gone"
               \/ /\ job[t] = "cancel"
                  /\ pc[t] \notin Awaiting \cup Join \cup {"lost", "handle"}
    PROVE  IInv'
<1>1. pc'["receive"] # "idle" => receiveTask'
  BY DEF IInv, TypeOK, Moves, Task
<1>2. TypeOK'
  BY <1>1, MoveTypes DEF IInv
<1>3. Shape'
  BY MoveShape DEF IInv
<1>4. OneReconnects'
  BY MoveFlag DEF IInv
<1>5. Quick'
  BY MoveQuick DEF IInv
<1>6. CancelAlone'
  BY MoveCancel DEF IInv
<1>7. CancelSticks'
  BY MoveSticks DEF IInv
<1> QED
  BY <1>2, <1>3, <1>4, <1>5, <1>6, <1>7 DEF IInv

LEMMA ReconnectedKeeps ==
    ASSUME IInv, NEW t \in Task, Reconnected(t)
    PROVE  IInv'
<1>1. PICK k \in Socket :
          /\ NewSocket(k)
          /\ IF t = "receive" THEN Goto(t, "enter", NoSocket)
                              ELSE Goto(t, "retry", k)
  BY DEF Reconnected
<1>2. pc[t] = "loop connect" /\ pc[t] # "idle" /\ pc[t] # "connect"
  BY DEF Reconnected
<1>3. PICK l \in {"enter", "retry"} :
          /\ IF t = "receive" THEN l = "enter" ELSE l = "retry"
          /\ Moves(t, l, job[t]) /\ job[t] \in JobType
          /\ at' \in [Task -> Socket \cup {NoSocket}]
  BY <1>1, GotoMoves DEF IInv, PcType
<1>4. /\ t # "receive" => job[t] \in Jobs(t)
      /\ t = "process" => job["input"] # "start"
      /\ ~Quiet
  BY <1>2, BusyTask DEF Busy, Loop
<1>5. /\ l \in PcType /\ l \notin Loop /\ l \notin Awaiting
      /\ l # "connect" /\ l \notin Join /\ l # "idle" /\ l # "gone"
      /\ pc[t] \in Loop
      /\ pc[t] \notin Awaiting \cup Join \cup {"lost", "handle"} /\ pc[t] # "gone"
  BY <1>2 DEF PcType, Loop, Awaiting, Join
<1>6. UNCHANGED <<disconnecting, quickFailures, receiveTask, stopped>>
  BY DEF Reconnected, connectVars, receiverVars
<1>7. /\ conn' \in [Socket -> {"open", "closing", "closed"}]
      /\ websocket' \in Socket \cup {NoSocket}
      /\ reconnecting' = FALSE /\ attempt' \in 1..MaxRetries
  <2>1. /\ conn' \in [Socket -> {"open", "closing", "closed"}]
        /\ websocket' \in Socket \cup {NoSocket}
    BY <1>1 DEF NewSocket, IInv, TypeOK
  <2>2. attempt' \in 1..MaxRetries
    BY Bounds DEF Reconnected
  <2> QED
    BY <2>1, <2>2 DEF Reconnected
<1>8. Rest'
  BY <1>3, <1>6, <1>7 DEF Rest, IInv, TypeOK
<1>9. Fits(t, l, job[t])
  BY <1>3, <1>4, <1>5 DEF Fits, IInv, Shape
<1>10. Flagged(t, l)
  BY <1>5, <1>7 DEF Flagged
<1> QED
  BY <1>2, <1>3, <1>4, <1>5, <1>6, <1>8, <1>9, <1>10, WaitsKeeps

\* A connection is there, or is not: the task that asked for it goes on, and
\* creates the receive task if there is none.
LEMMA AfterConnectKeeps ==
    ASSUME IInv, NEW t \in Task, NEW k \in Socket \cup {NoSocket},
           pc[t] = "connect", AfterConnect(t, k),
           conn' \in [Socket -> {"open", "closing", "closed"}],
           websocket' \in Socket \cup {NoSocket}
    PROVE  IInv'
<1> DEFINE starts == k # NoSocket /\ ~receiveTask
           speaks == job[t] \in {"text", "rest"}
           l == IF speaks THEN "send" ELSE "idle"
           j == IF speaks THEN job[t] ELSE "none"
<1>1. /\ t # "receive" /\ job[t] \in {"start", "text", "update", "rest"}
      /\ ~Quiet
      /\ t = "process" => job["input"] # "start"
      /\ starts => pc["receive"] = "idle" /\ quickFailures = 0
  BY DEF IInv, TypeOK, Shape, Quick, CancelSticks, Quiet, Loop, Task
<1>2. /\ pc' \in [Task -> PcType] /\ job' \in [Task -> JobType]
      /\ at' \in [Task -> Socket \cup {NoSocket}]
      /\ receiveTask' \in BOOLEAN
      /\ UNCHANGED <<disconnecting, quickFailures, reconnecting, attempt,
                     stopped>>
  BY DEF AfterConnect, connectVars, loopVars, IInv, TypeOK, PcType, JobType
<1>3. /\ pc'[t] = l /\ job'[t] = j
      /\ pc'["receive"] = IF starts THEN "enter" ELSE pc["receive"]
      /\ \A u \in Task \ {t} : job'[u] = job[u]
      /\ \A u \in Task \ {t, "receive"} : pc'[u] = pc[u]
      /\ receiveTask' = (receiveTask \/ k # NoSocket)
      /\ "receive" \in Task
  BY <1>1 DEF AfterConnect, IInv, TypeOK, Task
<1> HIDE DEF starts
<1>4. TypeOK'
  BY <1>2, <1>3 DEF IInv, TypeOK, starts
<1>5. OneReconnects'
  <2>1. \A u \in Task : pc'[u] \in Loop <=> pc[u] \in Loop
    BY <1>1, <1>3 DEF Loop
  <2> QED
    BY <1>2, <2>1 DEF IInv, OneReconnects
<1>6. Shape'
  <2>1. /\ job'["receive"] = "none"
        /\ pc'["receive"] \in Loop \cup {"idle", "enter", "listen"}
    BY <1>1, <1>3 DEF IInv, Shape
  <2>2. CASE t = "process"
    <3>1. /\ pc'["input"] = pc["input"] /\ job'["input"] = job["input"]
          /\ job["input"] # "start"
      BY <1>1, <1>3, <2>2 DEF Task
    <3>2. /\ job'["process"] \in {"none", "text", "rest"}
          /\ job'["process"] = "none" <=> pc'["process"] = "idle"
          /\ pc'["process"] \in {"send", "idle"}
      BY <1>1, <1>3, <2>2
    <3> QED
      BY <2>1, <3>1, <3>2 DEF IInv, Shape, Task, Loop, Join, Uninterruptible
  <2>3. CASE t = "input"
    <3>1. job[t] = "start" /\ pc["process"] = "idle" /\ job["process"] = "none"
      BY <1>1, <2>3 DEF IInv, Shape
    <3>2. job'["input"] = "none" /\ pc'["input"] = "idle"
      BY <1>3, <2>3, <3>1
    <3>3. pc'["process"] = "idle" /\ job'["process"] = "none"
      BY <1>3, <2>3, <3>1 DEF Task
    <3> QED
      BY <2>1, <3>2, <3>3 DEF Shape, Task, Loop, Join
  <2> QED
    BY <1>1, <2>2, <2>3 DEF Task
<1>7. Quick'
  BY <1>1, <1>2, <1>3, ServiceAssumption DEF IInv, TypeOK, Quick, starts
<1>8. CancelAlone'
  <2>1. CASE t = "process"
    BY <1>1, <1>3, <2>1 DEF IInv, CancelAlone, Task
  <2>2. CASE t = "input"
    BY <1>1, <1>3, <2>2 DEF IInv, CancelAlone, Task
  <2> QED
    BY <1>1, <2>1, <2>2 DEF Task
<1>9. CancelSticks'
  <2>1. CASE t = "process"
    BY <1>1, <1>3, <2>1 DEF CancelSticks
  <2>2. CASE t = "input"
    BY <1>1, <1>3, <2>2 DEF IInv, Shape, CancelSticks, Task
  <2> QED
    BY <1>1, <2>1, <2>2 DEF Task
<1> QED
  BY <1>4, <1>5, <1>6, <1>7, <1>8, <1>9 DEF IInv

LEMMA ConnectedKeeps ==
    ASSUME IInv, NEW t \in Task, Connected(t)
    PROVE  IInv'
<1>1. PICK k \in Socket : NewSocket(k) /\ AfterConnect(t, k)
  BY DEF Connected
<1>2. /\ conn' \in [Socket -> {"open", "closing", "closed"}]
      /\ websocket' \in Socket \cup {NoSocket}
  BY <1>1 DEF NewSocket, IInv, TypeOK
<1> QED
  BY <1>1, <1>2, AfterConnectKeeps DEF Connected

LEMMA ConnectFailsKeeps ==
    ASSUME IInv, NEW t \in Task, ConnectFails(t)
    PROVE  IInv'
<1>1. /\ conn' \in [Socket -> {"open", "closing", "closed"}]
      /\ websocket' \in Socket \cup {NoSocket}
  BY DEF ConnectFails, IInv, TypeOK
<1> QED
  BY <1>1, AfterConnectKeeps DEF ConnectFails

\* _disconnect, by a task that was idle or has waited for the process task.
LEMMA BeginDisconnectKeeps ==
    ASSUME IInv, NEW t \in {"process", "input"}, NEW task \in Disconnects,
           BeginDisconnect(t, task), task \in Jobs(t),
           pc[t] \in {"idle", "drain", "handle"}, ~Quiet,
           t = "process" => job["input"] # "start",
           t = "input" => task = "cancel" /\ pc["process"] = "gone"
    PROVE  IInv'
<1>1. /\ "join" \in PcType /\ task \in JobType /\ "join" \notin Loop
      /\ t \in Task /\ pc[t] \notin Loop /\ "join" \in Join
  BY DEF PcType, JobType, Loop, Join, Task
<1>2. Moves(t, "join", task)
  BY DEF BeginDisconnect, Moves
<1>3. UNCHANGED <<quickFailures, receiveTask, reconnecting, attempt, conn,
                  websocket>>
  BY DEF BeginDisconnect, loopVars
<1>4. Rest'
  BY <1>3 DEF BeginDisconnect, Rest, IInv, TypeOK, NoSocket
<1>5. Fits(t, "join", task)
  BY DEF Fits
<1>6. Flagged(t, "join")
  BY <1>1, <1>3 DEF Flagged
<1> QED
  BY <1>1, <1>2, <1>3, <1>4, <1>5, <1>6, WaitsKeeps

LEMMA ProcessBeginsKeeps ==
    ASSUME IInv, ProcessBegins
    PROVE  IInv'
<1>1. /\ pc["process"] = "idle" /\ job["input"] # "start" /\ ~Quiet
      /\ "process" \in Task /\ "process" # "receive" /\ "process" # "input"
  BY DEF ProcessBegins, Quiet, Task
<1>2. CASE BeginDisconnect("process", "update")
  BY <1>1, <1>2, BeginDisconnectKeeps DEF Disconnects, Jobs, Uninterruptible
<1>3. CASE Speak
  <2>1. UNCHANGED <<conn, websocket, reconnecting, attempt, receiveTask,
                    stopped>>
    BY <1>3 DEF Speak, loopVars, receiverVars
  <2>2. "text" \in JobType /\ "text" \in Jobs("process")
    BY DEF JobType, Jobs
  <2>3. CASE SendNow
    <3>1. Moves("process", "send", "text")
      BY <1>3, <2>3 DEF Speak, SendNow, Moves
    <3>2. UNCHANGED <<disconnecting, quickFailures>>
      BY <2>3 DEF SendNow, connectVars
    <3>3. at' \in [Task -> Socket \cup {NoSocket}]
      BY <2>3 DEF SendNow, IInv, TypeOK
    <3>4. Rest'
      BY <2>1, <3>2, <3>3 DEF Rest, IInv, TypeOK
    <3>5. "send" \in PcType /\ "send" \notin Loop /\ pc["process"] \notin Loop
      BY <1>1 DEF PcType, Loop
    <3>6. Fits("process", "send", "text") /\ Flagged("process", "send")
      BY <2>1, <2>2, <3>5 DEF Fits, Flagged, Join
    <3> QED
      BY <1>1, <2>1, <2>2, <3>1, <3>2, <3>4, <3>5, <3>6, WaitsKeeps
  <2>4. CASE ConnectFirst
    <3>1. Moves("process", "connect", "text")
      BY <1>3, <2>4 DEF Speak, ConnectFirst, Moves
    <3>2. disconnecting' = FALSE /\ quickFailures' = 0 /\ at' = at
      BY <2>4 DEF ConnectFirst
    <3>3. Rest'
      <4>1. quickFailures' \in 0..MaxQuick /\ disconnecting' \in BOOLEAN
        BY <3>2, Bounds
      <4> QED
        BY <2>1, <3>2, <4>1 DEF Rest, IInv, TypeOK
    <3>4. /\ "connect" \in PcType /\ "connect" \notin Loop
          /\ pc["process"] \notin Loop
      BY <1>1 DEF PcType, Loop
    <3>5. Fits("process", "connect", "text") /\ Flagged("process", "connect")
      BY <2>1, <2>2, <3>4 DEF Fits, Flagged, Join
    <3>6. pc'["receive"] # "idle" => receiveTask'
      BY <2>1, <3>1 DEF Moves, IInv, TypeOK, Task
    <3>7. TypeOK'
      BY <1>1, <2>2, <3>1, <3>3, <3>4, <3>6, MoveTypes DEF IInv
    <3>8. Shape'
      BY <1>1, <2>2, <3>1, <3>4, <3>5, MoveShape DEF IInv
    <3>9. OneReconnects'
      BY <1>1, <2>2, <3>1, <3>3, <3>4, <3>5, MoveFlag DEF IInv
    <3>10. Quick'
      BY <1>1, <2>2, <3>1, <3>2, <3>3, <3>4, MoveQuick DEF IInv
    <3>11. CancelAlone'
      BY <1>1, <2>1, <2>2, <3>1, <3>4, MoveCancel DEF IInv
    <3>12. CancelSticks'
      BY <1>1, <2>2, <3>1, <3>4, MoveSticks DEF IInv
    <3> QED
      BY <3>7, <3>8, <3>9, <3>10, <3>11, <3>12 DEF IInv
  <2> QED
    BY <1>3, <2>3, <2>4 DEF Speak
<1>4. CASE /\ pc' = [pc EXCEPT !["process"] = "drain"]
           /\ job' = [job EXCEPT !["process"] = "stop"]
           /\ UNCHANGED <<at, conn, websocket, connectVars, loopVars, receiverVars>>
  <2>1. Moves("process", "drain", "stop")
    BY <1>4 DEF Moves
  <2>2. UNCHANGED <<at, conn, websocket, disconnecting, quickFailures,
                    reconnecting, attempt, receiveTask, stopped>>
    BY <1>4 DEF connectVars, loopVars, receiverVars
  <2>3. Rest'
    BY <2>2 DEF Rest, IInv, TypeOK
  <2>4. /\ "drain" \in PcType /\ "drain" \notin Loop \cup Join
        /\ "stop" \in JobType /\ pc["process"] \notin Loop
    BY <1>1 DEF PcType, JobType, Disconnects, Loop, Join
  <2>5. Fits("process", "drain", "stop") /\ Flagged("process", "drain")
    BY <2>2, <2>4 DEF Fits, Jobs, Uninterruptible, Flagged
  <2> QED
    BY <1>1, <2>1, <2>2, <2>3, <2>4, <2>5, WaitsKeeps
<1> QED
  BY <1>2, <1>3, <1>4 DEF ProcessBegins

LEMMA DrainedKeeps ==
    ASSUME IInv, Drained
    PROVE  IInv'
<1>1. /\ pc["process"] = "drain" /\ job["input"] # "start" /\ ~Quiet
      /\ BeginDisconnect("process", "stop")
  BY DEF Drained, Quiet, IInv, Shape
<1> QED
  BY <1>1, BeginDisconnectKeeps DEF Disconnects, Jobs, Uninterruptible

\* The process and the input task move, and neither to a place where it makes a
\* connection.
LEMMA PairKeeps ==
    ASSUME IInv, Rest', Shape', CancelAlone', CancelSticks',
           pc' \in [Task -> PcType], job' \in [Task -> JobType],
           pc'["receive"] = pc["receive"], UNCHANGED <<quickFailures, receiveTask>>,
           \A t \in Task : pc'[t] \in Loop => pc[t] \in Loop,
           \A t \in Task : pc'[t] = "connect" => pc[t] = "connect",
           reconnecting' <=> \E t \in Task : pc'[t] \in Loop
    PROVE  IInv'
<1>1. TypeOK'
  BY DEF Rest, IInv, TypeOK
<1>2. OneReconnects'
  BY DEF IInv, OneReconnects
<1>3. Quick'
  BY DEF IInv, Quick, Task
<1> QED
  BY <1>1, <1>2, <1>3 DEF IInv

\* One task moves to a place that has no part in the connection, another one
\* perhaps as well, and nothing else changes.
LEMMA PairWaits ==
    ASSUME IInv, Shape', CancelAlone', CancelSticks',
           pc' \in [Task -> PcType], job' \in [Task -> JobType],
           at' \in [Task -> Socket \cup {NoSocket}],
           UNCHANGED <<conn, websocket, connectVars, loopVars, receiverVars>>,
           \A t \in Task : pc'[t] = pc[t] \/ {pc[t], pc'[t]} \cap Loop = {},
           \A t \in Task : pc'[t] = pc[t] \/ pc'[t] # "connect",
           pc'["receive"] = pc["receive"]
    PROVE  IInv'
<1>1. UNCHANGED <<conn, websocket, disconnecting, quickFailures, reconnecting,
                  attempt, receiveTask, stopped>>
  BY DEF connectVars, loopVars, receiverVars
<1>2. Rest'
  BY <1>1 DEF Rest, IInv, TypeOK
<1>3. \A t \in Task : pc'[t] \in Loop <=> pc[t] \in Loop
  OBVIOUS
<1>4. reconnecting' <=> \E t \in Task : pc'[t] \in Loop
  BY <1>1, <1>3 DEF IInv, OneReconnects
<1> QED
  BY <1>1, <1>2, <1>3, <1>4, PairKeeps

LEMMA InputBeginsKeeps ==
    ASSUME IInv, NEW task \in {"interruption", "cancel"}, InputBegins(task)
    PROVE  IInv'
<1>1. /\ pc["input"] = "idle" /\ job["input"] = "none" /\ at' = at
      /\ UNCHANGED <<conn, websocket, connectVars, loopVars, receiverVars>>
      /\ task \in JobType
      /\ {"process", "input", "receive"} = Task
  BY DEF InputBegins, IInv, Shape, JobType, Disconnects, Task
<1>2. /\ job' \in [Task -> JobType] /\ job'["input"] = task
      /\ job'["process"] = job["process"] /\ job'["receive"] = job["receive"]
  BY <1>1 DEF InputBegins, IInv, TypeOK
<1>3. /\ pc' \in [Task -> PcType] /\ pc'["receive"] = pc["receive"]
      /\ \/ /\ pc'["input"] = "await" /\ pc'["process"] = pc["process"]
            /\ Cancels(task)
         \/ /\ pc'["input"] = "await again" /\ pc'["process"] = "swallow"
            /\ Cancels(task) /\ pc["process"] = "join"
         \/ /\ pc'["input"] = "handle" /\ pc'["process"] = pc["process"]
            /\ task = "cancel" => pc["process"] = "gone"
         \/ /\ pc'["input"] = "handle" /\ pc'["process"] = "idle"
            /\ task = "interruption"
            /\ pc["process"] = "gone" /\ job["process"] = "none"
  <2>1. CASE /\ Cancels(task) /\ pc["process"] # "join"
             /\ pc' = [pc EXCEPT !["input"] = "await"]
    BY <1>1, <2>1 DEF IInv, TypeOK, PcType, Awaiting
  <2>2. CASE /\ Cancels(task) /\ pc["process"] = "join"
             /\ pc' = [pc EXCEPT !["input"] = "await again", !["process"] = "swallow"]
    BY <1>1, <2>2 DEF IInv, TypeOK, PcType, Awaiting, Join
  <2>3. CASE /\ ~Cancels(task)
             /\ pc' = [pc EXCEPT !["input"] = "handle",
                                 !["process"] = IF task = "interruption" /\ @ = "gone"
                                                       /\ job["process"] = "none"
                                                THEN "idle" ELSE @]
    <3>1. task = "cancel" => pc["process"] = "gone"
      BY <2>3 DEF Cancels
    <3>2. pc'["input"] = "handle" /\ pc'["receive"] = pc["receive"]
      BY <1>1, <2>3 DEF IInv, TypeOK
    <3>3. CASE task = "interruption" /\ pc["process"] = "gone" /\ job["process"] = "none"
      <4>1. pc' = [pc EXCEPT !["input"] = "handle", !["process"] = "idle"]
        BY <2>3, <3>3 DEF IInv, TypeOK
      <4> QED
        BY <1>1, <3>2, <3>3, <4>1 DEF IInv, TypeOK, PcType
    <3>4. CASE ~(task = "interruption" /\ pc["process"] = "gone" /\ job["process"] = "none")
      <4>1. pc' = [pc EXCEPT !["input"] = "handle"]
        BY <1>1, <2>3, <3>4 DEF IInv, TypeOK
      <4> QED
        BY <1>1, <3>1, <3>2, <4>1 DEF IInv, TypeOK, PcType
    <3> QED
      BY <3>3, <3>4
  <2> QED
    BY <2>1, <2>2, <2>3 DEF InputBegins
<1>4. Shape'
  BY <1>1, <1>2, <1>3 DEF IInv, Shape, Join
<1>5. CancelAlone'
  BY <1>2, <1>3 DEF CancelAlone, Awaiting
<1>6. CancelSticks'
  BY <1>1, <1>2, <1>3 DEF IInv, CancelSticks, Cancels, receiverVars
<1>7. \A t \in Task : pc'[t] = pc[t] \/ {pc[t], pc'[t]} \cap Loop = {}
  BY <1>1, <1>3 DEF Loop
<1>8. \A t \in Task : pc'[t] = pc[t] \/ pc'[t] # "connect"
  BY <1>1, <1>3
<1>9. at' \in [Task -> Socket \cup {NoSocket}]
  BY <1>1 DEF IInv, TypeOK
<1> QED
  BY <1>1, <1>2, <1>3, <1>4, <1>5, <1>6, <1>7, <1>8, <1>9, PairWaits

\* A cancelled task leaves the loop, and the loop is free.
LEMMA UnwindsFrees ==
    ASSUME IInv, NEW t \in Task, Unwinds(t), pc' \in [Task -> PcType],
           pc'[t] \notin Loop,
           \A u \in Task \ {t} : pc'[u] \in Loop <=> pc[u] \in Loop
    PROVE  /\ reconnecting' <=> \E u \in Task : pc'[u] \in Loop
           /\ reconnecting' \in BOOLEAN /\ attempt' \in 1..MaxRetries
           /\ websocket' \in Socket \cup {NoSocket}
           /\ websocket' = NoSocket \/ websocket' = websocket
           /\ UNCHANGED <<conn, disconnecting, quickFailures>>
<1>1. /\ websocket' = NoSocket \/ websocket' = websocket
      /\ UNCHANGED <<conn, disconnecting, quickFailures>>
      /\ websocket' \in Socket \cup {NoSocket}
  BY DEF Unwinds, connectVars, IInv, TypeOK
<1>2. CASE pc[t] \in Loop
  <2>1. reconnecting' = FALSE /\ attempt' \in 1..MaxRetries
    BY <1>2, Bounds DEF Unwinds
  <2>2. \A u \in Task \ {t} : pc[u] \notin Loop
    BY <1>2 DEF IInv, OneReconnects
  <2> QED
    BY <1>1, <2>1, <2>2
<1>3. CASE pc[t] \notin Loop
  <2>1. UNCHANGED <<reconnecting, attempt>>
    BY <1>3 DEF Unwinds, loopVars
  <2> QED
    BY <1>1, <1>3, <2>1 DEF IInv, TypeOK, OneReconnects
<1> QED
  BY <1>2, <1>3

LEMMA CancelProcessKeeps ==
    ASSUME IInv, CancelProcess
    PROVE  IInv'
<1> DEFINE over == job["input"] = "cancel"
<1>1. /\ pc["input"] \in Awaiting /\ Unwinds("process")
      /\ UNCHANGED <<receiveTask, stopped>>
      /\ {"process", "input", "receive"} = Task
  BY DEF CancelProcess, receiverVars, Task
<1>2. job["input"] \in {"interruption", "cancel"}
  BY <1>1 DEF IInv, Shape, Awaiting
<1>3. /\ pc' \in [Task -> PcType] /\ pc'["receive"] = pc["receive"]
      /\ pc'["input"] = "handle"
      /\ pc'["process"] = IF over THEN "gone" ELSE "idle"
  BY <1>1 DEF CancelProcess, IInv, TypeOK, PcType, Over
<1>4. /\ job' \in [Task -> JobType]
      /\ job'["input"] = job["input"] /\ job'["receive"] = job["receive"]
      /\ job'["process"] = IF over /\ job["process"] \in Uninterruptible
                           THEN job["process"] ELSE "none"
  BY <1>1 DEF CancelProcess, IInv, TypeOK, JobType
<1> HIDE DEF over
<1>5. at' \in [Task -> Socket \cup {NoSocket}]
  BY DEF CancelProcess, IInv, TypeOK
<1>6. pc["input"] \notin Loop /\ pc'["input"] \notin Loop /\ pc'["process"] \notin Loop
  BY <1>1, <1>3 DEF Awaiting, Loop
<1>7. \A u \in Task \ {"process"} : pc'[u] \in Loop <=> pc[u] \in Loop
  BY <1>1, <1>3, <1>6
<1>8. /\ reconnecting' <=> \E u \in Task : pc'[u] \in Loop
      /\ reconnecting' \in BOOLEAN /\ attempt' \in 1..MaxRetries
      /\ websocket' \in Socket \cup {NoSocket}
      /\ UNCHANGED <<conn, disconnecting, quickFailures>>
  BY <1>1, <1>3, <1>6, <1>7, UnwindsFrees
<1>9. Rest'
  BY <1>1, <1>5, <1>8 DEF Rest, IInv, TypeOK
<1>10. Shape'
  BY <1>1, <1>2, <1>3, <1>4 DEF IInv, Shape, Join
<1>11. CancelAlone' /\ CancelSticks'
  BY <1>2, <1>3, <1>4 DEF CancelAlone, CancelSticks, over
<1>12. /\ \A t \in Task : pc'[t] \in Loop => pc[t] \in Loop
       /\ \A t \in Task : pc'[t] = "connect" => pc[t] = "connect"
  BY <1>1, <1>3, <1>6
<1>13. UNCHANGED <<quickFailures, receiveTask>>
  BY <1>1, <1>8
<1> QED
  BY <1>3, <1>4, <1>8, <1>9, <1>10, <1>11, <1>12, <1>13, PairKeeps

LEMMA CancelLostKeeps ==
    ASSUME IInv, CancelLost
    PROVE  IInv'
<1>1. /\ pc["input"] = "await again" /\ pc["process"] = "join"
      /\ job' = job /\ at' = at
      /\ UNCHANGED <<conn, websocket, connectVars, loopVars, receiverVars>>
      /\ {"process", "input", "receive"} = Task
  BY DEF CancelLost, Task
<1>2. /\ pc' \in [Task -> PcType] /\ pc'["input"] = "lost"
      /\ pc'["process"] = pc["process"] /\ pc'["receive"] = pc["receive"]
  BY <1>1 DEF CancelLost, IInv, TypeOK, PcType, Over
<1>3. Shape'
  BY <1>1, <1>2 DEF IInv, Shape, Join
<1>4. CancelAlone' /\ CancelSticks'
  BY <1>1, <1>2 DEF CancelAlone, CancelSticks
<1>5. /\ \A t \in Task : pc'[t] = pc[t] \/ {pc[t], pc'[t]} \cap Loop = {}
      /\ \A t \in Task : pc'[t] = pc[t] \/ pc'[t] # "connect"
  BY <1>1, <1>2 DEF Loop
<1>6. job' \in [Task -> JobType] /\ at' \in [Task -> Socket \cup {NoSocket}]
  BY <1>1 DEF IInv, TypeOK
<1> QED
  BY <1>1, <1>2, <1>3, <1>4, <1>5, <1>6, PairWaits

LEMMA InterruptKeeps ==
    ASSUME IInv, pc["input"] = "handle", Interrupt
    PROVE  IInv'
<1>1. PICK sends \in BOOLEAN :
          /\ sends => websocket # NoSocket
          /\ pc' = [pc EXCEPT !["input"] = IF sends THEN "send" ELSE "idle",
                              !["process"] = IF @ = "drain" THEN "died" ELSE @]
          /\ job' = [job EXCEPT !["input"] = IF sends THEN @ ELSE "none"]
          /\ at' = [at EXCEPT !["input"] = IF sends THEN websocket ELSE NoSocket]
  BY DEF Interrupt
<1>2. /\ job["input"] = "interruption"
      /\ UNCHANGED <<conn, websocket, connectVars, loopVars, receiverVars>>
      /\ {"process", "input", "receive"} = Task
  BY DEF Interrupt, Task
<1>3. /\ job' \in [Task -> JobType]
      /\ job'["input"] = IF sends THEN "interruption" ELSE "none"
      /\ job'["process"] = job["process"] /\ job'["receive"] = job["receive"]
  BY <1>1, <1>2 DEF IInv, TypeOK, JobType
<1>4. at' \in [Task -> Socket \cup {NoSocket}]
  BY <1>1, <1>2 DEF IInv, TypeOK
<1>5. /\ pc' \in [Task -> PcType] /\ pc'["receive"] = pc["receive"]
      /\ pc'["input"] = IF sends THEN "send" ELSE "idle"
      /\ \/ pc'["process"] = pc["process"]
         \/ pc["process"] = "drain" /\ pc'["process"] = "died"
  BY <1>1, <1>2 DEF IInv, TypeOK, PcType, Over
<1>6. Shape'
  BY <1>2, <1>3, <1>5 DEF IInv, Shape, Join
<1>7. CancelAlone'
  BY <1>3 DEF CancelAlone
<1>8. CancelSticks'
  BY <1>1, <1>2, <1>3, <1>5 DEF IInv, CancelSticks, receiverVars
<1>9. /\ \A t \in Task : pc'[t] = pc[t] \/ {pc[t], pc'[t]} \cap Loop = {}
      /\ \A t \in Task : pc'[t] = pc[t] \/ pc'[t] # "connect"
  BY <1>2, <1>5 DEF Loop
<1> QED
  BY <1>2, <1>3, <1>4, <1>5, <1>6, <1>7, <1>8, <1>9, PairWaits

LEMMA HandleKeeps ==
    ASSUME IInv, Handle
    PROVE  IInv'
<1>1. pc["input"] = "handle" /\ "input" \in Task
  BY DEF Handle, Task
<1>2. CASE job["input"] = "cancel" /\ BeginDisconnect("input", "cancel")
  <2>1. pc["process"] = "gone" /\ ~Quiet
    BY <1>1, <1>2 DEF IInv, CancelAlone, Awaiting, Quiet
  <2> QED
    BY <1>1, <1>2, <2>1, BeginDisconnectKeeps DEF Disconnects, Jobs
<1> QED
  BY <1>1, <1>2, InterruptKeeps DEF Handle

LEMMA ReceiverStopsKeeps ==
    ASSUME IInv, ReceiverStops
    PROVE  IInv'
<1>1. /\ Moves("receive", "idle", "none")
      /\ at' \in [Task -> Socket \cup {NoSocket}]
      /\ "receive" \in Task /\ stopped' = FALSE /\ UNCHANGED receiveTask
      /\ Unwinds("receive")
  BY EndsMoves DEF ReceiverStops, IInv, Task
<1>2. "idle" \in PcType /\ "none" \in JobType /\ "idle" \notin Loop
  BY DEF PcType, JobType, Loop
<1>3. /\ pc' \in [Task -> PcType] /\ pc'["receive"] = "idle"
      /\ \A u \in Task \ {"receive"} : pc'[u] = pc[u] /\ job'[u] = job[u]
  BY <1>1, <1>2 DEF Moves, IInv, TypeOK
<1>4. /\ reconnecting' <=> \E u \in Task : pc'[u] \in Loop
      /\ reconnecting' \in BOOLEAN /\ attempt' \in 1..MaxRetries
      /\ websocket' \in Socket \cup {NoSocket}
      /\ websocket' = NoSocket \/ websocket' = websocket
      /\ UNCHANGED <<conn, disconnecting, quickFailures>>
  BY <1>1, <1>2, <1>3, UnwindsFrees
<1>5. Rest'
  BY <1>1, <1>4 DEF Rest, IInv, TypeOK
<1>6. Fits("receive", "idle", "none")
  BY DEF Fits
<1>7. TypeOK'
  BY <1>1, <1>2, <1>3, <1>5, MoveTypes DEF IInv
<1>8. Shape'
  BY <1>1, <1>2, <1>6, MoveShape DEF IInv
<1>9. OneReconnects'
  <2>1. \A u \in Task : pc'[u] \in Loop => pc[u] \in Loop
    BY <1>2, <1>3
  <2> QED
    BY <1>4, <2>1 DEF IInv, OneReconnects
<1>10. Quick'
  BY <1>1, <1>2, <1>4, <1>5, MoveQuick DEF IInv
<1>11. CancelAlone'
  BY <1>1, <1>2, MoveCancel DEF IInv
<1>12. CancelSticks'
  BY <1>1, <1>3, <1>4 DEF IInv, CancelSticks, Task
<1> QED
  BY <1>7, <1>8, <1>9, <1>10, <1>11, <1>12 DEF IInv

\* _maybe_try_reconnect.
LEMMA LostKeeps ==
    ASSUME IInv, pc["receive"] \in {"enter", "listen"}, Lost,
           UNCHANGED receiverVars
    PROVE  IInv'
<1>1. /\ pc["receive"] \notin Loop
      /\ pc["receive"] \in Busy \ Join
      /\ UNCHANGED <<receiveTask, stopped>>
      /\ "receive" \in Task /\ quickFailures < MaxQuick
  BY DEF Loop, Join, Busy, receiverVars, Task, IInv, Quick
<1>2. CASE EnterLoop("receive") /\ quickFailures' \in {0, quickFailures + 1}
           /\ UNCHANGED disconnecting /\ quickFailures' < MaxQuick
  <2>1. Circles("receive")
    BY <1>1, <1>2, ReconnectCircles DEF EnterLoop, IInv
  <2>2. quickFailures' \in 0..MaxQuick
    BY <1>2, ServiceAssumption DEF IInv, TypeOK
  <2>3. attempt' \in 1..MaxRetries /\ ~reconnecting /\ reconnecting' = TRUE
    BY <1>2 DEF EnterLoop, IInv, TypeOK
  <2> QED
    BY <1>1, <1>2, <2>1, <2>2, <2>3, CirclesKeeps
<1>3. CASE /\ Ends("receive")
           /\ UNCHANGED <<conn, websocket, disconnecting, loopVars>>
           /\ quickFailures' \in {0, quickFailures, quickFailures + 1}
  <2>1. /\ Moves("receive", "idle", "none")
        /\ at' \in [Task -> Socket \cup {NoSocket}]
    BY <1>1, <1>3, EndsMoves DEF IInv
  <2>2. /\ "idle" \in PcType /\ "none" \in JobType /\ "idle" \notin Loop
        /\ "idle" # "connect"
    BY DEF PcType, JobType, Loop
  <2>3. UNCHANGED <<conn, websocket, disconnecting, reconnecting, attempt,
                    receiveTask, stopped>>
    BY <1>1, <1>3 DEF loopVars
  <2>4. Rest'
    <3>1. quickFailures' \in 0..MaxQuick
      BY <1>1, <1>3, ServiceAssumption DEF IInv, TypeOK
    <3> QED
      BY <2>1, <2>3, <3>1 DEF Rest, IInv, TypeOK
  <2>5. receiveTask /\ ~Quiet /\ pc'["receive"] = "idle"
    BY <1>1, <2>1, BusyTask DEF IInv, TypeOK, Moves
  <2>6. Fits("receive", "idle", "none") /\ Flagged("receive", "idle")
    BY <1>1, <2>2, <2>3 DEF Fits, Flagged
  <2>7. TypeOK'
    BY <1>1, <2>1, <2>2, <2>4, <2>5, MoveTypes DEF IInv
  <2>8. Shape'
    BY <1>1, <2>1, <2>2, <2>6, MoveShape DEF IInv
  <2>9. OneReconnects'
    BY <1>1, <2>1, <2>2, <2>4, <2>6, MoveFlag DEF IInv
  <2>10. Quick'
    BY <2>3, <2>5 DEF Quick
  <2>11. CancelAlone'
    BY <1>1, <2>1, <2>2, <2>3, MoveCancel DEF IInv
  <2>12. CancelSticks'
    BY <1>1, <2>1, <2>2, <2>5, MoveSticks DEF IInv
  <2> QED
    BY <2>7, <2>8, <2>9, <2>10, <2>11, <2>12 DEF IInv
<1> QED
  BY <1>2, <1>3 DEF Lost, connectVars

LEMMA ConnectionLostKeeps ==
    ASSUME IInv, ConnectionLost
    PROVE  IInv'
BY LostKeeps DEF ConnectionLost

LEMMA ListenStartsKeeps ==
    ASSUME IInv, ListenStarts
    PROVE  IInv'
<1>1. pc["receive"] = "enter" /\ UNCHANGED receiverVars
  BY DEF ListenStarts
<1>2. CASE Lost
  BY <1>1, <1>2, LostKeeps
<1>3. CASE /\ Goto("receive", "listen", websocket)
           /\ UNCHANGED <<conn, websocket, connectVars, loopVars>>
  <2>1. /\ "listen" \in PcType /\ "listen" \notin Loop \cup Join
        /\ "receive" \in Task /\ pc["receive"] \notin Loop
        /\ websocket \in Socket \cup {NoSocket}
    BY <1>1 DEF PcType, Loop, Join, Task, IInv, TypeOK
  <2>2. /\ Moves("receive", "listen", job["receive"])
        /\ job["receive"] \in JobType /\ job["receive"] = "none"
        /\ at' \in [Task -> Socket \cup {NoSocket}]
    BY <1>3, <2>1, GotoMoves DEF IInv, Shape
  <2>3. UNCHANGED <<conn, websocket, disconnecting, quickFailures, reconnecting,
                    attempt, receiveTask, stopped>>
    BY <1>1, <1>3 DEF connectVars, loopVars, receiverVars
  <2>4. Rest'
    BY <2>2, <2>3 DEF Rest, IInv, TypeOK
  <2>5. Fits("receive", "listen", "none") /\ Flagged("receive", "listen")
    BY <2>1, <2>3 DEF Fits, Flagged
  <2>6. ~Quiet /\ pc["receive"] # "idle"
    BY <1>1, <2>1 DEF IInv, CancelSticks, Quiet
  <2> QED
    BY <1>1, <2>1, <2>2, <2>3, <2>4, <2>5, <2>6, WaitsKeeps
<1> QED
  BY <1>2, <1>3 DEF ListenStarts

\* The other end of a socket changes no more than its state.
LEMMA SocketKeeps ==
    ASSUME IInv, NEW k \in Socket, ServerCloses(k) \/ CloseEnds(k)
    PROVE  IInv'
<1>1. conn' \in [Socket -> {"open", "closing", "closed"}]
  BY DEF ServerCloses, CloseEnds, IInv, TypeOK
<1>2. UNCHANGED <<pc, job, at, websocket, disconnecting, quickFailures,
                  reconnecting, attempt, receiveTask, stopped>>
  BY DEF ServerCloses, CloseEnds, connectVars, loopVars, receiverVars
<1> QED
  BY <1>1, <1>2 DEF IInv, TypeOK, OneReconnects, Shape, Quick, CancelAlone,
                    CancelSticks

LEMMA StutterKeeps ==
    ASSUME IInv, UNCHANGED vars
    PROVE  IInv'
BY DEF vars, connectVars, loopVars, receiverVars, IInv, TypeOK, OneReconnects,
       Shape, Quick, CancelAlone, CancelSticks

LEMMA InitHolds == Init => IInv
<1> SUFFICES ASSUME Init PROVE IInv
  OBVIOUS
<1>1. TypeOK
  <2>1. \A t \in Task : /\ (IF t = "input" THEN "connect" ELSE "idle") \in PcType
                        /\ (IF t = "input" THEN "start" ELSE "none") \in JobType
    BY DEF PcType, JobType
  <2>2. pc \in [Task -> PcType] /\ job \in [Task -> JobType]
    BY <2>1 DEF Init
  <2>3. /\ at \in [Task -> Socket \cup {NoSocket}]
        /\ conn \in [Socket -> {"open", "closing", "closed"}]
        /\ websocket \in Socket \cup {NoSocket}
    BY DEF Init
  <2>4. attempt \in 1..MaxRetries /\ quickFailures \in 0..MaxQuick
    BY Bounds DEF Init
  <2> QED
    BY <2>2, <2>3, <2>4 DEF Init, TypeOK, Task
<1>2. OneReconnects
  BY DEF Init, OneReconnects, Loop, Task
<1>3. Shape
  BY DEF Init, Shape, Loop, Join, Uninterruptible, Task
<1>4. Quick
  BY ServiceAssumption DEF Init, Quick, Task
<1>5. CancelAlone /\ CancelSticks
  BY DEF Init, CancelAlone, CancelSticks, Task
<1> QED
  BY <1>1, <1>2, <1>3, <1>4, <1>5 DEF IInv

LEMMA NextKeeps ==
    ASSUME IInv, [Next]_vars
    PROVE  IInv'
<1>1. ASSUME NEW t \in Task, Continues(t)
      PROVE  IInv'
  BY <1>1, JoinedKeeps, LoopFarewellKeeps, LoopClosedKeeps, ReconnectedKeeps,
     ReconnectFailsKeeps, NextAttemptKeeps, GivesUpKeeps, SentKeeps,
     SendFailsKeeps, RetryFailsKeeps, ClosedKeeps, ConnectedKeeps,
     ConnectFailsKeeps DEF Continues
<1> QED
  BY <1>1, ProcessBeginsKeeps, DrainedKeeps, InputBeginsKeeps,
     CancelProcessKeeps, CancelLostKeeps, HandleKeeps, ListenStartsKeeps, ConnectionLostKeeps, ReceiverStopsKeeps,
     SocketKeeps, StutterKeeps DEF Next, ReceiveStep

LEMMA Invariant == Spec => []IInv
BY InitHolds, NextKeeps, PTL DEF Spec

-----------------------------------------------------------------------------
(* The theorems.                                                           *)

\* The variables of the service have their types, the failures it counts stay
\* within their bounds, and a receive task that runs is the one that
\* _receive_task holds, so that a disconnection finds it.
THEOREM ServiceTypeCorrect == Spec => []TypeOK
BY Invariant, PTL DEF IInv

\* No two of the process, the input and the receive task are in the loop of
\* _try_reconnect at the same time, and the flag is set just while one is, although each
\* of them may be cancelled, lose the connection or have it replaced by a task that
\* connects beside the loop anywhere in between.
THEOREM OneTaskReconnects == Spec => []OneReconnects
BY Invariant, PTL DEF IInv

\* After a CancelFrame there is no connection and no task that uses or makes one, whatever
\* was going on when it came and also while an interruption is handled after it, for as
\* long as no such interruption has started the process task again.
THEOREM CancelledForGood == Spec => []CancelSticks
BY Invariant, PTL DEF IInv
(***************************************************************************)
(* The state half of TasksReturn: whatever a task awaits is on its way.    *)
(***************************************************************************)

\* A task that waits for the receive task to end waits for one that has been cancelled,
\* and none is created meanwhile; one that waits for a socket to close waits for a socket
\* that is being closed and has not been put to use again; a cancellation is never left
\* over for a receive task that is not there; and an input task that waits for the process
\* task waits for one that is there and can end, or that will swallow a second request.
WaitsEnd ==
    /\ \A t \in Task :
          /\ pc[t] \in Join => pc["receive"] = "idle" \/ stopped
          /\ pc[t] \in {"close", "loop close"} =>
                at[t] # NoSocket /\ conn[at[t]] # "open"
    /\ stopped => pc["receive"] # "idle"
    /\ pc["input"] = "await" => pc["process"] \notin Join \cup {"gone"}
    /\ pc["process"] = "swallow" => pc["input"] = "await again"

\* A task goes on: it begins to wait for a socket only when that is being closed, and
\* no socket that a task is at opens again.
GoesOn(t) ==
    /\ \A u \in Task \ {t} : pc'[u] = pc[u] /\ at'[u] = at[u]
    /\ pc'[t] \notin Join \cup {"await", "gone"}
    /\ pc'[t] \in {"close", "loop close"} =>
          at'[t] \in Socket /\ conn'[at'[t]] # "open"
    /\ \A k \in Socket : conn'[k] = "open" => conn[k] = "open" \/ k \in Free

LEMMA GoesOnWaits ==
    ASSUME IInv, WaitsEnd, NEW t \in Task, GoesOn(t), stopped' = stopped,
           t = "receive" => ~stopped /\ pc["receive"] # "idle",
           t = "input" => pc["input"] # "await again"
    PROVE  WaitsEnd'
<1>1. /\ \A u \in Task : at[u] \in Socket \cup {NoSocket}
      /\ {"process", "input", "receive"} = Task
      /\ "join" \in Join /\ "swallow" \in Join
  BY DEF IInv, TypeOK, Task, Join
<1>2. ASSUME NEW u \in Task, pc'[u] \in {"close", "loop close"}
      PROVE  at'[u] # NoSocket /\ conn'[at'[u]] # "open"
  <2>1. CASE u = t
    <3>1. at'[t] \in Socket /\ conn'[at'[t]] # "open"
      BY <1>2, <2>1 DEF GoesOn
    <3> QED
      BY <2>1, <3>1, NoSocketIsNone
  <2>2. CASE u # t
    BY <1>1, <1>2, <2>2 DEF GoesOn, WaitsEnd, Free
  <2> QED
    BY <2>1, <2>2
<1>3. ASSUME NEW u \in Task, pc'[u] \in Join
      PROVE  pc'["receive"] = "idle" \/ stopped'
  <2>1. u # t /\ pc[u] \in Join
    BY <1>3 DEF GoesOn
  <2> QED
    BY <1>1, <2>1 DEF GoesOn, WaitsEnd
<1>4. stopped' => pc'["receive"] # "idle"
  BY <1>1 DEF GoesOn, WaitsEnd
<1>5. pc'["input"] = "await" => pc'["process"] \notin Join \cup {"gone"}
  BY <1>1 DEF GoesOn, WaitsEnd
<1>6. pc'["process"] = "swallow" => pc'["input"] = "await again"
  BY <1>1 DEF GoesOn, WaitsEnd
<1> QED
  BY <1>2, <1>3, <1>4, <1>5, <1>6 DEF WaitsEnd

LEMMA GotoGoesOn ==
    ASSUME IInv, NEW t \in Task, NEW l \in PcType, NEW k \in Socket \cup {NoSocket},
           Goto(t, l, k), l \notin Join \cup {"await", "gone", "close", "loop close"},
           conn' = conn \/ \E n \in Socket : NewSocket(n)
    PROVE  GoesOn(t)
<1>1. pc'[t] = l /\ \A u \in Task \ {t} : pc'[u] = pc[u] /\ at'[u] = at[u]
  BY DEF Goto, IInv, TypeOK
<1>2. \A n \in Socket : conn'[n] = "open" => conn[n] = "open" \/ n \in Free
  BY DEF NewSocket, IInv, TypeOK
<1> QED
  BY <1>1, <1>2 DEF GoesOn

LEMMA EndsGoesOn ==
    ASSUME IInv, NEW t \in Task, Ends(t), conn' = conn
    PROVE  GoesOn(t) /\ pc'[t] = "idle"
BY DEF Ends, GoesOn, IInv, TypeOK, Join

LEMMA BeginCloseGoesOn ==
    ASSUME IInv, NEW t \in Task, NEW l \in {"close", "loop close"},
           BeginClose(t, l)
    PROVE  GoesOn(t)
<1>1. websocket \in Socket /\ pc'[t] = l /\ at'[t] = websocket
  BY DEF BeginClose, Goto, IInv, TypeOK
<1>2. \A u \in Task \ {t} : pc'[u] = pc[u] /\ at'[u] = at[u]
  BY DEF BeginClose, Goto, IInv, TypeOK
<1>3. conn'[websocket] # "open"
  BY <1>1 DEF BeginClose, IInv, TypeOK
<1>4. \A k \in Socket : conn'[k] = "open" => conn[k] = "open"
  BY <1>1, <1>3 DEF BeginClose, IInv, TypeOK
<1> QED
  BY <1>1, <1>2, <1>3, <1>4 DEF GoesOn, Join

LEMMA ReconnectGoesOn ==
    ASSUME IInv, NEW t \in Task, NEW first \in BOOLEAN, Reconnect(t, first)
    PROVE  GoesOn(t)
<1>1. /\ {"loop farewell", "loop connect"} \subseteq PcType
      /\ websocket \in Socket \cup {NoSocket} /\ NoSocket \in Socket \cup {NoSocket}
  BY DEF PcType, Loop, IInv, TypeOK
<1>2. CASE first /\ websocket # NoSocket /\ Goto(t, "loop farewell", websocket)
             /\ UNCHANGED <<conn, websocket>>
  BY <1>1, <1>2, GotoGoesOn DEF Join
<1>3. CASE BeginClose(t, "loop close")
  BY <1>3, BeginCloseGoesOn
<1>4. CASE websocket = NoSocket /\ Goto(t, "loop connect", NoSocket)
             /\ UNCHANGED <<conn, websocket>>
  BY <1>1, <1>4, GotoGoesOn DEF Join
<1> QED
  BY <1>2, <1>3, <1>4 DEF Reconnect

LEMMA DroppedGoesOn ==
    ASSUME IInv, NEW t \in Task, Dropped(t), conn' = conn
    PROVE  GoesOn(t)
<1>1. ASSUME NEW task, BeginConnect(t, task)
      PROVE  GoesOn(t)
  BY <1>1 DEF BeginConnect, GoesOn, IInv, TypeOK, Join
<1>2. CASE Ends(t)
  BY <1>2, EndsGoesOn
<1> QED
  BY <1>1, <1>2 DEF Dropped

LEMMA CloseSocketGoesOn ==
    ASSUME IInv, NEW t \in Task, CloseSocket(t)
    PROVE  GoesOn(t)
BY BeginCloseGoesOn, DroppedGoesOn DEF CloseSocket

LEMMA DropSocketGoesOn ==
    ASSUME IInv, NEW t \in Task, DropSocket(t)
    PROVE  GoesOn(t)
<1>1. "farewell" \in PcType /\ websocket \in Socket \cup {NoSocket}
  BY DEF PcType, Drop, IInv, TypeOK
<1>2. CASE Goto(t, "farewell", websocket) /\ conn' = conn
  BY <1>1, <1>2, GotoGoesOn DEF Join
<1> QED
  BY <1>2, CloseSocketGoesOn DEF DropSocket

LEMMA AfterSendGoesOn ==
    ASSUME IInv, NEW t \in Task, AfterSend(t)
    PROVE  GoesOn(t)
BY CloseSocketGoesOn, EndsGoesOn DEF AfterSend

\* A step of a task that changes nothing but its own place and a socket.
LEMMA ContinuesGoesOn ==
    ASSUME IInv, NEW t \in Task, Continues(t)
    PROVE  /\ stopped' = stopped /\ pc[t] \notin {"idle", "await again"}
           /\ GoesOn(t) \/ Connected(t) \/ ConnectFails(t)
<1> USE DEF receiverVars
<1>0. /\ {"loop connect", "enter", "retry", "sleep"} \subseteq PcType
      /\ NoSocket \in Socket \cup {NoSocket}
  BY DEF PcType, Loop
<1>1. CASE Joined(t)
  BY <1>1, DropSocketGoesOn DEF Joined, Join
<1>2. CASE LoopFarewell(t)
  BY <1>2, ReconnectGoesOn DEF LoopFarewell
<1>3. CASE LoopClosed(t)
  BY <1>0, <1>3, GotoGoesOn DEF LoopClosed, Join
<1>4. CASE Reconnected(t)
  <2>1. PICK k \in Socket :
           /\ NewSocket(k)
           /\ IF t = "receive" THEN Goto(t, "enter", NoSocket)
                               ELSE Goto(t, "retry", k)
    BY <1>4 DEF Reconnected
  <2>2. GoesOn(t)
    BY <1>0, <2>1, GotoGoesOn DEF Join
  <2> QED
    BY <1>4, <2>2 DEF Reconnected
<1>5. CASE ReconnectFails(t)
  BY <1>0, <1>5, GotoGoesOn DEF ReconnectFails, Join
<1>6. CASE NextAttempt(t)
  BY <1>6, ReconnectGoesOn DEF NextAttempt
<1>7. CASE GivesUp(t)
  BY <1>7, AfterSendGoesOn DEF GivesUp
<1>8. CASE Sent(t)
  BY <1>8, AfterSendGoesOn DEF Sent
<1>9. CASE SendFails(t)
  BY <1>9, AfterSendGoesOn, ReconnectGoesOn DEF SendFails, EnterLoop
<1>10. CASE RetryFails(t)
  <2>1. CASE Dropped(t)
    BY <1>10, <2>1, DroppedGoesOn DEF RetryFails
  <2>2. CASE Ends(t)
    BY <1>10, <2>2, EndsGoesOn DEF RetryFails
  <2> QED
    BY <1>10, <2>1, <2>2 DEF RetryFails
<1>11. CASE Closed(t)
  BY <1>11, DroppedGoesOn DEF Closed
<1>12. CASE Connected(t)
  BY <1>12 DEF Connected, AfterConnect
<1>13. CASE ConnectFails(t)
  BY <1>13 DEF ConnectFails, AfterConnect
<1> QED
  BY <1>1, <1>2, <1>3, <1>4, <1>5, <1>6, <1>7, <1>8, <1>9, <1>10, <1>11, <1>12,
     <1>13 DEF Continues

\* While one task waits for the receive task the other makes no connection.
LEMMA NobodyJoins ==
    ASSUME IInv, NEW t \in Task, pc[t] = "connect", NEW u \in Task
    PROVE  pc[u] \notin Join
BY DEF IInv, Shape, CancelAlone, Task, Disconnects, Uninterruptible, Loop, Join,
       Awaiting

LEMMA AfterConnectWaits ==
    ASSUME IInv, WaitsEnd, NEW t \in Task, pc[t] = "connect",
           NEW k \in Socket \cup {NoSocket}, AfterConnect(t, k),
           k = NoSocket => conn' = conn, k # NoSocket => NewSocket(k)
    PROVE  WaitsEnd'
<1>1. t # "receive" /\ {"receive", "process", "input"} = Task
  BY DEF IInv, Shape, Loop, Task
<1>2. /\ pc'[t] \in {"send", "idle"}
      /\ pc'["receive"] \in {pc["receive"], "enter"}
      /\ \A u \in Task \ {t, "receive"} : pc'[u] = pc[u]
      /\ \A u \in Task \ {t} : at'[u] = at[u]
      /\ stopped' = stopped
  BY <1>1 DEF AfterConnect, IInv, TypeOK
<1>3. \A n \in Socket : conn'[n] = "open" => conn[n] = "open" \/ n \in Free
  BY DEF NewSocket, IInv, TypeOK
<1>4. \A u \in Task : at[u] \in Socket \cup {NoSocket}
  BY DEF IInv, TypeOK
<1>5. ASSUME NEW u \in Task, pc'[u] \in {"close", "loop close"}
      PROVE  at'[u] # NoSocket /\ conn'[at'[u]] # "open"
  <2>1. u # t /\ pc[u] = pc'[u]
    BY <1>2, <1>5
  <2> QED
    BY <1>2, <1>3, <1>4, <1>5, <2>1 DEF WaitsEnd, Free
<1>6. \A u \in Task : pc'[u] \notin Join
  BY <1>1, <1>2, NobodyJoins DEF Join
<1>7. stopped' => pc'["receive"] # "idle"
  BY <1>1, <1>2 DEF WaitsEnd
<1>8. pc'["input"] = "await" => pc'["process"] \notin Join \cup {"gone"}
  BY <1>1, <1>2, <1>6 DEF WaitsEnd
<1>9. pc'["process"] # "swallow"
  BY <1>1, <1>6 DEF Join
<1> QED
  BY <1>5, <1>6, <1>7, <1>8, <1>9 DEF WaitsEnd

LEMMA ContinuesWaits ==
    ASSUME IInv, WaitsEnd, NEW t \in Task, Continues(t)
    PROVE  WaitsEnd'
<1>1. CASE GoesOn(t)
  <2>1. t = "receive" => ~stopped
    BY DEF Continues, Runs
  <2>2. stopped' = stopped /\ pc[t] \notin {"idle", "await again"}
    BY ContinuesGoesOn
  <2> QED
    BY <1>1, <2>1, <2>2, GoesOnWaits
<1>2. CASE Connected(t)
  <2>1. PICK k \in Socket : NewSocket(k) /\ AfterConnect(t, k)
    BY <1>2 DEF Connected
  <2> QED
    BY <1>2, <2>1, AfterConnectWaits DEF Connected, Socket, NoSocket
<1>3. CASE ConnectFails(t)
  BY <1>3, AfterConnectWaits DEF ConnectFails
<1> QED
  BY <1>1, <1>2, <1>3, ContinuesGoesOn

LEMMA BeginDisconnectWaits ==
    ASSUME IInv, WaitsEnd, NEW t \in {"process", "input"}, NEW task,
           BeginDisconnect(t, task),
           IF t = "process" THEN pc["input"] # "await" ELSE pc[t] = "handle"
    PROVE  WaitsEnd'
<1>1. /\ pc'[t] = "join" /\ {"process", "input", "receive"} = Task
      /\ t # "receive"
      /\ \A u \in Task \ {t} : pc'[u] = pc[u] /\ at'[u] = at[u]
      /\ conn' = conn /\ stopped' = (pc["receive"] # "idle")
  BY DEF BeginDisconnect, IInv, TypeOK, Task
<1>2. /\ pc'["input"] # "await"
      /\ pc'["process"] = "swallow" => pc'["input"] = "await again"
  BY <1>1 DEF WaitsEnd
<1> QED
  BY <1>1, <1>2 DEF WaitsEnd

LEMMA ProcessBeginsWaits ==
    ASSUME IInv, WaitsEnd, ProcessBegins \/ Drained
    PROVE  WaitsEnd'
<1>1. pc["input"] # "await" /\ "process" \in Task
  BY DEF ProcessBegins, Drained, Task
<1>2. CASE Speak
  <2>1. /\ pc'["process"] \in {"send", "connect"}
        /\ \A u \in Task \ {"process"} : pc'[u] = pc[u] /\ at'[u] = at[u]
        /\ conn' = conn /\ stopped' = stopped
    BY <1>2 DEF Speak, SendNow, ConnectFirst, receiverVars, IInv, TypeOK, Task
  <2> QED
    BY <1>1, <2>1, GoesOnWaits DEF GoesOn, Join
<1>3. CASE /\ pc' = [pc EXCEPT !["process"] = "drain"]
           /\ UNCHANGED <<at, conn, receiverVars>>
  <2>1. /\ pc'["process"] = "drain"
        /\ \A u \in Task \ {"process"} : pc'[u] = pc[u] /\ at'[u] = at[u]
        /\ conn' = conn /\ stopped' = stopped
    BY <1>1, <1>3 DEF receiverVars, IInv, TypeOK
  <2> QED
    BY <1>1, <2>1, GoesOnWaits DEF GoesOn, Join
<1> QED
  BY <1>1, <1>2, <1>3, BeginDisconnectWaits DEF ProcessBegins, Drained

\* The input task moves to a place that is none to wait in, and the process task may end.
LEMMA InputGoesOn ==
    ASSUME IInv, WaitsEnd, UNCHANGED <<conn, stopped>>,
           pc'["receive"] = pc["receive"],
           pc'["process"] = pc["process"] \/ pc'["process"] \in Over \cup {"idle"},
           pc'["input"] \in {"handle", "send", "idle", "lost"},
           pc'["process"] # "swallow",
           \A t \in Task : at'[t] = at[t] \/ pc'[t] \notin Drop \cup Loop
    PROVE  WaitsEnd'
<1>1. {"process", "input", "receive"} = Task
  BY DEF Task
<1>2. ASSUME NEW t \in Task, pc'[t] \in Join
      PROVE  pc'["receive"] = "idle" \/ stopped'
  <2>1. t # "input" /\ pc'[t] \notin Over \cup {"idle"}
    BY <1>2 DEF Join, Over
  <2> QED
    BY <1>1, <1>2, <2>1 DEF WaitsEnd
<1>3. ASSUME NEW t \in Task, pc'[t] \in {"close", "loop close"}
      PROVE  at'[t] # NoSocket /\ conn'[at'[t]] # "open"
  <2>1. t # "input" /\ pc'[t] \notin Over \cup {"idle"} /\ pc'[t] \in Drop \cup Loop
    BY <1>3 DEF Over, Drop, Loop
  <2> QED
    BY <1>1, <1>3, <2>1 DEF WaitsEnd
<1> QED
  BY <1>2, <1>3 DEF WaitsEnd

LEMMA InputBeginsWaits ==
    ASSUME IInv, WaitsEnd, NEW task \in {"interruption", "cancel"},
           InputBegins(task)
    PROVE  WaitsEnd'
<1>1. /\ at' = at /\ conn' = conn /\ stopped' = stopped
      /\ {"process", "input", "receive"} = Task
      /\ pc["input"] = "idle"
  BY DEF InputBegins, receiverVars, Task
<1>2. pc["process"] # "swallow"
  BY <1>1 DEF WaitsEnd
<1>3. CASE /\ Cancels(task) /\ pc["process"] # "join"
           /\ pc' = [pc EXCEPT !["input"] = "await"]
  <2>1. pc["process"] \notin Join \cup {"gone"}
    BY <1>2, <1>3 DEF Cancels, Join
  <2>2. pc'["input"] = "await" /\ \A t \in Task \ {"input"} : pc'[t] = pc[t]
    BY <1>1, <1>3 DEF IInv, TypeOK
  <2> QED
    BY <1>1, <1>2, <2>1, <2>2 DEF WaitsEnd, Join
<1>4. CASE /\ Cancels(task) /\ pc["process"] = "join"
           /\ pc' = [pc EXCEPT !["input"] = "await again", !["process"] = "swallow"]
  <2>1. /\ pc'["input"] = "await again" /\ pc'["process"] = "swallow"
        /\ pc'["receive"] = pc["receive"]
    BY <1>1, <1>4 DEF IInv, TypeOK
  <2>2. pc["receive"] = "idle" \/ stopped
    BY <1>1, <1>4 DEF WaitsEnd, Join
  <2> QED
    BY <1>1, <2>1, <2>2 DEF WaitsEnd
<1>5. CASE /\ ~Cancels(task)
           /\ pc' = [pc EXCEPT !["input"] = "handle",
                               !["process"] = IF task = "interruption" /\ @ = "gone"
                                                     /\ job["process"] = "none"
                                              THEN "idle" ELSE @]
  <2>1. /\ pc'["input"] = "handle" /\ pc'["process"] \in {pc["process"], "idle"}
        /\ pc'["receive"] = pc["receive"]
    BY <1>1, <1>5 DEF IInv, TypeOK
  <2> QED
    BY <1>1, <1>2, <2>1, InputGoesOn DEF Over
<1> QED
  BY <1>3, <1>4, <1>5 DEF InputBegins

LEMMA InputWaits ==
    ASSUME IInv, WaitsEnd, CancelProcess \/ CancelLost \/ Handle
    PROVE  WaitsEnd'
<1> USE DEF receiverVars
<1>1. {"process", "input", "receive"} = Task
  BY DEF Task
<1>2. CASE CancelProcess
  <2>1. /\ pc'["input"] = "handle" /\ pc'["process"] \in {"gone", "idle"}
        /\ pc'["receive"] = pc["receive"]
        /\ \A t \in Task \ {"process"} : at'[t] = at[t]
        /\ UNCHANGED <<conn, stopped>>
    BY <1>1, <1>2 DEF CancelProcess, Unwinds, IInv, TypeOK
  <2> QED
    BY <1>1, <2>1, InputGoesOn DEF Over, Drop, Loop
<1>3. CASE CancelLost
  <2>1. /\ pc'["input"] = "lost" /\ pc'["process"] = "join"
        /\ pc'["process"] = pc["process"]
        /\ pc'["receive"] = pc["receive"] /\ UNCHANGED <<at, conn, stopped>>
    BY <1>1, <1>3 DEF CancelLost, IInv, TypeOK
  <2> QED
    BY <1>1, <2>1, InputGoesOn DEF Over
<1>4. CASE Handle
  <2>1. pc["input"] = "handle" /\ pc["process"] # "swallow"
    BY <1>4 DEF Handle, WaitsEnd
  <2>2. CASE Interrupt
    <3>1. /\ pc'["input"] \in {"send", "idle"}
          /\ pc'["process"] \in {pc["process"], "died"}
          /\ pc'["receive"] = pc["receive"]
          /\ \A t \in Task \ {"input"} : at'[t] = at[t]
          /\ UNCHANGED <<conn, stopped>>
      BY <1>1, <2>2 DEF Interrupt, IInv, TypeOK
    <3> QED
      BY <1>1, <2>1, <3>1, InputGoesOn DEF Over, Drop, Loop
  <2>3. CASE BeginDisconnect("input", "cancel")
    BY <2>1, <2>3, BeginDisconnectWaits
  <2> QED
    BY <1>4, <2>2, <2>3 DEF Handle
<1> QED
  BY <1>2, <1>3, <1>4

LEMMA ReceiveWaits ==
    ASSUME IInv, WaitsEnd, ReceiveStep \/ ReceiverStops
    PROVE  WaitsEnd'
<1> USE DEF receiverVars
<1>1. "receive" \in Task /\ websocket \in Socket \cup {NoSocket}
      /\ "listen" \in PcType
  BY DEF Task, PcType, IInv, TypeOK
<1>2. ASSUME Lost PROVE GoesOn("receive")
  BY <1>1, <1>2, EndsGoesOn, ReconnectGoesOn DEF Lost, EnterLoop
<1>3. CASE ~stopped /\ ListenStarts
  <2>1. pc["receive"] # "idle" /\ stopped' = stopped
    BY <1>3 DEF ListenStarts
  <2>2. CASE Goto("receive", "listen", websocket) /\ conn' = conn
    BY <1>1, <1>3, <2>1, <2>2, GotoGoesOn, GoesOnWaits DEF Join
  <2> QED
    BY <1>1, <1>2, <1>3, <2>1, <2>2, GoesOnWaits DEF ListenStarts
<1>4. CASE ~stopped /\ ConnectionLost
  BY <1>1, <1>2, <1>4, GoesOnWaits DEF ConnectionLost
<1>5. CASE ReceiverStops
  <2>1. /\ pc'["receive"] = "idle" /\ ~stopped' /\ conn' = conn
        /\ \A u \in Task \ {"receive"} : pc'[u] = pc[u] /\ at'[u] = at[u]
    BY <1>1, <1>5 DEF ReceiverStops, Unwinds, Ends, IInv, TypeOK
  <2>2. "process" \in Task /\ "input" \in Task
    BY DEF Task
  <2> QED
    BY <1>1, <2>1, <2>2 DEF WaitsEnd, Join
<1> QED
  BY <1>3, <1>4, <1>5 DEF ReceiveStep

LEMMA WaitsStep ==
    ASSUME IInv, WaitsEnd, [Next]_vars
    PROVE  WaitsEnd'
<1>1. ASSUME NEW k \in Socket, ServerCloses(k) \/ CloseEnds(k)
      PROVE  WaitsEnd'
  <2>1. /\ pc' = pc /\ at' = at /\ stopped' = stopped
        /\ \A l \in Socket : conn'[l] = "open" => conn[l] = "open"
    BY <1>1 DEF ServerCloses, CloseEnds, receiverVars, IInv, TypeOK
  <2>2. \A t \in Task : at[t] \in Socket \cup {NoSocket}
    BY DEF IInv, TypeOK
  <2> QED
    BY <2>1, <2>2 DEF WaitsEnd
<1>2. CASE UNCHANGED vars
  BY <1>2 DEF vars, receiverVars, WaitsEnd
<1> QED
  BY <1>1, <1>2, ContinuesWaits, ProcessBeginsWaits, InputBeginsWaits, InputWaits,
     ReceiveWaits DEF Next

\* For any number of sockets, attempts and quick failures, and whatever runs beside whom:
\* no task of the service waits for a receive task that nobody has cancelled, for a socket
\* that nobody closes, or for a process task that is not there.
THEOREM TasksAreNotStuck == Spec => []WaitsEnd
<1>1. Init => WaitsEnd
  BY DEF Init, WaitsEnd, Task
<1>2. IInv /\ WaitsEnd /\ [Next]_vars => WaitsEnd'
  BY WaitsStep
<1> QED
  BY <1>1, <1>2, Invariant, PTL DEF Spec
=============================================================================
