-------------------------- MODULE WebsocketService --------------------------
(***************************************************************************)
(* The connection that the tasks of a websocket service share              *)
(* (services/websocket_service.py), with a text-to-speech service on top   *)
(* of it (services/inworld/tts.py, which uses all that the base offers).   *)
(*                                                                         *)
(* Three tasks use the connection: the process task of the processor       *)
(* speaks, changes settings and stops; the input task handles              *)
(* interruptions and the cancel; the receive task listens.  Each of them   *)
(* may find the connection lost and replace it.                            *)
(*                                                                         *)
(* An interruption cancels the process task first and starts a new one,    *)
(* unless it is at an uninterruptible frame: an EndFrame or a change of    *)
(* settings runs on beside the interruption.  A CancelFrame cancels the    *)
(* process task in any case, and nobody starts a new one, except an        *)
(* InterruptionFrame that was queued behind the CancelFrame.               *)
(*                                                                         *)
(* An action is the code between two suspension points.  Sockets are       *)
(* numbered, and a number is used again once its socket is closed and      *)
(* forgotten.  The messages are left out, and several that are sent in a   *)
(* row are sent as one.                                                    *)
(***************************************************************************)
EXTENDS Naturals, FiniteSets

CONSTANTS
    MaxSockets,      \* bound: sockets that exist at the same time
    MaxRetries,      \* max_retries of _try_reconnect
    MaxQuick         \* _MAX_CONSECUTIVE_QUICK_FAILURES

ASSUME ServiceAssumption ==
    MaxSockets \in Nat \ {0} /\ MaxRetries \in Nat \ {0}
        /\ MaxQuick \in Nat \ {0}

Task == {"process", "input", "receive"}
Socket == 1..MaxSockets
NoSocket == 0

VARIABLES
    pc,              \* what a task waits for
    job,             \* what it does that for; of a process task that is gone,
                     \* the uninterruptible frame left in __process_current_frame
    at,              \* the socket it works on
    conn,            \* the state of a socket
    websocket,       \* _websocket
    disconnecting,   \* _disconnecting
    reconnecting,    \* _reconnect_in_progress
    attempt,         \* attempt, in the loop of _try_reconnect; else 1
    quickFailures,   \* _quick_failure_count
    receiveTask,     \* is _receive_task set?
    stopped          \* has the receive task been cancelled and not ended yet?

connectVars == <<disconnecting, quickFailures>>
loopVars == <<reconnecting, attempt>>
receiverVars == <<receiveTask, stopped>>
vars == <<pc, job, at, conn, websocket, connectVars, loopVars, receiverVars>>

\* Waiting in the loop of _try_reconnect; in _disconnect_websocket outside of
\* it; in _disconnect for the receive task; for a cancelled process task to end;
\* no more, since the process task ended or the input task waits for ever.
Loop == {"loop farewell", "loop close", "loop connect", "sleep"}
Drop == {"farewell", "close"}
Join == {"join", "swallow"}
Awaiting == {"await", "await again"}
Over == {"gone", "died", "lost"}
PcType ==
    Loop \cup Drop \cup Join \cup Awaiting \cup Over \cup
        {"idle", "connect", "send", "retry", "enter", "listen", "drain", "handle"}

\* "rest" is the text that stop() has left, spoken after it.
Disconnects == {"update", "stop", "cancel"}
Uninterruptible == {"update", "stop", "rest"}
JobType ==
    Disconnects \cup Uninterruptible \cup {"none", "start", "text", "interruption"}

\* At most one receive task runs, and it is the one a disconnect finds.
TypeOK ==
    /\ pc \in [Task -> PcType] /\ job \in [Task -> JobType]
    /\ at \in [Task -> Socket \cup {NoSocket}]
    /\ conn \in [Socket -> {"open", "closing", "closed"}]
    /\ websocket \in Socket \cup {NoSocket}
    /\ disconnecting \in BOOLEAN /\ reconnecting \in BOOLEAN
    /\ attempt \in 1..MaxRetries /\ quickFailures \in 0..MaxQuick
    /\ receiveTask \in BOOLEAN /\ stopped \in BOOLEAN
    /\ pc["receive"] # "idle" => receiveTask

\* start() is waiting for the first connection.
Init ==
    /\ pc = [t \in Task |-> IF t = "input" THEN "connect" ELSE "idle"]
    /\ job = [t \in Task |-> IF t = "input" THEN "start" ELSE "none"]
    /\ at = [t \in Task |-> NoSocket]
    /\ conn = [k \in Socket |-> "closed"]
    /\ websocket = NoSocket
    /\ disconnecting = FALSE /\ reconnecting = FALSE
    /\ attempt = 1 /\ quickFailures = 0
    /\ receiveTask = FALSE /\ stopped = FALSE

IsOpen(k) == k # NoSocket /\ conn[k] = "open"

Goto(t, label, k) ==
    /\ pc' = [pc EXCEPT ![t] = label]
    /\ at' = [at EXCEPT ![t] = k]
    /\ UNCHANGED job

Ends(t) ==
    /\ pc' = [pc EXCEPT ![t] = "idle"]
    /\ job' = [job EXCEPT ![t] = "none"]
    /\ at' = [at EXCEPT ![t] = NoSocket]

-----------------------------------------------------------------------------
(* _connect and _disconnect.                                               *)

\* WebsocketService._connect, and _connect_websocket up to the handshake.
BeginConnect(t, task) ==
    /\ disconnecting' = FALSE /\ quickFailures' = 0
    /\ job' = [job EXCEPT ![t] = task]
    /\ pc' = [pc EXCEPT ![t] = "connect"]
    /\ at' = [at EXCEPT ![t] = NoSocket]

\* The end of _disconnect_websocket called from _disconnect.  A change of
\* settings connects again, and so does an EndFrame that finds text to speak.
Dropped(t) ==
    /\ websocket' = NoSocket
    /\ \/ job[t] = "update" /\ BeginConnect(t, "update")
       \/ job[t] = "stop" /\ BeginConnect(t, "rest")
       \/ job[t] # "update" /\ Ends(t) /\ UNCHANGED connectVars

\* websocket.close()
BeginClose(t, label) ==
    /\ websocket # NoSocket
    /\ Goto(t, label, websocket)
    /\ conn' = [conn EXCEPT ![websocket] = IF @ = "open" THEN "closing" ELSE @]
    /\ UNCHANGED <<websocket>>

CloseSocket(t) ==
    \/ BeginClose(t, "close") /\ UNCHANGED connectVars
    \/ websocket = NoSocket /\ Dropped(t) /\ UNCHANGED conn

\* _disconnect_websocket called from _disconnect: contexts that are open on
\* the server are closed first.
DropSocket(t) ==
    \/ /\ websocket # NoSocket
       /\ Goto(t, "farewell", websocket)
       /\ UNCHANGED <<conn, websocket, connectVars>>
    \/ CloseSocket(t)

\* _disconnect, up to the end of the receive task, which it cancels.
BeginDisconnect(t, task) ==
    /\ disconnecting' = TRUE
    /\ job' = [job EXCEPT ![t] = task]
    /\ pc' = [pc EXCEPT ![t] = "join"]
    /\ at' = [at EXCEPT ![t] = NoSocket]
    /\ stopped' = (pc["receive"] # "idle")
    /\ UNCHANGED <<conn, websocket, quickFailures, loopVars, receiveTask>>

\* Mutant: nobody waits for the receive task to end.
Joined_Early(t) ==
    /\ pc[t] \in Join
    /\ receiveTask' = FALSE
    /\ DropSocket(t)
    /\ UNCHANGED <<loopVars, stopped>>

Joined(t) ==
    /\ pc[t] \in Join /\ pc["receive"] = "idle"
    /\ receiveTask' = FALSE
    /\ DropSocket(t)
    /\ UNCHANGED <<loopVars, stopped>>

-----------------------------------------------------------------------------
(* _try_reconnect.                                                         *)

\* _reconnect_websocket up to its first suspension: contexts are closed, then
\* the socket, and then there is a new connection.
Reconnect(t, first) ==
    \/ /\ first /\ websocket # NoSocket
       /\ Goto(t, "loop farewell", websocket)
       /\ UNCHANGED <<conn, websocket>>
    \/ BeginClose(t, "loop close")
    \/ /\ websocket = NoSocket
       /\ Goto(t, "loop connect", NoSocket)
       /\ UNCHANGED <<conn, websocket>>

\* Only for a task that finds nobody in the loop.
EnterLoop(t) ==
    /\ ~reconnecting
    /\ reconnecting' = TRUE
    /\ UNCHANGED attempt
    /\ Reconnect(t, TRUE)

\* A send that fails here finds the reconnection in progress and is given up.
LoopFarewell(t) ==
    /\ pc[t] = "loop farewell"
    /\ Reconnect(t, FALSE)
    /\ UNCHANGED <<connectVars, loopVars, receiverVars>>

\* The socket is closed: whatever _websocket is by now, it becomes None.
LoopClosed(t) ==
    /\ pc[t] = "loop close" /\ conn[at[t]] = "closed"
    /\ websocket' = NoSocket
    /\ Goto(t, "loop connect", NoSocket)
    /\ UNCHANGED <<conn, connectVars, loopVars, receiverVars>>

\* A handshake succeeds.  If another task installed a socket meanwhile, that
\* one is forgotten.
Free ==
    {k \in Socket : conn[k] = "closed" /\ k # websocket
                       /\ \A t \in Task : at[t] # k}

NewSocket(k) ==
    /\ k \in Free /\ \A l \in Free : k <= l
    /\ conn' = [conn EXCEPT ![k] = "open"]
    /\ websocket' = k

\* The receive task listens again, a message that could not be sent is sent
\* again.
Reconnected(t) ==
    /\ pc[t] = "loop connect"
    /\ \E k \in Socket :
          /\ NewSocket(k)
          /\ IF t = "receive" THEN Goto(t, "enter", NoSocket)
                              ELSE Goto(t, "retry", k)
    /\ reconnecting' = FALSE /\ attempt' = 1
    /\ UNCHANGED <<connectVars, receiverVars>>

\* The connection may also be made and lost before it has been verified.
ReconnectFails(t) ==
    /\ pc[t] = "loop connect"
    /\ websocket' \in {NoSocket} \cup {k \in Free : \A l \in Free : k <= l}
    /\ Goto(t, "sleep", NoSocket)
    /\ UNCHANGED <<conn, connectVars, loopVars, receiverVars>>

\* Mutant: the attempts are not counted.
NextAttempt_Uncounted(t) ==
    /\ pc[t] = "sleep"
    /\ Reconnect(t, TRUE)
    /\ UNCHANGED <<connectVars, loopVars, receiverVars>>

NextAttempt(t) ==
    /\ pc[t] = "sleep" /\ attempt < MaxRetries
    /\ attempt' = attempt + 1
    /\ Reconnect(t, TRUE)
    /\ UNCHANGED <<connectVars, reconnecting, receiverVars>>

\* send_with_retry has returned.
AfterSend(t) ==
    \/ job[t] \in Disconnects /\ CloseSocket(t)
    \/ /\ job[t] \notin Disconnects /\ Ends(t)
       /\ UNCHANGED <<conn, websocket, connectVars>>

\* The receive task ends; a message is given up.
GivesUp(t) ==
    /\ pc[t] = "sleep" /\ attempt = MaxRetries
    /\ reconnecting' = FALSE /\ attempt' = 1
    /\ AfterSend(t)
    /\ UNCHANGED receiverVars

\* Is _disconnect_websocket on the stack of the task?
Dropping(t) ==
    \/ pc[t] \in Drop \cup {"loop farewell", "loop close"}
    \/ job[t] \in Disconnects /\ pc[t] \in Loop \cup {"retry"}

\* Mutant: the flag is not cleared in a finally block.
Unwinds_KeepsFlag(t) ==
    /\ websocket' = IF Dropping(t) THEN NoSocket ELSE websocket
    /\ UNCHANGED <<conn, connectVars, loopVars>>

\* A task is cancelled where it waits: the finally blocks of _try_reconnect
\* and of _disconnect_websocket run.
Unwinds(t) ==
    /\ websocket' = IF Dropping(t) THEN NoSocket ELSE websocket
    /\ IF pc[t] \in Loop THEN reconnecting' = FALSE /\ attempt' = 1
                         ELSE UNCHANGED loopVars
    /\ UNCHANGED <<conn, connectVars>>

-----------------------------------------------------------------------------
(* Sending: run_tts and the messages of an interruption or a disconnect.   *)

\* The message is sent, or the second and last attempt is over.
Sent(t) ==
    /\ pc[t] \in {"send", "farewell", "retry"} /\ IsOpen(at[t])
    /\ AfterSend(t)
    /\ UNCHANGED <<loopVars, receiverVars>>

SendFails(t) ==
    /\ pc[t] \in {"send", "farewell"} /\ ~IsOpen(at[t])
    /\ \/ EnterLoop(t) /\ UNCHANGED connectVars
       \/ reconnecting /\ AfterSend(t) /\ UNCHANGED loopVars
    /\ UNCHANGED receiverVars

\* The exception of the second attempt goes to the caller; a disconnect goes
\* on without closing anything.
RetryFails(t) ==
    /\ pc[t] = "retry" /\ ~IsOpen(at[t])
    /\ \/ job[t] \in Disconnects /\ Dropped(t)
       \/ /\ job[t] \notin Disconnects /\ Ends(t)
          /\ UNCHANGED <<websocket, connectVars>>
    /\ UNCHANGED <<conn, loopVars, receiverVars>>

Closed(t) ==
    /\ pc[t] = "close" /\ conn[at[t]] = "closed"
    /\ Dropped(t)
    /\ UNCHANGED <<conn, loopVars, receiverVars>>

-----------------------------------------------------------------------------
(* _connect of start(), of run_tts and of a change of settings.            *)

\* A text is sent next, whether there is a connection now or not.
AfterConnect(t, k) ==
    /\ IF job[t] \in {"text", "rest"}
         THEN /\ job' = job
              /\ pc' = [pc EXCEPT ![t] = "send",
                                  !["receive"] = IF k = NoSocket \/ receiveTask
                                                 THEN @ ELSE "enter"]
              /\ at' = [at EXCEPT ![t] = k]
         ELSE /\ job' = [job EXCEPT ![t] = "none"]
              /\ pc' = [pc EXCEPT ![t] = "idle",
                                  !["receive"] = IF k = NoSocket \/ receiveTask
                                                 THEN @ ELSE "enter"]
              /\ at' = [at EXCEPT ![t] = NoSocket]
    /\ receiveTask' = (receiveTask \/ k # NoSocket)
    /\ UNCHANGED <<connectVars, loopVars, stopped>>

Connected(t) ==
    /\ pc[t] = "connect"
    /\ \E k \in Socket : NewSocket(k) /\ AfterConnect(t, k)

ConnectFails(t) ==
    /\ pc[t] = "connect"
    /\ websocket' = NoSocket
    /\ AfterConnect(t, NoSocket)
    /\ UNCHANGED conn

-----------------------------------------------------------------------------
(* The process task.                                                       *)

\* A message is sent: by run_tts, or on_turn_context_created before it.
SendNow ==
    /\ pc' = [pc EXCEPT !["process"] = "send"]
    /\ at' = [at EXCEPT !["process"] = websocket]
    /\ UNCHANGED connectVars

\* run_tts connects first if it finds no connection; a socket that is being
\* closed counts as one.
ConnectFirst ==
    /\ websocket # NoSocket => conn[websocket] = "closed"
    /\ disconnecting' = FALSE /\ quickFailures' = 0
    /\ pc' = [pc EXCEPT !["process"] = "connect"]
    /\ UNCHANGED at

Speak ==
    /\ job' = [job EXCEPT !["process"] = "text"]
    /\ SendNow \/ ConnectFirst
    /\ UNCHANGED <<conn, websocket, loopVars, receiverVars>>

\* The process task takes a frame, which a task that is being cancelled does not
\* do; it has nothing to do before start() has returned.  A TTS service that stops
\* waits for its audio first.
ProcessBegins ==
    /\ pc["process"] = "idle" /\ pc["input"] # "await" /\ job["input"] # "start"
    /\ \/ Speak
       \/ BeginDisconnect("process", "update")
       \/ /\ pc' = [pc EXCEPT !["process"] = "drain"]
          /\ job' = [job EXCEPT !["process"] = "stop"]
          /\ UNCHANGED <<at, conn, websocket, connectVars, loopVars, receiverVars>>

Drained ==
    /\ pc["process"] = "drain" /\ pc["input"] # "await"
    /\ BeginDisconnect("process", "stop")

-----------------------------------------------------------------------------
(* The input task.                                                         *)

\* An InterruptionFrame or a CancelFrame has to cancel the process task.
Cancels(task) ==
    /\ pc["process"] # "gone"
    /\ task = "interruption" => job["process"] \notin Uninterruptible

\* A task that waits in cancel_task() for the receive task swallows the request
\* to end and goes on, until it is cancelled again a second later.  Where
\* nothing has to be cancelled an InterruptionFrame starts the process task if
\* there is none.
InputBegins(task) ==
    /\ pc["input"] = "idle"
    /\ job' = [job EXCEPT !["input"] = task]
    /\ \/ /\ Cancels(task) /\ pc["process"] # "join"
          /\ pc' = [pc EXCEPT !["input"] = "await"]
       \/ /\ Cancels(task) /\ pc["process"] = "join"
          /\ pc' = [pc EXCEPT !["input"] = "await again", !["process"] = "swallow"]
       \/ /\ ~Cancels(task)
          /\ pc' = [pc EXCEPT !["input"] = "handle",
                              !["process"] = IF task = "interruption" /\ @ = "gone"
                                                    /\ job["process"] = "none"
                                             THEN "idle" ELSE @]
    /\ UNCHANGED <<at, conn, websocket, connectVars, loopVars, receiverVars>>

\* The process task ends, and an interruption starts the next one.
CancelProcess ==
    /\ pc["input"] \in Awaiting /\ pc["process"] \notin Join
    /\ LET over == job["input"] = "cancel"
       IN  /\ pc' = [pc EXCEPT !["input"] = "handle",
                               !["process"] = IF over THEN "gone" ELSE "idle"]
           /\ job' = [job EXCEPT !["process"] =
                          IF over /\ @ \in Uninterruptible THEN @ ELSE "none"]
    /\ at' = [at EXCEPT !["process"] = NoSocket]
    /\ Unwinds("process")
    /\ UNCHANGED receiverVars

\* The second request is swallowed as well, and there is no third one.
CancelLost ==
    /\ pc["input"] = "await again" /\ pc["process"] = "join"
    /\ pc' = [pc EXCEPT !["input"] = "lost"]
    /\ UNCHANGED <<job, at, conn, websocket, connectVars, loopVars, receiverVars>>

\* Mutant: contexts are closed without a look at the connection.
Interrupt_Blindly ==
    /\ job["input"] = "interruption"
    /\ pc' = [pc EXCEPT !["input"] = "send",
                        !["process"] = IF @ = "drain" THEN "died" ELSE @]
    /\ at' = [at EXCEPT !["input"] = websocket]
    /\ UNCHANGED <<job, conn, websocket, connectVars, loopVars, receiverVars>>

\* _handle_interruption cancels the task that plays the audio, and with it a
\* process task that waits for that task.  Contexts that are open are closed on
\* the server, if there is a connection.
Interrupt ==
    /\ job["input"] = "interruption"
    /\ \E sends \in BOOLEAN :
          /\ sends => websocket # NoSocket
          /\ pc' = [pc EXCEPT !["input"] = IF sends THEN "send" ELSE "idle",
                              !["process"] = IF @ = "drain" THEN "died" ELSE @]
          /\ job' = [job EXCEPT !["input"] = IF sends THEN @ ELSE "none"]
          /\ at' = [at EXCEPT !["input"] = IF sends THEN websocket ELSE NoSocket]
    /\ UNCHANGED <<conn, websocket, connectVars, loopVars, receiverVars>>

Handle ==
    /\ pc["input"] = "handle"
    /\ \/ Interrupt
       \/ job["input"] = "cancel" /\ BeginDisconnect("input", "cancel")

-----------------------------------------------------------------------------
(* The receive task.                                                       *)

\* _maybe_try_reconnect.  A connection that was lost within five seconds is a
\* quick failure; time is left out, so that any may be.
Lost ==
    \/ /\ disconnecting
       /\ Ends("receive")
       /\ UNCHANGED <<conn, websocket, connectVars, loopVars>>
    \/ /\ ~disconnecting
       /\ quickFailures' \in {0, quickFailures + 1}
       /\ UNCHANGED disconnecting
       /\ \/ quickFailures' < MaxQuick /\ EnterLoop("receive")
          \/ /\ quickFailures' >= MaxQuick \/ reconnecting
             /\ Ends("receive")
             /\ UNCHANGED <<conn, websocket, loopVars>>

\* A round of _receive_task_handler.
ListenStarts ==
    /\ pc["receive"] = "enter"
    /\ \/ /\ websocket # NoSocket
          /\ Goto("receive", "listen", websocket)
          /\ UNCHANGED <<conn, websocket, connectVars, loopVars>>
       \/ websocket = NoSocket /\ Lost
    /\ UNCHANGED receiverVars

ConnectionLost ==
    /\ pc["receive"] = "listen" /\ conn[at["receive"]] = "closed"
    /\ Lost
    /\ UNCHANGED receiverVars

ReceiverStops ==
    /\ stopped
    /\ stopped' = FALSE
    /\ Ends("receive")
    /\ Unwinds("receive")
    /\ UNCHANGED receiveTask

-----------------------------------------------------------------------------
(* The other end of a socket, and the library.                             *)

ServerCloses(k) ==
    /\ conn[k] = "open"
    /\ conn' = [conn EXCEPT ![k] = "closed"]
    /\ UNCHANGED <<pc, job, at, websocket, connectVars, loopVars,
                   receiverVars>>

CloseEnds(k) ==
    /\ conn[k] = "closing"
    /\ conn' = [conn EXCEPT ![k] = "closed"]
    /\ UNCHANGED <<pc, job, at, websocket, connectVars, loopVars,
                   receiverVars>>

-----------------------------------------------------------------------------

\* A cancelled task does nothing but end.
Runs(t) ==
    CASE t = "receive" -> ~stopped
      [] t = "process" -> pc["input"] # "await"
      [] OTHER -> TRUE

Continues(t) ==
    /\ Runs(t)
    /\ \/ Joined(t)
       \/ LoopFarewell(t) \/ LoopClosed(t) \/ Reconnected(t)
       \/ ReconnectFails(t) \/ NextAttempt(t) \/ GivesUp(t)
       \/ Sent(t) \/ SendFails(t) \/ RetryFails(t) \/ Closed(t)
       \/ Connected(t) \/ ConnectFails(t)

ReceiveStep == ~stopped /\ (ListenStarts \/ ConnectionLost)

Next ==
    \/ \E t \in Task : Continues(t)
    \/ ProcessBegins \/ Drained
    \/ \E task \in {"interruption", "cancel"} : InputBegins(task)
    \/ CancelProcess \/ CancelLost \/ Handle
    \/ ReceiveStep \/ ReceiverStops
    \/ \E k \in Socket : ServerCloses(k) \/ CloseEnds(k)

Spec == Init /\ [][Next]_vars

\* The event loop runs every task that can go on, and the library bounds every
\* handshake, send and close in time; nothing makes a connection succeed.
Fairness ==
    /\ \A t \in Task : WF_vars(Continues(t))
    /\ WF_vars(Drained) /\ WF_vars(Handle)
    /\ WF_vars(CancelProcess \/ CancelLost)
    /\ WF_vars(ReceiveStep) /\ WF_vars(ReceiverStops)
    /\ \A k \in Socket : WF_vars(CloseEnds(k))

FairSpec == Spec /\ Fairness

-----------------------------------------------------------------------------
(* Properties.                                                             *)

\* One task at a time is in the loop of _try_reconnect, and the flag that keeps
\* the others out is set just as long as one is, however that task leaves: one
\* that was cancelled does not keep the others from reconnecting.  It is the loop
\* that is exclusive and not the connection: run_tts and a change of settings
\* look at no flag and may connect beside it.
OneReconnects ==
    /\ reconnecting <=> \E t \in Task : pc[t] \in Loop
    /\ \A t, u \in Task : pc[t] \in Loop /\ pc[u] \in Loop => t = u

\* A CancelFrame leaves no connection and nobody who uses or makes one, whatever
\* the tasks were waiting for when it came, also when an interruption is handled
\* after it: until such an interruption has started the process task again, which
\* may then connect.
CancelSticks ==
    pc["process"] = "gone" /\ job["input"] # "cancel" =>
        /\ websocket = NoSocket /\ ~receiveTask
        /\ pc["receive"] = "idle" /\ pc["input"] \in {"idle", "handle"}

\* Frames are not held up for ever by a connection that is lost: whatever the
\* process and the input task were doing comes to an end, with no more than
\* max_retries attempts at a time, also when both replace the connection.  A
\* CancelFrame whose second request to end was swallowed too is excused ("lost").
TasksReturn ==
    \A t \in {"process", "input"} :
        pc[t] \notin Over \cup {"idle"} ~> pc[t] \in Over \cup {"idle"}

=============================================================================
