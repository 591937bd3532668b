---------------------------- MODULE FrameDelivery ----------------------------
(***************************************************************************)
(* What a frame processor promises to the rest of a pipeline, whatever its *)
(* queues and tasks are: two lanes, one for system frames and one for the  *)
(* others.  A lane handles one frame at a time, in order of arrival.  What *)
(* waits in the lane of non-system frames may be dropped at a start or an  *)
(* interruption, from the oldest on and never an uninterruptible frame;    *)
(* only the end of the processor may abandon one of those.                 *)
(***************************************************************************)
EXTENDS Naturals

CONSTANTS
    Frame,          \* the frames that may be queued
    Kind,           \* [Frame -> kinds of FrameProcessor]
    SystemKinds,    \* the kinds that travel in the system lane
    MayBroadcast    \* may other coroutines drop frames at any time ?

VARIABLES
    arrival,        \* number of an accepted frame, in order of arrival
    counter,        \* the last number
    status,         \* what became of a frame
    ending          \* has a cancel been handled or cleanup() been called ?

vars == <<arrival, counter, status, ending>>

Statuses == {"none", "waiting", "taken", "done", "dropped", "refused"}

Init ==
    /\ arrival = [f \in Frame |-> 0] /\ counter = 0
    /\ status = [f \in Frame |-> "none"]
    /\ ending = FALSE

IsSystem(f) == Kind[f] \in SystemKinds
SameLane(f, g) == IsSystem(f) <=> IsSystem(g)
Handles(kinds) == \E s \in Frame : Kind[s] \in kinds /\ status[s] = "taken"

Settle(f, end) == status' = [status EXCEPT ![f] = end]

Accept(f) ==
    /\ status[f] = "none"
    /\ Settle(f, "waiting")
    /\ counter' = counter + 1
    /\ arrival' = [arrival EXCEPT ![f] = counter + 1]
    /\ UNCHANGED ending

Refuse(f) ==
    /\ ending
    /\ status[f] = "none"
    /\ Settle(f, "refused")
    /\ UNCHANGED <<arrival, counter, ending>>

\* A lane takes its oldest frame, when it holds none.
Take(f) ==
    /\ status[f] = "waiting"
    /\ \A g \in Frame :
          SameLane(f, g) => /\ status[g] # "taken"
                            /\ status[g] = "waiting" => arrival[f] <= arrival[g]
    /\ Settle(f, "taken")
    /\ UNCHANGED <<arrival, counter, ending>>

Finish(f) ==
    /\ status[f] = "taken"
    /\ Settle(f, "done")
    /\ UNCHANGED <<arrival, counter, ending>>

\* Waiting frames that an interruption may remove.
Droppable ==
    {f \in Frame : /\ status[f] = "waiting"
                   /\ ~IsSystem(f)
                   /\ Kind[f] # "uninterruptible"}

\* An interruption removes D: with a frame also those that came before it.
Drop(D) ==
    /\ MayBroadcast \/ Handles({"start", "interruption"})
    /\ \A f \in D, g \in Droppable : arrival[g] < arrival[f] => g \in D
    /\ status' = [f \in Frame |-> IF f \in D THEN "dropped" ELSE status[f]]
    /\ UNCHANGED <<arrival, counter, ending>>

\* The frame in work is abandoned: by an interruption, or at the end.
Abandon(f) ==
    /\ status[f] = "taken" /\ ~IsSystem(f)
    /\ \/ Handles({"interruption"}) /\ Kind[f] # "uninterruptible"
       \/ ending'
    /\ Settle(f, "dropped")
    /\ ending' \in {ending, TRUE}
    /\ UNCHANGED <<arrival, counter>>

End ==
    /\ ending' = TRUE
    /\ UNCHANGED <<arrival, counter, status>>

Next ==
    \/ \E f \in Frame : \/ Accept(f) \/ Refuse(f) \/ Take(f)
                        \/ Finish(f) \/ Abandon(f)
    \/ \E D \in SUBSET Droppable : Drop(D)
    \/ End

Spec == Init /\ [][Next]_vars

=============================================================================
