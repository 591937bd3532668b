-------------------------- MODULE ParallelPipeline --------------------------
(***************************************************************************)
(* ParallelPipeline (pipeline/parallel_pipeline.py): every frame enters    *)
(* every branch and leaves once, and StartFrame, EndFrame and CancelFrame  *)
(* leave only when all branches have passed them on.  Until then what the  *)
(* branches push, in either direction, is buffered, and the processor's    *)
(* own two queues are paused.                                              *)
(*                                                                         *)
(* A branch is a bag of frames: system frames overtake the others, and     *)
(* frames of one direction stay in order, so the EndFrame comes last of    *)
(* those that travel downstream.  The sources and sinks are direct and the *)
(* branches' queues unbounded, so that no handler here suspends and each   *)
(* is one step.                                                            *)
(***************************************************************************)
EXTENDS Naturals, Sequences, FiniteSets

CONSTANTS
    Branches,   \* _pipelines
    Data,       \* frames that are not lifecycle frames
    Upstream,   \* those among them that travel upstream
    MayLose     \* lifecycle frames a processor of a branch may fail to forward

Lifecycle == {"start", "end", "cancel"}
Frames == Lifecycle \cup Data \cup {"error"}
Downstream == Data \ Upstream

ASSUME ParallelAssumption ==
    /\ IsFiniteSet(Branches) /\ Branches # {}
    /\ Data \cap (Lifecycle \cup {"error"}) = {}
    /\ Upstream \subseteq Data
    /\ MayLose \subseteq Lifecycle

VARIABLES
    used,           \* history: frames that exist
    inside,         \* frames inside a branch
    counter,        \* _frame_counter
    synchronizing,  \* _synchronizing
    paused,         \* which of the processor's two tasks are paused
    seen,           \* _seen_ids
    buffer,         \* _buffered_frames
    out,            \* history: frames pushed out of the processor
    passed,         \* history: branches each lifecycle frame has left
    firsts          \* history: other frames, in the order they first left
                    \* a branch

outputVars == <<seen, buffer, out, firsts>>
syncVars == <<counter, synchronizing, paused>>
vars == <<used, inside, syncVars, outputVars, passed>>

Tasks == {"system", "data"}
Elements(s) == {s[i] : i \in DOMAIN s}

\* Frames wait in the buffer only while a lifecycle frame is synchronised.
TypeOK ==
    /\ used \subseteq Frames /\ seen \subseteq used
    /\ inside \in [Branches -> SUBSET used]
    /\ counter \in [Lifecycle -> Nat]
    /\ synchronizing \in BOOLEAN /\ paused \in SUBSET Tasks
    /\ buffer \in Seq(Frames) /\ out \in Seq(Frames) /\ firsts \in Seq(Frames)
    /\ passed \in [Lifecycle -> SUBSET Branches]
    /\ buffer # <<>> => synchronizing

Init ==
    /\ used = {} /\ inside = [b \in Branches |-> {}]
    /\ counter = [f \in Lifecycle |-> 0]
    /\ synchronizing = FALSE /\ paused = {}
    /\ seen = {} /\ buffer = <<>> /\ out = <<>> /\ firsts = <<>>
    /\ passed = [f \in Lifecycle |-> {}]

-----------------------------------------------------------------------------
(* process_frame: a frame enters every branch.                             *)

\* The task that handles a frame, StartFrame before any other, is not paused.
\* A CancelFrame ends the processor's process task and closes its queue.
MayEnter(f) ==
    /\ f \notin used /\ "cancel" \notin used
    /\ f # "start" => "start" \in used
    /\ IF f \in {"start", "cancel"} THEN "system" \notin paused
                                    ELSE "data" \notin paused

EnterBranches(f) ==
    /\ used' = used \cup {f}
    /\ inside' = [b \in Branches |-> inside[b] \cup {f}]

\* Mutant: one branch is enough.
EnterLifecycle_FastBranch(f) ==
    /\ f \in Lifecycle /\ MayEnter(f) /\ EnterBranches(f)
    /\ counter' = [counter EXCEPT ![f] = 1]
    /\ synchronizing' = TRUE
    /\ paused' = Tasks
    /\ UNCHANGED <<outputVars, passed>>

EnterLifecycle(f) ==
    /\ f \in Lifecycle /\ MayEnter(f) /\ EnterBranches(f)
    /\ counter' = [counter EXCEPT ![f] = Cardinality(Branches)]
    /\ synchronizing' = TRUE
    /\ paused' = Tasks
    /\ UNCHANGED <<outputVars, passed>>

EnterOther(f) ==
    /\ f \in Data /\ MayEnter(f) /\ EnterBranches(f)
    /\ UNCHANGED <<syncVars, outputVars, passed>>

-----------------------------------------------------------------------------
(* What a branch pushes.                                                   *)

\* Mutant: duplicates are let through.
ParallelPush_Duplicates(f) ==
    /\ seen' = seen \cup {f}
    /\ firsts' = IF f \in seen THEN firsts ELSE Append(firsts, f)
    /\ IF synchronizing
       THEN buffer' = Append(buffer, f) /\ UNCHANGED out
       ELSE out' = Append(out, f) /\ UNCHANGED buffer

\* _parallel_push_frame
ParallelPush(f) ==
    IF f \in seen THEN UNCHANGED outputVars
    ELSE /\ seen' = seen \cup {f}
         /\ firsts' = Append(firsts, f)
         /\ IF synchronizing
            THEN buffer' = Append(buffer, f) /\ UNCHANGED out
            ELSE out' = Append(out, f) /\ UNCHANGED buffer

\* A branch passes on a frame that entered it.
EmitOther(b, f) ==
    /\ f \in inside[b] \ Lifecycle
    /\ inside' = [inside EXCEPT ![b] = @ \ {f}]
    /\ ParallelPush(f)
    /\ UNCHANGED <<used, syncVars, passed>>

\* Or keeps it, as filters do, and processors that have been cancelled.
Drop(b, f) ==
    /\ f \in inside[b] \ Lifecycle
    /\ inside' = [inside EXCEPT ![b] = @ \ {f}]
    /\ UNCHANGED <<used, syncVars, outputVars, passed>>

\* Or pushes a frame of its own, in either direction.
Generate(b, f) ==
    /\ f \in Data \ used /\ "start" \in used
    /\ used' = used \cup {f}
    /\ ParallelPush(f)
    /\ UNCHANGED <<inside, syncVars, passed>>

\* The sink of a branch gets a lifecycle frame, the EndFrame behind what travels
\* downstream in the branch.
LeaveBranch(b, f) ==
    /\ f \in inside[b] \cap Lifecycle
    /\ f = "end" => inside[b] \cap Downstream = {}
    /\ inside' = [inside EXCEPT ![b] = @ \ {f}]
    /\ passed' = [passed EXCEPT ![f] = @ \cup {b}]
    /\ counter' = [counter EXCEPT ![f] = IF @ > 0 THEN @ - 1 ELSE @]

\* _pipeline_sink_push_frame, when other branches still have the frame.
EmitEarly(b, f) ==
    /\ LeaveBranch(b, f) /\ counter'[f] > 0
    /\ UNCHANGED <<used, synchronizing, paused, outputVars>>

\* Mutant: the buffer is sent but not emptied.
EmitLast_NoFlush(b, f) ==
    /\ LeaveBranch(b, f) /\ counter'[f] = 0
    /\ synchronizing' = FALSE /\ paused' = {}
    /\ LET frame == IF f \in seen THEN <<>> ELSE <<f>>
       IN  out' = out \o (IF f = "start" THEN frame \o buffer
                                         ELSE buffer \o frame)
    /\ buffer' = buffer
    /\ seen' = seen \cup {f}
    /\ UNCHANGED <<used, firsts>>

\* Mutant: the EndFrame goes before the buffered frames, too.
EmitLast_FrameFirst(b, f) ==
    /\ LeaveBranch(b, f) /\ counter'[f] = 0
    /\ synchronizing' = FALSE /\ paused' = {}
    /\ LET frame == IF f \in seen THEN <<>> ELSE <<f>>
       IN  out' = out \o frame \o buffer
    /\ buffer' = <<>>
    /\ seen' = seen \cup {f}
    /\ UNCHANGED <<used, firsts>>

\* Mutant: only one of the two tasks is resumed.
EmitLast_HalfResume(b, f) ==
    /\ LeaveBranch(b, f) /\ counter'[f] = 0
    /\ synchronizing' = FALSE /\ paused' = {"data"}
    /\ LET frame == IF f \in seen THEN <<>> ELSE <<f>>
       IN  out' = out \o (IF f = "start" THEN frame \o buffer
                                         ELSE buffer \o frame)
    /\ buffer' = <<>>
    /\ seen' = seen \cup {f}
    /\ UNCHANGED <<used, firsts>>

\* _pipeline_sink_push_frame, in the last branch: the StartFrame goes before
\* the buffered frames, the others after them.
EmitLast(b, f) ==
    /\ LeaveBranch(b, f) /\ counter'[f] = 0
    /\ synchronizing' = FALSE /\ paused' = {}
    /\ LET frame == IF f \in seen THEN <<>> ELSE <<f>>
       IN  out' = out \o (IF f = "start" THEN frame \o buffer
                                         ELSE buffer \o frame)
    /\ buffer' = <<>>
    /\ seen' = seen \cup {f}
    /\ UNCHANGED <<used, firsts>>

\* A processor raises on a lifecycle frame: the frame goes no further and an
\* ErrorFrame is pushed upstream (frame_processor.py __process_frame).
Lose(b, f) ==
    /\ f \in inside[b] \cap MayLose /\ "error" \notin used
    /\ inside' = [inside EXCEPT ![b] = @ \ {f}]
    /\ used' = used \cup {"error"}
    /\ ParallelPush("error")
    /\ UNCHANGED <<syncVars, passed>>

BranchMoves(b, f) == EmitOther(b, f) \/ Drop(b, f)
BranchPasses(b, f) == EmitEarly(b, f) \/ EmitLast(b, f)

Next ==
    \/ \E f \in Frames : EnterLifecycle(f) \/ EnterOther(f)
    \/ \E b \in Branches, f \in Frames :
          BranchMoves(b, f) \/ BranchPasses(b, f) \/ Generate(b, f) \/ Lose(b, f)

Spec == Init /\ [][Next]_vars

\* Processors handle what they are given.  Nothing has to enter.
Fairness ==
    \A b \in Branches :
        /\ WF_vars(\E f \in Frames : BranchMoves(b, f))
        /\ WF_vars(\E f \in Lifecycle : BranchPasses(b, f))

FairSpec == Spec /\ Fairness

-----------------------------------------------------------------------------
(* Properties.                                                             *)

\* A lifecycle frame leaves the processor only when every branch has passed it
\* on (the three reasons in process_frame), and it leaves at most once.
LifecycleWhole ==
    \A f \in Lifecycle :
        /\ f \in Elements(out) => passed[f] = Branches
        /\ \A i, j \in DOMAIN out : out[i] = f /\ out[j] = f => i = j

\* "StartFrame should always go before any other frame", also before the frames
\* that a fast branch pushed before a slow one had started.
StartFirst == out # <<>> => out[1] = "start"

\* The EndFrame leaves last, after everything the branches made of the frames that
\* entered before it: no such frame is still in the buffer or, unless it travels
\* upstream, inside a branch.
EndLast ==
    [][ "end" \in Elements(out') \ Elements(out) =>
          /\ out'[Len(out')] = "end"
          /\ Elements(firsts') \subseteq Elements(out')
          /\ \A b \in Branches : inside'[b] \cap Downstream = {} ]_vars

\* The frames that open and close the pipeline enclose what it carries, however
\* the branches and the buffer delay one frame against another.
LifecycleEncloses == []StartFirst /\ EndLast

\* Other frames leave in the order they first left a branch, none of them twice
\* and none lost in the buffer, whichever lifecycle frames come between.
InOrderOnce ==
    LET all == out \o buffer
    IN  /\ Elements(all) \ Lifecycle = Elements(firsts)
        /\ \A i, j \in DOMAIN all, k, l \in DOMAIN firsts :
              all[i] = firsts[k] /\ all[j] = firsts[l] => (i < j <=> k < l)

\* The barrier is lifted: once a lifecycle frame has entered, it leaves every
\* branch, and nothing stays paused or buffered, unless a branch lost the frame.
BarrierLifts ==
    synchronizing ~> \/ ~synchronizing /\ paused = {} /\ buffer = <<>>
                     \/ "error" \in used
=============================================================================
