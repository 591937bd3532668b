----------------------------- MODULE WorkerRunner -----------------------------
(***************************************************************************)
(* A WorkerRunner (workers/runner.py) and the workers it runs              *)
(* (workers/base_worker.py, pipeline/worker.py): workers that are added    *)
(* before and during the run, by the program or by their parents, and how  *)
(* end(), cancel() and the end of the workers end the run.                 *)
(*                                                                         *)
(* Runner and workers talk over the bus (bus/bus.py).  A subscriber        *)
(* handles cancel messages in its router task and end messages in its data *)
(* task; a message that is sent before a worker has subscribed does not    *)
(* reach it.  A worker is told to finish and finishes: how, is the subject *)
(* of PipelineWorker.  An action is the code between two suspension points.*)
(*                                                                         *)
(* The names that JobGroup has too begin with Runner here: the theorems    *)
(* about both are in one module, WorkerProofs.                             *)
(***************************************************************************)
EXTENDS Naturals

CONSTANTS
    Worker,
    NoWorker,
    Parent,          \* the worker that adds it, or NoWorker for a root
    Initial,         \* the workers added before run()
    AutoEnd          \* auto_end of run()

ASSUME RunnerAssumption ==
    /\ NoWorker \notin Worker
    /\ Parent \in [Worker -> Worker \cup {NoWorker}]
    /\ Initial \subseteq {w \in Worker : Parent[w] = NoWorker}
    /\ AutoEnd \in BOOLEAN

VARIABLES
    runPc,           \* where run() is
    shutdown,        \* is _shutdown_event set?
    planned,         \* the entries _setup_session() began to start
    remaining,       \* the workers _cancel_spawned_tasks() waits for
    life,            \* what has become of a worker
    told,            \* has it been told to finish, and has not yet?
    toCancel,        \* cancel messages that wait for it
    ends,            \* its end message
    awaited,         \* the children it waits for before it ends
    early            \* history: the workers that ran when the run was to end

runVars == <<runPc, shutdown, planned, remaining>>
messageVars == <<told, toCancel, ends, awaited>>
runnerVars == <<runVars, life, messageVars, early>>

Root == {w \in Worker : Parent[w] = NoWorker}

\* In _entries; with a task of its own; with a task that has not ended.
Entered == {w \in Worker : life[w] \in {"ready", "running", "finished", "done"}}
Started == {w \in Worker : life[w] \in {"running", "finished", "done"}}
Running == {w \in Worker : life[w] \in {"running", "finished"}}

Children(p) == {w \in Worker : Parent[w] = p /\ life[w] # "absent"}

\* A worker gets no more than two cancel messages: one because of cancel(), one
\* because run() ends.  run() waits only for workers, and only for some.
RunnerTypeOK ==
    /\ runPc \in {"before", "starting", "setup", "waiting", "gather", "over", "failed"}
    /\ shutdown \in BOOLEAN
    /\ planned \subseteq Entered
    /\ remaining \subseteq Started
    /\ runPc = "gather" => remaining # {}
    /\ life \in [Worker -> {"absent", "lost", "asked", "attaching", "ready",
                            "running", "finished", "done"}]
    /\ told \in [Worker -> BOOLEAN]
    /\ toCancel \in [Worker -> 0..2]
    /\ ends \in [Worker -> {"none", "sent", "waiting"}]
    /\ awaited \in [Worker -> SUBSET Worker]
    /\ early \subseteq Started

RunnerInit ==
    /\ runPc = "before" /\ shutdown = FALSE
    /\ planned = {} /\ remaining = {}
    /\ life = [w \in Worker |-> IF w \in Initial THEN "ready" ELSE "absent"]
    /\ told = [w \in Worker |-> FALSE]
    /\ toCancel = [w \in Worker |-> 0]
    /\ ends = [w \in Worker |-> "none"]
    /\ awaited = [w \in Worker |-> {}]
    /\ early = {}

\* The dispatch tasks of the bus run.
BusRuns == runPc # "before"

\* Messages to the subscribers among the targets.
SendCancel(targets) ==
    toCancel' = [w \in Worker |->
                    IF w \in targets \cap Entered THEN toCancel[w] + 1
                                                  ELSE toCancel[w]]

SendEnd(targets, own) ==
    ends' = [w \in Worker |-> IF w \in targets \cap Entered THEN "sent"
                              ELSE own[w]]

\* shutdown is set before run() ends the workers for another reason.
RunIsToEnd(workers) ==
    early' = IF runPc \in {"starting", "setup", "waiting"} THEN workers ELSE early

-----------------------------------------------------------------------------
(* Adding workers.                                                         *)

\* The program calls add_workers() of the runner, which waits for the worker to
\* subscribe if the bus runs.
AddRoot(w) ==
    /\ w \in Root /\ life[w] = "absent"
    /\ life' = [life EXCEPT ![w] = IF BusRuns THEN "attaching" ELSE "ready"]
    /\ UNCHANGED <<runVars, messageVars, early>>

\* A worker calls its own add_workers(): the child is on its list at once, and
\* the runner is asked to add it, if it listens to the bus yet.
AskForChild(w) ==
    /\ life[w] = "absent" /\ Parent[w] \in Worker
    /\ life[Parent[w]] \in {"ready", "running"}
    /\ life' = [life EXCEPT ![w] = IF runPc = "before" THEN "lost" ELSE "asked"]
    /\ UNCHANGED <<runVars, messageVars, early>>

\* The router task of the runner adds one child after the other.
BeginAttach(w) ==
    /\ BusRuns /\ life[w] = "asked"
    /\ \A v \in Worker \ Root : life[v] # "attaching"
    /\ life' = [life EXCEPT ![w] = "attaching"]
    /\ UNCHANGED <<runVars, messageVars, early>>

\* The worker is subscribed and becomes an entry, and it is started if the
\* runner is running.
Enter(w) ==
    /\ life[w] = "attaching"
    /\ life' = [life EXCEPT ![w] = IF runPc \in {"waiting", "gather"}
                                     THEN "running" ELSE "ready"]
    /\ UNCHANGED <<runVars, messageVars, early>>

-----------------------------------------------------------------------------
(* run().                                                                  *)

\* _setup_session() up to the start of the bus; the setup files may add workers.
BeginRun ==
    /\ runPc = "before"
    /\ runPc' = "starting"
    /\ UNCHANGED <<shutdown, planned, remaining, life, messageVars, early>>

\* Mutant: the loop goes over a copy of the entries.
SetupRound_Copy ==
    /\ runPc \in {"starting", "setup"}
    /\ planned' = IF runPc = "starting" THEN Entered ELSE planned
    /\ \/ \E w \in planned' \ Started :
             /\ life' = [life EXCEPT ![w] = "running"]
             /\ runPc' = "setup"
       \/ /\ planned' \subseteq Started
          /\ runPc' = "waiting"
          /\ UNCHANGED life
    /\ UNCHANGED <<shutdown, remaining, messageVars, early>>

\* A round of the loop over the entries there are when it begins.  It gives way to
\* other tasks after every start: it fails if there is a new entry, and the workers
\* that were started go on.
SetupRound ==
    /\ runPc \in {"starting", "setup"}
    /\ planned' = IF runPc = "starting" THEN Entered ELSE planned
    /\ \/ /\ Entered # planned'
          /\ runPc' = "failed"
          /\ UNCHANGED life
       \/ \E w \in planned' \ Started :
             /\ Entered = planned'
             /\ life' = [life EXCEPT ![w] = "running"]
             /\ runPc' = "setup"
       \/ /\ Entered = planned' /\ planned' \subseteq Started
          /\ runPc' = "waiting"
          /\ UNCHANGED life
    /\ UNCHANGED <<shutdown, remaining, messageVars, early>>

\* _cancel_spawned_tasks()
CancelRemaining ==
    /\ runPc = "waiting"
    /\ remaining' = Running
    /\ early' = IF shutdown THEN early ELSE Running
    /\ \/ /\ Running = {}
          /\ runPc' = "over"
          /\ UNCHANGED toCancel
       \/ /\ Running # {}
          /\ runPc' = "gather"
          /\ SendCancel(Root)
    /\ UNCHANGED <<shutdown, planned, life, told, ends, awaited>>

RunWakes == shutdown /\ CancelRemaining

\* The task of run() is cancelled while it starts the workers: it leaves run(), the
\* bus and the workers that were started go on.
SetupCancelled ==
    /\ runPc \in {"starting", "setup"}
    /\ runPc' = "failed"
    /\ UNCHANGED <<shutdown, planned, remaining, life, messageVars, early>>

\* It is cancelled in gather(), which cancels the tasks it waits for, and waits on.
GatherCancelled ==
    /\ runPc = "gather"
    /\ told' = [w \in Worker |-> told[w] \/ (w \in remaining /\ life[w] = "running")]
    /\ UNCHANGED <<runVars, life, toCancel, ends, awaited, early>>

\* It is cancelled while it waits for the end, which it takes for the end, or before
\* or after that.
RunCancelled == CancelRemaining \/ SetupCancelled \/ GatherCancelled

RunEnds ==
    /\ runPc = "gather" /\ remaining \cap Running = {}
    /\ runPc' = "over"
    /\ UNCHANGED <<shutdown, planned, remaining, life, messageVars, early>>

-----------------------------------------------------------------------------
(* end() and cancel(), called by the program, a signal handler, or because *)
(* a worker asked for it on the bus.                                       *)

End ==
    /\ BusRuns /\ ~shutdown
    /\ shutdown' = TRUE
    /\ RunIsToEnd(Running)
    /\ SendEnd(Root, ends)
    /\ UNCHANGED <<runPc, planned, remaining, life, told, toCancel, awaited>>

\* Mutant: a second call is not ignored.
Cancel_Again ==
    /\ BusRuns
    /\ shutdown' = TRUE
    /\ RunIsToEnd(Running)
    /\ SendCancel(Root)
    /\ UNCHANGED <<runPc, planned, remaining, life, told, ends, awaited>>

Cancel ==
    /\ BusRuns /\ ~shutdown
    /\ shutdown' = TRUE
    /\ RunIsToEnd(Running)
    /\ SendCancel(Root)
    /\ UNCHANGED <<runPc, planned, remaining, life, told, ends, awaited>>

-----------------------------------------------------------------------------
(* The workers.                                                            *)

\* stop(), or the frame that ends the pipeline; too late for one that has ended.
TellToFinish(w) ==
    told' = [told EXCEPT ![w] = life[w] \in {"ready", "running"}]

\* Mutant: a worker that has ended has left the bus.
HandleCancel_Left(w) ==
    /\ BusRuns /\ toCancel[w] > 0 /\ life[w] # "done"
    /\ TellToFinish(w)
    /\ toCancel' = [v \in Worker |->
                       IF v = w THEN toCancel[v] - 1
                       ELSE IF v \in Children(w) \cap Entered
                              THEN toCancel[v] + 1 ELSE toCancel[v]]
    /\ UNCHANGED <<runVars, life, ends, awaited, early>>

\* _handle_worker_cancel, by the router task: the children are told first.  A
\* worker that has ended still listens.
HandleCancel(w) ==
    /\ BusRuns /\ toCancel[w] > 0
    /\ TellToFinish(w)
    /\ toCancel' = [v \in Worker |->
                       IF v = w THEN toCancel[v] - 1
                       ELSE IF v \in Children(w) \cap Entered
                              THEN toCancel[v] + 1 ELSE toCancel[v]]
    /\ UNCHANGED <<runVars, life, ends, awaited, early>>

\* _handle_worker_end, by the data task: the children are told, and then the
\* worker waits for them, also for those that were never added.
HandleEnd(w) ==
    /\ BusRuns /\ ends[w] = "sent"
    /\ awaited' = [awaited EXCEPT ![w] = Children(w)]
    /\ SendEnd(Children(w), [ends EXCEPT ![w] = "waiting"])
    /\ UNCHANGED <<runVars, life, told, toCancel, early>>

ChildrenEnded(w) ==
    /\ BusRuns /\ ends[w] = "waiting"
    /\ \A c \in awaited[w] : life[c] \in {"finished", "done"}
    /\ ends' = [ends EXCEPT ![w] = "none"]
    /\ awaited' = [awaited EXCEPT ![w] = {}]
    /\ TellToFinish(w)
    /\ UNCHANGED <<runVars, life, toCancel, early>>

\* _finished_event is set: the worker was told, or its work was done.
WorkerFinishes(w) ==
    /\ life[w] = "running"
    /\ life' = [life EXCEPT ![w] = "finished"]
    /\ told' = [told EXCEPT ![w] = FALSE]
    /\ UNCHANGED <<runVars, toCancel, ends, awaited, early>>

\* The end of _run_worker(): with auto_end, the last root that runs ends the run.
TaskEnds(w) ==
    /\ life[w] = "finished"
    /\ life' = [life EXCEPT ![w] = "done"]
    /\ shutdown' = \/ shutdown
                   \/ AutoEnd /\ w \in Root /\ Root \cap Running \subseteq {w}
    /\ \/ shutdown' /\ ~shutdown /\ RunIsToEnd(Running \ {w})
       \/ shutdown' = shutdown /\ UNCHANGED early
    /\ UNCHANGED <<runPc, planned, remaining, messageVars>>

-----------------------------------------------------------------------------

Adding(w) == BeginAttach(w) \/ Enter(w)
Messages(w) == HandleCancel(w) \/ HandleEnd(w) \/ ChildrenEnded(w)

\* Bound: what the workers do after run() has returned or failed is not followed.
Follows == runPc \notin {"over", "failed"}

RunnerNext ==
    /\ Follows
    /\ \/ BeginRun \/ SetupRound \/ RunWakes \/ RunCancelled \/ RunEnds
       \/ End \/ Cancel
       \/ \E w \in Worker :
             \/ AddRoot(w) \/ AskForChild(w) \/ Adding(w)
             \/ Messages(w) \/ WorkerFinishes(w) \/ TaskEnds(w)

RunnerSpec == RunnerInit /\ [][RunnerNext]_runnerVars

\* The steps that do not depend on the will of the program.
Obliged ==
    /\ Follows
    /\ \/ BeginRun \/ SetupRound \/ RunWakes \/ RunEnds
       \/ \E w \in Worker :
             \/ Adding(w) \/ Messages(w)
             \/ told[w] /\ WorkerFinishes(w)
             \/ TaskEnds(w)

\* The event loop runs every task that can go on, and a worker that has been
\* told to finish does, as PipelineWorker shows; nobody has to end the run.  No
\* step can be taken for ever, so that none of these is put off for ever.
RunnerFairness == WF_runnerVars(Obliged)

RunnerFairSpec == RunnerSpec /\ RunnerFairness

-----------------------------------------------------------------------------
(* Properties.                                                             *)

\* run() returns or fails when the run is to end, however it was ended, and whatever
\* the workers were doing: being started or added, waiting for their children, or gone
\* before their children were told.
RunReturns == shutdown ~> runPc \in {"over", "failed"}

\* A cancel message waits for the worker or for one above it in the tree: it is in
\* every set that has those who have one and, with a parent, its children.
OnItsWay(w) ==
    \A S \in SUBSET Worker :
        (/\ {v \in Worker : toCancel[v] > 0} \subseteq S
         /\ \A v \in Entered : Parent[v] \in S => v \in S)
            => w \in S

\* Why run() returns: each worker it waits for has ended, has been told to finish,
\* or a cancel message is on its way to it.  Those who pass it on may have ended, and
\* may have been cancelled before the worker was added.
CancelReaches ==
    runPc = "gather" =>
        \A w \in remaining :
            told[w] \/ life[w] \in {"finished", "done"} \/ OnItsWay(w)

\* A run that gets through its set-up forgets no worker, from its start to its end.
\* Every worker it has was started, whether it was added before run(), before the loop
\* over the entries, or after it; one that is added during the loop makes the set-up
\* fail, and nothing is said of a run that failed.  At the end run() waits for
\* all that ran when the run was to end, each of them has ended or learns of the end,
\* and none is left when run() has returned.
NoWorkerForgotten ==
    /\ runPc \in {"waiting", "gather"} => Entered = Started
    /\ runPc = "gather" => early \cap Running \subseteq remaining
    /\ CancelReaches
    /\ runPc = "over" => early \cap Running = {}

=============================================================================
