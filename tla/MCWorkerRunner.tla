---------------------------- MODULE MCWorkerRunner ----------------------------
(* A worker the program adds before run(), its child, and a worker the     *)
(* program adds later.                                                     *)
EXTENDS WorkerRunner, TLC

CONSTANTS a, late, child

Parents ==
    (a :> NoWorker) @@ (late :> NoWorker) @@ (child :> a)

MCParent == [w \in Worker |-> Parents[w]]

=============================================================================
