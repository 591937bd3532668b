------------------------- MODULE MCParallelPipeline -------------------------
(* Instances of ParallelPipeline for TLC.                                  *)
EXTENDS ParallelPipeline
=============================================================================
