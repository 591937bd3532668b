-------------------------- MODULE MCPipelineWorker --------------------------
(* Instances of PipelineWorker for TLC; the configurations pick the requests. *)
EXTENDS PipelineWorker
=============================================================================
