-------------------------- MODULE MCFunctionCalls ---------------------------
(* Function calls for TLC: batches of the sizes that MCFunctionCalls*.cfg  *)
(* choose, the calls numbered in order.                                    *)
EXTENDS FunctionCalls

CONSTANT First   \* bound: the number of calls in the first batch

MCBatch == [c \in 1..N |-> IF c <= First THEN 1 ELSE 2]
=============================================================================
