----------------------------- MODULE MCUserTurn -----------------------------
(* The user turns for TLC: MCUserTurn*.cfg give the constants. *)
EXTENDS UserTurn
=============================================================================
