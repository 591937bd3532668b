----------------------------- MODULE MCJobGroup -----------------------------
(* Instances of JobGroup for TLC.                                          *)
EXTENDS JobGroup
=============================================================================
