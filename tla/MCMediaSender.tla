--------------------------- MODULE MCMediaSender ----------------------------
(* The media sender for TLC: MCMediaSender*.cfg give the constants. *)
EXTENDS MediaSender
=============================================================================
