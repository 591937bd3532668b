------------------------ MODULE MCWebsocketService -------------------------
(* The shared connection for TLC, with the bounds of MCWebsocketService*.cfg. *)
EXTENDS WebsocketService
=============================================================================
