---------------------------- MODULE MCEventStream ----------------------------
(* EventStream for TLC; its bounds are in the configuration. *)
EXTENDS EventStream
=============================================================================
