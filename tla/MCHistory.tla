------------------------------ MODULE MCHistory ------------------------------
(* One conversation with a short log and pages of two messages.            *)
EXTENDS History
==============================================================================
