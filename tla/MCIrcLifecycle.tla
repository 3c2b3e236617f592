--------------------------- MODULE MCIrcLifecycle ---------------------------
(* Small instances of IrcLifecycle for TLC. *)
EXTENDS IrcLifecycle, TLC

(* The user never takes back the wish to be connected. *)
Connecting == {"start", "connect"}
=============================================================================
