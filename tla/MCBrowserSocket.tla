--------------------------- MODULE MCBrowserSocket ---------------------------
(* BrowserSocket for TLC; its bounds are in the configurations. *)
EXTENDS BrowserSocket
=============================================================================
