---------------------------- MODULE MCChatInput ----------------------------
(* Two conversations, one file.                                            *)
EXTENDS ChatInput
=============================================================================
