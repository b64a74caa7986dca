--------------------------- MODULE MCConversation ---------------------------
(* Constants for the Conversation run are numbers and stand in its .cfg.     *)
EXTENDS Conversation
=============================================================================
