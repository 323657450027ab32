--------------------------- MODULE MCChatService -----------------------------
EXTENDS ChatService

CONSTANTS a, b

(* A subscription with two nodes.                                           *)
Two == {<<a, b>>}
==============================================================================
