---------------------------- MODULE MCChatRooms ----------------------------
(* Two clients, one room besides "general", two passwords and topics.     *)
EXTENDS ChatRooms

MCClient == {1, 2}
=============================================================================
