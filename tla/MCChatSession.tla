-------------------------- MODULE MCChatSession --------------------------
(* Small instances of ChatSession: three sends in up to two chats.          *)
EXTENDS ChatSession

CONSTANTS first, second, third, chatA, chatB

TwoSends == {first, second}
ThreeSends == {first, second, third}
MCChats == {chatA, chatB}

AllChat == [s \in Sends |-> "chat"]
OneEach == [s \in Sends |-> CASE s = first -> "chat" [] s = second -> "ask" [] OTHER -> "event"]
=============================================================================
