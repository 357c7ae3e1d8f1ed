--------------------------- MODULE MCChatSession ---------------------------
(* Requests of two clients on one conversation id.                         *)
EXTENDS ChatSession

CONSTANTS alice, bob, chat1, chat2, stream1, delete1, delete2

AllClients == {alice, bob}

\* bob's chat2 competes with alice's requests for the id.
MCClientOf == [r \in Requests |-> IF r = chat2 THEN bob ELSE alice]
=============================================================================
