---------------------------- MODULE MCChatClient ----------------------------
(* Two tabs of different browsers. *)
EXTENDS ChatClient, TLC

MCBrowserOf == [t \in Tabs |-> IF t = "t1" THEN "b1" ELSE "b2"]
=============================================================================
