--------------------------- MODULE MCChatSession ---------------------------
(* One request of POST /chat that repeats the message of a web socket turn, *)
(* a second turn, and everybody else once.                                  *)
EXTENDS ChatSession

CONSTANTS r1, s1, s2, ask1, ask2

MCAskOf == (r1 :> ask1) @@ (s1 :> ask1) @@ (s2 :> ask2)
=============================================================================
