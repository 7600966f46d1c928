--------------------------- MODULE MCClientHandler ---------------------------
(* Small instances of ClientHandler.                                       *)
EXTENDS ClientHandler, TLC

CONSTANTS c1, c2   \* model values

TwoClients == {c1, c2}
OneFails == {c2}

(* How often they subscribe.                                               *)
OnceEach == [c \in TwoClients |-> 1]
TwiceAndOnce == [c \in TwoClients |-> IF c = c1 THEN 2 ELSE 1]
=============================================================================
