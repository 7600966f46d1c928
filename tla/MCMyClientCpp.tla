--------------------------- MODULE MCMyClientCpp ---------------------------
(* A small instance of MyClientCpp and the ServerModule below it.          *)
EXTENDS MyClientCpp

CONSTANTS me, other, s1, s2, n1  \* model values

TwoClients     == {me, other}
TwoServers     == {s1, s2}
OneCruncher    == {n1}
=============================================================================
