--------------------------- MODULE MCMyServerAtl ---------------------------
(* Small instances of MyServerAtl.                                         *)
EXTENDS MyServerAtl, TLC

CONSTANTS c1, c2   \* model values

TwoClients == {c1, c2}
=============================================================================
