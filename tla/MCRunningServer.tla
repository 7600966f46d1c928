-------------------------- MODULE MCRunningServer ---------------------------
(* Small instances of RunningServer.                                       *)
EXTENDS RunningServer

CONSTANTS o1, o2, o3   \* model values
ThreeObjs == {o1, o2, o3}
=============================================================================
