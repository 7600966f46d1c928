-------------------------- MODULE MCCoGetServerPID --------------------------
(* A small instance of CoGetServerPID: a byte has two values.              *)
EXTENDS CoGetServerPID

SmallAndLarge == {1, 2, 3, 6}   \* two PIDs fit a short, two are clamped
=============================================================================
