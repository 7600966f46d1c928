---------------------------- MODULE MCComMarshal ----------------------------
(* A small instance of ComMarshal.                                         *)
EXTENDS ComMarshal

CONSTANTS t1, t2, t3, p1, p2  \* model values

ThreeThreads == {t1, t2, t3}
TwoPtrs      == {p1, p2}
=============================================================================
