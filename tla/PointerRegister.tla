--------------------------- MODULE PointerRegister ---------------------------
(***************************************************************************)
(* What ComMarshal promises: one interface pointer that threads assign and *)
(* get.  Each operation takes effect at one moment.                        *)
(***************************************************************************)
CONSTANTS Threads, Ptrs, Null

VARIABLES
  value,  \* the pointer
  got     \* what the last Get() of each thread has returned

Pointers == Ptrs \cup {Null}

Init == value = Null /\ got = [t \in Threads |-> Null]

Assign(p) == value' = p /\ UNCHANGED got
Get(t) == got' = [got EXCEPT ![t] = value] /\ UNCHANGED value

Next == (\E p \in Pointers : Assign(p)) \/ (\E t \in Threads : Get(t))

Spec == Init /\ [][Next]_<<value, got>>
=============================================================================
