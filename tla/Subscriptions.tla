---------------------------- MODULE Subscriptions ----------------------------
(***************************************************************************)
(* What IMyServer.Subscribe and .Unsubscribe promise (MyInterfaces.idl):   *)
(* every Subscribe adds one subscription of the calling client, every      *)
(* Unsubscribe takes one of its own away again, and nobody else's call     *)
(* changes how often a client is subscribed.                               *)
(***************************************************************************)
EXTENDS Naturals

CONSTANT Clients     \* the IMyClient callback objects
VARIABLE subscribed  \* how often each of them is subscribed

Init == subscribed = [c \in Clients |-> 0]

Subscribe(c) == subscribed' = [subscribed EXCEPT ![c] = @ + 1]

Unsubscribe(c) ==
  /\ subscribed[c] > 0
  /\ subscribed' = [subscribed EXCEPT ![c] = @ - 1]

Next == \E c \in Clients : Subscribe(c) \/ Unsubscribe(c)

Spec == Init /\ [][Next]_subscribed
=============================================================================
