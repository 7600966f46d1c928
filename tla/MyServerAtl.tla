----------------------------- MODULE MyServerAtl -----------------------------
(***************************************************************************)
(* The C++ server object of MyExeServerAtl/MyServerImpl.hpp, also compiled *)
(* into MyDllServerAtl: RPC threads of a multi-threaded apartment edit the *)
(* std::vector m_clients, and the thread of ThreadStart walks it with an   *)
(* iterator that it keeps across each XmitMessage call.                    *)
(*                                                                         *)
(* An iterator is a position in one buffer of the vector: push_back into a *)
(* full buffer moves the elements to a new one and frees the old.  Use of  *)
(* a freed buffer, of a position behind the elements or of a vector that   *)
(* another thread is editing is undefined: the object is `undefined' from  *)
(* then on and nothing more is said of it.                                 *)
(***************************************************************************)
EXTENDS Integers, Sequences, SequencesExt, FiniteSets

CONSTANTS
  Clients,  \* IMyClient callback objects, each with a thread that calls
  MaxSubs,  \* bound: how often each of them calls Subscribe
  Failing,  \* the clients whose XmitMessage may fail
  NoReg     \* no registration

(* A registration <<c, n>> is the element of client c's n-th Subscribe.    *)
Regs == Clients \X (1 .. MaxSubs)
Owner(r) == r[1]

ASSUME AtlAssumption ==
  MaxSubs \in Nat /\ Failing \subseteq Clients /\ NoReg \notin Regs

VARIABLES
  m_clients, capacity, buffer, \* the vector, its capacity and buffer number
  rpc, subs,   \* of each client's thread: its edit, and its Subscribe calls
  holders,     \* clients that hold a reference to the object
  m_active,
  thread,      \* where ThreadStart is
  it, itBuffer,\* the iterator: its position, counted from 1, and its buffer
  cur, hr,     \* the registration that is called, and what its call returned
  sent,        \* history: the registrations called in this broadcast
  raced,       \* history: an edit began or ended during this broadcast
  object       \* "alive", "joining" in the destructor, "gone" or "undefined"

vectorVars == <<m_clients, capacity, buffer>>
rpcVars    == <<rpc, subs>>
loopVars   == <<it, itBuffer, cur, hr, sent>>
vars == <<vectorVars, rpcVars, holders, m_active, thread, loopVars, raced, object>>

Init ==
  /\ m_clients = <<>> /\ capacity = 0 /\ buffer = 0
  /\ rpc = [c \in Clients |-> "idle"] /\ subs = [c \in Clients |-> 0]
  /\ holders = Clients
  /\ m_active = TRUE
  /\ thread = "While"
  /\ it = 0 /\ itBuffer = 0 /\ cur = NoReg /\ hr = "S_OK" /\ sent = {}
  /\ raced = FALSE
  /\ object = "alive"

Defined == object # "undefined"
Editing == \E c \in Clients : rpc[c] # "idle"
Broadcasting == thread \in {"For", "Fetch", "Call", "Catch"}

-----------------------------------------------------------------------------
(* The RPC threads.  An edit of the vector takes time: it begins and ends. *)

CanCall(c) == object = "alive" /\ c \in holders /\ rpc[c] = "idle"

(* Another edit in progress makes an edit undefined.                       *)
BeginEdit(c, op) ==
  /\ rpc' = [rpc EXCEPT ![c] = op]
  /\ raced' = (raced \/ Broadcasting)
  /\ object' = IF Editing THEN "undefined" ELSE object

Subscribe(c) ==
  /\ CanCall(c) /\ subs[c] < MaxSubs
  /\ subs' = [subs EXCEPT ![c] = @ + 1]
  /\ BeginEdit(c, "push_back")
  /\ UNCHANGED <<vectorVars, holders, m_active, thread, loopVars>>

(* Visual C++ grows a full vector by half.                                 *)
Grown(n) == IF n < 2 THEN n + 1 ELSE n + n \div 2

EndEdit(c) ==
  /\ rpc' = [rpc EXCEPT ![c] = "idle"]
  /\ raced' = (raced \/ Broadcasting)
  /\ UNCHANGED <<subs, holders, m_active, thread, loopVars, object>>

PushBack(c) ==
  /\ Defined /\ rpc[c] = "push_back"
  /\ m_clients' = Append(m_clients, <<c, subs[c]>>)
  /\ IF Len(m_clients) < capacity
       THEN UNCHANGED <<capacity, buffer>>
       ELSE capacity' = Grown(capacity) /\ buffer' = buffer + 1
  /\ EndEdit(c)

(* The search for a client that is not subscribed ends in E_FAIL and is    *)
(* not a step.                                                             *)
Positions(c) == {k \in 1 .. Len(m_clients) : Owner(m_clients[k]) = c}
Unsubscribe(c) ==
  /\ CanCall(c) /\ Positions(c) # {}
  /\ BeginEdit(c, "erase")
  /\ UNCHANGED <<vectorVars, subs, holders, m_active, thread, loopVars>>

Erase(c) ==
  /\ Defined /\ rpc[c] = "erase"
  /\ \E k \in Positions(c) :
       /\ \A j \in Positions(c) : k <= j
       /\ m_clients' = RemoveAt(m_clients, k)
  /\ UNCHANGED <<capacity, buffer>>
  /\ EndEdit(c)

RpcThread(c) == PushBack(c) \/ Erase(c)

(* The last reference of a client goes; COM does it for one that has died. *)
Release(c) ==
  /\ Defined /\ c \in holders /\ rpc[c] = "idle"
  /\ holders' = holders \ {c}
  /\ UNCHANGED <<vectorVars, rpcVars, m_active, thread, loopVars, raced, object>>

-----------------------------------------------------------------------------
(* The thread.                                                             *)

At(pc) == Defined /\ thread = pc

(* An access of the vector while it is edited, or through an iterator that *)
(* is not good for it, is undefined.                                       *)
Undefined ==
  /\ object' = "undefined"
  /\ UNCHANGED <<vectorVars, rpcVars, holders, m_active, thread, loopVars, raced>>

Points == itBuffer = buffer /\ it <= Len(m_clients)
AtEnd  == itBuffer = buffer /\ it = Len(m_clients) + 1

WhileMutant ==
  /\ At("While")
  /\ thread' = "Size"
  /\ UNCHANGED <<vectorVars, rpcVars, holders, m_active, loopVars, raced, object>>
(* while (m_active)                                                        *)
While ==
  /\ At("While")
  /\ thread' = IF m_active THEN "Size" ELSE "Done"
  /\ UNCHANGED <<vectorVars, rpcVars, holders, m_active, loopVars, raced, object>>

(* m_clients.size() > 0, and m_clients.begin()                             *)
Size ==
  /\ At("Size")
  /\ \/ Editing /\ Undefined
     \/ /\ ~Editing /\ Len(m_clients) > 0
        /\ thread' = "For" /\ it' = 1 /\ itBuffer' = buffer
        /\ raced' = FALSE
        /\ UNCHANGED <<vectorVars, rpcVars, holders, m_active, cur, hr, sent, object>>
     \/ /\ ~Editing /\ Len(m_clients) = 0
        /\ thread' = "Sleep"
        /\ UNCHANGED <<vectorVars, rpcVars, holders, m_active, loopVars, raced, object>>

(* it != m_clients.end(): only the end itself ends the loop.               *)
For ==
  /\ At("For")
  /\ \/ Editing /\ Undefined
     \/ /\ ~Editing /\ AtEnd
        /\ thread' = "Sleep"
        /\ it' = 0 /\ itBuffer' = 0 /\ sent' = {}
        /\ UNCHANGED <<vectorVars, rpcVars, holders, m_active, cur, hr, raced, object>>
     \/ /\ ~Editing /\ ~AtEnd
        /\ thread' = "Fetch"
        /\ UNCHANGED <<vectorVars, rpcVars, holders, m_active, loopVars, raced, object>>

(* ( *it)->XmitMessage loads the pointer and calls it without a reference  *)
(* of its own.                                                             *)
Fetch ==
  /\ At("Fetch")
  /\ \/ (Editing \/ ~Points) /\ Undefined
     \/ /\ ~Editing /\ Points
        /\ cur' = m_clients[it] /\ sent' = sent \cup {m_clients[it]}
        /\ thread' = "Call"
        /\ UNCHANGED <<vectorVars, rpcVars, holders, m_active, it, itBuffer, hr, raced, object>>

(* The client may be released under its call.                              *)
UseAfterRelease ==
  /\ At("Call") /\ \A k \in 1 .. Len(m_clients) : m_clients[k] # cur
  /\ Undefined

(* it++, "advance to next element on success"                              *)
AdvanceMutant == it
Advance == it + 1
XmitReturns ==
  /\ At("Call")
  /\ it' = Advance /\ cur' = NoReg
  /\ thread' = "For"
  /\ UNCHANGED <<vectorVars, rpcVars, holders, m_active, itBuffer, hr, sent, raced, object>>

Errors == {"RPC_S_SERVER_UNAVAILABLE", "other"}
XmitThrowsMutant ==
  /\ At("Call") /\ Owner(cur) \in Failing
  /\ hr' \in Errors
  /\ thread' = "Catch" /\ it' = Advance
  /\ UNCHANGED <<vectorVars, rpcVars, holders, m_active, itBuffer, cur, sent, raced,
                 object>>
XmitThrows ==
  /\ At("Call") /\ Owner(cur) \in Failing
  /\ hr' \in Errors
  /\ thread' = "Catch"
  /\ UNCHANGED <<vectorVars, rpcVars, holders, m_active, it, itBuffer, cur, sent, raced,
                 object>>

(* it = m_clients.erase(it); continue                                      *)
AfterEraseMutant == it + 1
AfterErase == it
CatchErase ==
  /\ At("Catch") /\ hr = "RPC_S_SERVER_UNAVAILABLE"
  /\ \/ (Editing \/ ~Points) /\ Undefined
     \/ /\ ~Editing /\ Points
        /\ m_clients' = RemoveAt(m_clients, it)
        /\ it' = AfterErase /\ cur' = NoReg /\ hr' = "S_OK"
        /\ thread' = "For"
        /\ UNCHANGED <<capacity, buffer, rpcVars, holders, m_active, itBuffer, sent,
                       raced, object>>

(* Any other error is ignored, and the loop advances as after a success.   *)
CatchOther ==
  /\ At("Catch") /\ hr # "RPC_S_SERVER_UNAVAILABLE"
  /\ it' = Advance /\ cur' = NoReg /\ hr' = "S_OK"
  /\ thread' = "For"
  /\ UNCHANGED <<vectorVars, rpcVars, holders, m_active, itBuffer, sent, raced, object>>

Sleep ==
  /\ At("Sleep")
  /\ thread' = "While"
  /\ UNCHANGED <<vectorVars, rpcVars, holders, m_active, loopVars, raced, object>>

ThreadStart ==
  \/ While \/ Size \/ For \/ Fetch \/ UseAfterRelease
  \/ XmitReturns \/ XmitThrows \/ CatchErase \/ CatchOther \/ Sleep

-----------------------------------------------------------------------------
(* ~MyServerImpl, in the last Release: clears m_active, joins the thread.  *)
Destroy ==
  /\ object = "alive" /\ holders = {} /\ ~Editing
  /\ object' = "joining"
  /\ m_active' = FALSE
  /\ UNCHANGED <<vectorVars, rpcVars, holders, thread, loopVars, raced>>

Join ==
  /\ object = "joining" /\ thread = "Done"
  /\ object' = "gone"
  /\ UNCHANGED <<vectorVars, rpcVars, holders, m_active, thread, loopVars, raced>>

Terminating == object \in {"gone", "undefined"} /\ UNCHANGED vars

Next ==
  \/ \E c \in Clients : \/ Subscribe(c) \/ Unsubscribe(c) \/ RpcThread(c)
                        \/ Release(c)
  \/ ThreadStart \/ Destroy \/ Join \/ Terminating

Spec == Init /\ [][Next]_vars

(* Threads are scheduled.  A client owes no answer to XmitMessage, which   *)
(* the server calls without a timeout.                                     *)
FairSpec ==
  /\ Spec
  /\ \A c \in Clients : WF_vars(RpcThread(c))
  /\ WF_vars(ThreadStart /\ thread # "Call") /\ WF_vars(Join)

-----------------------------------------------------------------------------
(* Properties.                                                             *)

(* Every variable holds a value of its type.                               *)
TypeOK ==
  /\ m_clients \in Seq(Regs) /\ Len(m_clients) <= capacity
  /\ capacity \in Nat /\ buffer \in Nat
  /\ rpc \in [Clients -> {"idle", "push_back", "erase"}]
  /\ subs \in [Clients -> 0 .. MaxSubs]
  /\ holders \subseteq Clients
  /\ m_active \in BOOLEAN
  /\ thread \in {"While", "Size", "For", "Fetch", "Call", "Catch", "Sleep", "Done"}
  /\ it \in 0 .. capacity + 1 /\ itBuffer \in Nat
  /\ cur \in Regs \cup {NoReg} /\ hr \in Errors \cup {"S_OK"}
  /\ sent \subseteq Regs
  /\ raced \in BOOLEAN
  /\ object \in {"alive", "joining", "gone", "undefined"}

(* The walk of BroadcastMessage, which erases as it goes, is defined by    *)
(* itself: nothing is undefined unless an edit is going on or began or     *)
(* ended during the same broadcast.                                        *)
UndefinedOnlyByRace == object = "undefined" => raced \/ Editing

(* What is erased after RPC_S_SERVER_UNAVAILABLE is the client that was    *)
(* called, as long as no edit came into the same broadcast.                *)
ErasesCalledUnlessRaced ==
  [][CatchErase /\ ~raced => object' = "undefined" \/ m_clients[it] = cur]_vars

(* One broadcast calls no registration twice while all is defined, however *)
(* Unsubscribe shifts the vector under the iterator.                       *)
CalledOncePerRound ==
  [][thread = "Fetch" /\ thread' = "Call" => cur' \notin sent]_vars

(* A broadcast that no edit comes into calls every element of the vector,  *)
(* those behind the ones that its catch block erases too.                  *)
CallsAllUnlessRaced ==
  [][thread = "For" /\ thread' = "Sleep" /\ ~raced =>
       \A k \in 1 .. Len(m_clients) : m_clients[k] \in sent]_vars

(* While all is defined, m_clients is the bag of subscriptions that the    *)
(* interface promises, with any clients failing and the vector shifted     *)
(* under the iterator: an edit takes effect as a whole, and an element that*)
(* the catch block erases counts as an Unsubscribe of its client.          *)
Bag == INSTANCE Subscriptions WITH
         subscribed <- [c \in Clients |-> Cardinality(Positions(c))]
ImplementsSubscriptions == Bag!Spec

(* The last Release returns: the destructor's join ends, unless the thread *)
(* stays for ever in a call that a client does not answer.                 *)
DestructorReturns ==
  object = "joining" ~> object \in {"gone", "undefined"} \/ [](thread = "Call")
=============================================================================
