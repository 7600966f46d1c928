---------------------------- MODULE ClientHandler ----------------------------
(***************************************************************************)
(* The C# server object of MyExeServerCs/MyServerImpl.cs, also compiled    *)
(* into MyDllServerCs: the subscription list m_clients of ClientHandler,   *)
(* the RPC threads that run MyServerImpl.Subscribe and .Unsubscribe, the   *)
(* "COM MTA" task that broadcasts to the list, and the finalizer that      *)
(* closes the handler.  Nothing in the source locks the list, so every     *)
(* access of the shared state is a step of its own.                        *)
(*                                                                         *)
(* m_clients is a System.Collections.Generic.List: `items' are the slots   *)
(* of its array (counted from 0) and `size' is its Count.  Add stores the  *)
(* Count and then the slot.  RemoveAt checks the index against the Count,  *)
(* stores the Count, shifts the tail left and clears the vacated slot; at  *)
(* each of these steps it uses the Count it has or reads the field again.  *)
(* The list does not promise anything to threads that edit it at once;     *)
(* these are the outcomes of its code: two overlapping RemoveAt take the   *)
(* Count of a list with one entry to -1, and the index checks, which       *)
(* compare unsigned numbers, let every index pass then.  The copy of the   *)
(* tail is one step, and the array does not grow to hold more than MaxList.*)
(***************************************************************************)
EXTENDS Integers, FiniteSets

CONSTANTS
  Clients,    \* IMyClient callback objects, each with a thread that calls
  MaxSubs,    \* bound, of each client: how often it calls Subscribe
  MaxList,    \* bound: slots of the list
  Apartment,  \* "MTA" or "STA", the attribute of Program.Main
  Failing,    \* the clients that may disconnect or fail an XmitMessage call
  COM_MTA,    \* the thread of the broadcast task
  Null        \* the null reference

(* A registration <<c, n>> is the list entry of client c's n-th Subscribe. *)
Regs == Clients \X Nat
Slots == 0 .. MaxList - 1
Owner(r) == r[1]
Threads == Clients \cup {COM_MTA}

ASSUME ListAssumption == /\ MaxSubs \in [Clients -> Nat]
                         /\ MaxList \in Nat
                         /\ Null \notin Regs
ASSUME ClientAssumption == /\ Apartment \in {"MTA", "STA"}
                           /\ Failing \subseteq Clients
                           /\ COM_MTA \notin Clients

VARIABLES
  items, size,  \* m_clients: the slots of the list and its Count
  edit,         \* of each thread: where it is in Add, Remove or RemoveAt,
  at, count,    \* its index there and the Count it has read
  torn,         \* history: two of these calls have overlapped
  subs,         \* Subscribe calls each client has made
  holders,      \* clients that hold a reference to the server object
  alive,        \* clients whose process runs
  active,       \* m_active
  task,         \* where the broadcast task m_task is
  i, cur,       \* BroadcastMessage: its index and its local `client'
  sent,         \* history: the registrations called in this broadcast
  fin           \* where the finalizer ~MyServerImpl is

listVars == <<items, size>>
editVars == <<edit, at, count, torn>>
taskVars == <<task, i, cur, sent>>
vars == <<listVars, editVars, subs, holders, alive, active, taskVars, fin>>

Init ==
  /\ items = [k \in Slots |-> Null] /\ size = 0
  /\ edit = [t \in Threads |-> "none"]
  /\ at = [t \in Threads |-> 0] /\ count = [t \in Threads |-> 0]
  /\ torn = FALSE
  /\ subs = [c \in Clients |-> 0]
  /\ holders = Clients
  /\ alive = Clients
  /\ active = TRUE
  /\ task = "While" /\ i = 0 /\ cur = Null /\ sent = {}
  /\ fin = "none"

-----------------------------------------------------------------------------
(* The list.                                                               *)

Listed(c) == {k \in 0 .. size - 1 : items[k] # Null /\ Owner(items[k]) = c}

(* The index check of RemoveAt and of m_clients[k], (uint)k < (uint)_size. *)
InCount(k) == k < size \/ size < 0

(* A thread enters Add, Remove or RemoveAt.                                *)
BeginEdit(t, step, k, n) ==
  /\ edit' = [edit EXCEPT ![t] = step]
  /\ at' = [at EXCEPT ![t] = k]
  /\ count' = [count EXCEPT ![t] = n]
  /\ torn' = (torn \/ \E u \in Threads \ {t} : edit[u] # "none")

Continue(t, step) ==
  /\ edit' = [edit EXCEPT ![t] = step]
  /\ UNCHANGED <<at, count, torn>>

EndEdit(t) ==
  /\ edit' = [edit EXCEPT ![t] = "none"]
  /\ at' = [at EXCEPT ![t] = 0]
  /\ count' = [count EXCEPT ![t] = 0]
  /\ UNCHANGED torn

(* Add has read the Count; it stores the Count and then the slot.  On a    *)
(* negative Count it takes a new array, to which it copies nothing, and    *)
(* throws at the slot.                                                     *)
AddSize(c) ==
  /\ edit[c] = "AddSize"
  /\ size' = count[c] + 1
  /\ items' = IF count[c] < 0 THEN [k \in Slots |-> Null] ELSE items
  /\ Continue(c, "AddStore")
  /\ UNCHANGED <<subs, holders, alive, active, taskVars, fin>>

AddStore(c) ==
  /\ edit[c] = "AddStore"
  /\ items' = [k \in Slots |-> IF k = count[c] THEN <<c, subs[c]>> ELSE items[k]]
  /\ EndEdit(c)
  /\ UNCHANGED <<size, subs, holders, alive, active, taskVars, fin>>

(* RemoveAt reads the Count again: nothing makes it keep the value.        *)
Reread(t) ==
  /\ edit[t] \in {"RemoveSize", "RemoveShift", "RemoveClear"}
  /\ count[t] # size
  /\ count' = [count EXCEPT ![t] = size]
  /\ UNCHANGED <<listVars, edit, at, torn, subs, holders, alive, active, taskVars, fin>>

(* RemoveAt has checked the index against the Count: _size--, ...          *)
RemoveSize(t) ==
  /\ edit[t] = "RemoveSize"
  /\ size' = count[t] - 1
  /\ edit' = [edit EXCEPT ![t] = "RemoveShift"]
  /\ count' = [count EXCEPT ![t] = @ - 1]
  /\ UNCHANGED <<items, at, torn, subs, holders, alive, active, taskVars, fin>>

(* An exception of a call goes to the client as an HRESULT; one of the     *)
(* catch block leaves BroadcastMessage.                                    *)
RemoveEnds(t, throws) ==
  /\ EndEdit(t)
  /\ task' = IF t # COM_MTA THEN task ELSE IF throws THEN "Faulted" ELSE "For"

(* ... Array.Copy of what is behind the index, which throws if an          *)
(* overlapping Add has filled the array, ...                               *)
Shifted(k, n) ==
  [j \in Slots |-> IF k <= j /\ j < n THEN items[j + 1] ELSE items[j]]

RemoveShift(t) ==
  /\ edit[t] = "RemoveShift"
  /\ \/ /\ count[t] \in Slots \/ count[t] <= at[t]
        /\ items' = Shifted(at[t], count[t])
        /\ Continue(t, "RemoveClear")
        /\ UNCHANGED task
     \/ /\ count[t] \notin Slots /\ count[t] > at[t]
        /\ RemoveEnds(t, TRUE)
        /\ UNCHANGED items
  /\ UNCHANGED <<size, subs, holders, alive, active, i, cur, sent, fin>>

(* ... _items[_size] = default, which throws outside the array.            *)
RemoveClear(t) ==
  /\ edit[t] = "RemoveClear"
  /\ items' = [j \in Slots |-> IF j = count[t] THEN Null ELSE items[j]]
  /\ RemoveEnds(t, count[t] \notin Slots)
  /\ UNCHANGED <<size, subs, holders, alive, active, i, cur, sent, fin>>

RemoveAt(t) == Reread(t) \/ RemoveSize(t) \/ RemoveShift(t) \/ RemoveClear(t)

-----------------------------------------------------------------------------
(* The RPC threads.  In a single-threaded apartment the COM runtime lets   *)
(* one incoming call run at a time, in a multi-threaded one they overlap.  *)

Serialized == Apartment = "STA"

CanCall(c) ==
  /\ c \in alive /\ c \in holders
  /\ edit[c] = "none"
  /\ Serialized => \A d \in Clients : edit[d] = "none"

(* Subscribe: List.Add reads the Count.                                    *)
Subscribe(c) ==
  /\ CanCall(c)
  /\ subs[c] < MaxSubs[c] /\ size < MaxList
  /\ subs' = [subs EXCEPT ![c] = @ + 1]
  /\ BeginEdit(c, "AddSize", 0, size)
  /\ UNCHANGED <<listVars, holders, alive, active, taskVars, fin>>

(* Unsubscribe: List.Remove looks for the first entry of the client; a     *)
(* search that finds none, or throws on a negative Count, is not a step.   *)
Unsubscribe(c) ==
  /\ CanCall(c)
  /\ \E k \in Listed(c) :
       /\ \A j \in Listed(c) : k <= j
       /\ BeginEdit(c, "Found", k, 0)
  /\ UNCHANGED <<listVars, subs, holders, alive, active, taskVars, fin>>

(* ... and calls RemoveAt for the index, which throws if it is past the    *)
(* Count by now.                                                           *)
Found(c) ==
  /\ edit[c] = "Found"
  /\ \/ /\ InCount(at[c])
        /\ edit' = [edit EXCEPT ![c] = "RemoveSize"]
        /\ count' = [count EXCEPT ![c] = size]
        /\ UNCHANGED <<at, torn>>
     \/ ~InCount(at[c]) /\ EndEdit(c)
  /\ UNCHANGED <<listVars, subs, holders, alive, active, taskVars, fin>>

RpcThread(c) == AddSize(c) \/ AddStore(c) \/ Found(c) \/ RemoveAt(c)

-----------------------------------------------------------------------------
(* The clients.  A process that ends without an Unsubscribe leaves its     *)
(* entries behind; COM runs its references down like released ones.        *)

Disconnect(c) ==
  /\ c \in Failing \cap alive
  /\ alive' = alive \ {c}
  /\ UNCHANGED <<listVars, editVars, subs, holders, active, taskVars, fin>>

Release(c) ==
  /\ c \in holders /\ edit[c] = "none"
  /\ holders' = holders \ {c}
  /\ UNCHANGED <<listVars, editVars, subs, alive, active, taskVars, fin>>

-----------------------------------------------------------------------------
(* The broadcast task.                                                     *)

WhileMutant ==
  /\ task = "While"
  /\ task' = "Count"
  /\ UNCHANGED <<listVars, editVars, subs, holders, alive, active, i, cur, sent, fin>>
(* while (m_active)                                                        *)
While ==
  /\ task = "While"
  /\ task' = IF active THEN "Count" ELSE "Done"
  /\ UNCHANGED <<listVars, editVars, subs, holders, alive, active, i, cur, sent, fin>>

(* if (m_clients.Count > 0) BroadcastMessage(msg)                          *)
Count ==
  /\ task = "Count"
  /\ \/ /\ size > 0
        /\ task' = "For"
     \/ /\ size <= 0
        /\ task' = "Sleep"
  /\ UNCHANGED <<listVars, editVars, subs, holders, alive, active, i, cur, sent, fin>>

(* the loop condition i < m_clients.Count; i leaves its scope with the loop *)
For ==
  /\ task = "For"
  /\ \/ /\ i < size
        /\ task' = "Fetch" /\ UNCHANGED <<i, sent>>
     \/ /\ i >= size
        /\ task' = "Sleep" /\ i' = 0 /\ sent' = {}
  /\ UNCHANGED <<listVars, editVars, subs, holders, alive, active, cur, fin>>

(* client = m_clients[i], which throws past the Count, and the start of    *)
(* client.XmitMessage(msg), which throws on a null reference.  BroadcastM- *)
(* essage catches neither, and ComTask turns both into a faulted task.     *)
CallableMutant(k) == InCount(k) /\ k \in Slots
Callable(k) == InCount(k) /\ k \in Slots /\ items[k] # Null
Fetch ==
  /\ task = "Fetch"
  /\ \/ /\ Callable(i)
        /\ cur' = items[i]
        /\ sent' = sent \cup {items[i]}
        /\ task' = "Call"
     \/ /\ ~Callable(i)
        /\ task' = "Faulted" /\ UNCHANGED <<cur, sent>>
  /\ UNCHANGED <<listVars, editVars, subs, holders, alive, active, i, fin>>

(* "advance to next index if call doesn't throw"                           *)
NextIndexMutant == i
NextIndex == i + 1

XmitReturns ==
  /\ task = "Call" /\ Owner(cur) \in alive
  /\ i' = NextIndex
  /\ task' = "For" /\ cur' = Null
  /\ UNCHANGED <<listVars, editVars, subs, holders, alive, active, sent, fin>>

XmitThrowsMutant ==
  /\ task = "Call" /\ (Owner(cur) \notin alive \/ Owner(cur) \in Failing)
  /\ task' = "Faulted"
  /\ UNCHANGED <<listVars, editVars, subs, holders, alive, active, i, cur, sent, fin>>
(* "throws InvalidCastException or COMException if client is disconnected";*)
(* a client that still runs may fail the call with the same effect.        *)
XmitThrows ==
  /\ task = "Call" /\ (Owner(cur) \notin alive \/ Owner(cur) \in Failing)
  /\ task' = "Catch"
  /\ UNCHANGED <<listVars, editVars, subs, holders, alive, active, i, cur, sent, fin>>

(* An HRESULT that .Net maps to another exception is caught by neither     *)
(* block and ends the task.                                                *)
XmitThrowsOther ==
  /\ task = "Call" /\ Owner(cur) \in alive \cap Failing
  /\ task' = "Faulted"
  /\ UNCHANGED <<listVars, editVars, subs, holders, alive, active, i, cur, sent, fin>>

(* The catch blocks: m_clients.RemoveAt(i), with i as it was before the    *)
(* call.  An exception thrown here leaves BroadcastMessage.                *)
CatchMutant ==
  /\ task = "Catch"
  /\ i' = i + 1 /\ task' = "For" /\ cur' = Null
  /\ UNCHANGED <<listVars, editVars, subs, holders, alive, active, sent, fin>>
ClearMutant ==
  /\ task = "Catch"
  /\ items' = [k \in Slots |-> Null] /\ size' = 0
  /\ task' = "For" /\ cur' = Null
  /\ UNCHANGED <<editVars, subs, holders, alive, active, i, sent, fin>>
Catch ==
  /\ task = "Catch"
  /\ \/ InCount(i) /\ task' = "Remove" /\ BeginEdit(COM_MTA, "RemoveSize", i, size)
     \/ ~InCount(i) /\ task' = "Faulted" /\ UNCHANGED editVars
  /\ cur' = Null
  /\ UNCHANGED <<listVars, subs, holders, alive, active, i, sent, fin>>

(* Thread.Sleep(2000)                                                      *)
Sleep ==
  /\ task = "Sleep"
  /\ task' = "While"
  /\ UNCHANGED <<listVars, editVars, subs, holders, alive, active, i, cur, sent, fin>>

Broadcaster ==
  \/ While \/ Count \/ For \/ Fetch
  \/ XmitReturns \/ XmitThrows \/ XmitThrowsOther \/ Catch
  \/ RemoveAt(COM_MTA) \/ Sleep

-----------------------------------------------------------------------------
(* ~MyServerImpl, once no client holds the object and no call is in it:    *)
(* ClientHandler.Close clears m_active and waits for the task.  Waiting    *)
(* for a faulted task throws, and a finalizer that throws ends the process.*)

Finalize ==
  /\ fin = "none" /\ holders = {} /\ \A c \in Clients : edit[c] = "none"
  /\ active' = FALSE
  /\ fin' = "Wait"
  /\ UNCHANGED <<listVars, editVars, subs, holders, alive, taskVars>>

CloseReturns ==
  /\ fin = "Wait"
  /\ \/ task = "Done" /\ fin' = "Closed"
     \/ task = "Faulted" /\ fin' = "Crashed"
  /\ UNCHANGED <<listVars, editVars, subs, holders, alive, active, taskVars>>

(* The object is gone.                                                     *)
Terminating == fin \in {"Closed", "Crashed"} /\ UNCHANGED vars

-----------------------------------------------------------------------------

Next ==
  \/ \E c \in Clients : \/ Subscribe(c) \/ Unsubscribe(c) \/ RpcThread(c)
                        \/ Disconnect(c) \/ Release(c)
  \/ Broadcaster
  \/ Finalize \/ CloseReturns \/ Terminating

Spec == Init /\ [][Next]_vars

(* A client that runs owes no answer to an XmitMessage call, and the call  *)
(* has no timeout.  The call to one that is gone ends with an RPC error.   *)
Unanswered == task = "Call" /\ Owner(cur) \in alive

(* Threads that can run are scheduled, and a wait for a task that has ended*)
(* returns.  Clients, in a call or not, and the garbage collector owe      *)
(* nobody a step.                                                          *)
FairSpec ==
  /\ Spec
  /\ \A c \in Clients : WF_vars(RpcThread(c))
  /\ WF_vars(~Unanswered /\ Broadcaster)
  /\ WF_vars(CloseReturns)

-----------------------------------------------------------------------------
(* Properties.                                                             *)

(* A Count: overlapping removals take it below zero.                       *)
Counts == {n \in Int : n <= MaxList}

(* Every variable holds a value of its type; the indices the threads hold  *)
(* stay within the array and no Count they hold passes its end, however    *)
(* stale they are.                                                         *)
TypeOK ==
  /\ items \in [Slots -> Regs \cup {Null}]
  /\ size \in Counts
  /\ edit \in [Threads -> {"none", "AddSize", "AddStore", "Found", "RemoveSize",
                           "RemoveShift", "RemoveClear"}]
  /\ at \in [Threads -> 0 .. MaxList] /\ count \in [Threads -> Counts]
  /\ torn \in BOOLEAN
  /\ subs \in [Clients -> Nat] /\ \A c \in Clients : subs[c] <= MaxSubs[c]
  /\ holders \subseteq Clients /\ alive \subseteq Clients
  /\ active \in BOOLEAN
  /\ task \in {"While", "Count", "For", "Fetch", "Call", "Catch", "Remove",
               "Sleep", "Done", "Faulted"}
  /\ i \in 0 .. MaxList
  /\ cur \in Regs \cup {Null}
  /\ sent \subseteq Regs
  /\ fin \in {"none", "Wait", "Closed", "Crashed"}

(* However Subscribe, Unsubscribe and the catch blocks shift the list under*)
(* the loop of BroadcastMessage, one broadcast never calls one             *)
(* registration twice, unless two edits of the list overlap and one of     *)
(* them leaves a registration in two slots.                                *)
CalledOncePerRound ==
  [][task = "Fetch" /\ task' = "Call" /\ ~torn => cur' \notin sent]_vars

(* ClientHandler.Close returns, with or without an exception, unless some  *)
(* client never answers its XmitMessage call: m_task.Wait() has no timeout *)
(* and nothing but that call can keep the task, so the finalizer thread is *)
(* never stuck for another reason.                                         *)
CloseTerminates ==
  fin = "Wait" ~> (fin \in {"Closed", "Crashed"} \/ []Unanswered)

(* "disconnected clients are automatically unsubscribed"                   *)
(* (MyInterfaces.idl:104), in as far as the code keeps it: a client that   *)
(* is gone ends up without entries for good, unless the broadcast task is  *)
(* over, or for ever in a call that a client does not answer.              *)
DisconnectedDropped ==
  \A c \in Clients :
    c \notin alive ~> ( \/ [](Listed(c) = {} \/ task \in {"Done", "Faulted"})
                       \/ []Unanswered )

(* "Will disconnect clients on RPC failure" (MyServerImpl.cs:49): the entry*)
(* a catch block goes to remove is the one whose call failed, if it is     *)
(* still there.                                                            *)
DisconnectsTheFailedClient ==
  [][task = "Catch" /\ task' = "Remove" /\ (\E k \in 0 .. size - 1 : items[k] = cur)
       => items[i] = cur]_vars

(* ... and what the code keeps of it: while edits do not overlap, a catch  *)
(* block goes to remove another entry only if that of the failed client has*)
(* moved towards the front during the call, or is gone.                    *)
RemovesCalledUnlessMoved ==
  [][task = "Catch" /\ task' = "Remove" /\ ~torn' =>
       \A k \in i .. size - 1 : items[k] = cur => k = i]_vars

(* While one call at a time edits the list and no client fails, m_clients  *)
(* is the bag of subscriptions that the interface promises.  A removal     *)
(* takes effect when the Count is stored, an addition with the slot.       *)
Entries ==
  IF \E t \in Threads : edit[t] = "RemoveShift"
    THEN 0 .. size \ {at[t] : t \in {u \in Threads : edit[u] = "RemoveShift"}}
    ELSE 0 .. size - 1
Subscribed(c) ==
  Cardinality({k \in Entries : items[k] # Null /\ Owner(items[k]) = c})

Bag == INSTANCE Subscriptions WITH
         subscribed <- [c \in Clients |-> Subscribed(c)]
ImplementsSubscriptions == Bag!Spec

(* In either apartment, and with clients that fail, m_clients stays that   *)
(* bag until two edits of the list overlap, with a broadcast reading it all*)
(* the time: an entry that a catch block removes counts as an Unsubscribe  *)
(* of the client whose entry it is.                                        *)
BagUntilTorn ==
  /\ Bag!Init
  /\ [][torn' \/ Bag!Next \/ UNCHANGED [c \in Clients |-> Subscribed(c)]]_vars

(* As long as edits do not overlap each other, the broadcast task ends with*)
(* an exception for one of three reasons only: a client's HRESULT that it  *)
(* does not catch, a removal after the loop condition that took the last   *)
(* entry from under its index, or an Add that has stored the Count and not *)
(* yet the slot at its index.                                              *)
FaultsForReason ==
  [][task # "Faulted" /\ task' = "Faulted" /\ ~torn' =>
       \/ XmitThrowsOther
       \/ i >= size
       \/ i = size - 1 /\ \E c \in Clients : edit[c] = "AddStore"]_vars
=============================================================================
