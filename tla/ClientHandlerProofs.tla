------------------------- MODULE ClientHandlerProofs -------------------------
(***************************************************************************)
(* Proofs about ClientHandler for any number of clients, any bounds and    *)
(* both apartments.  The point is that a broadcast over the unlocked list  *)
(* never calls one registration twice as long as edits of the list do not  *)
(* overlap each other, although each of them overlaps with the broadcast:  *)
(* entries only ever move towards the front, so what a broadcast has       *)
(* called stays behind its index, in the middle of a removal too.  From    *)
(* that follows which entries a broadcast may fail on or remove, and that  *)
(* the list implements Subscriptions: until edits overlap, so for good in a*)
(* single-threaded apartment while no client fails.                        *)
(***************************************************************************)
EXTENDS ClientHandler, FiniteSetTheorems, TLAPS

(* Always: indices in use lie inside the array, and the broadcast task     *)
(* edits the list in its catch block only, at its own index.               *)
Bounds ==
  /\ \A t \in Threads :
       /\ edit[t] \in {"AddSize", "AddStore"} => t \in Clients /\ count[t] < MaxList
       /\ edit[t] = "Found" => t \in Clients
  /\ task \in {"Fetch", "Call", "Catch", "Remove"} => i < MaxList
  /\ edit[COM_MTA] # "none" => task = "Remove" /\ at[COM_MTA] = i

Unstored(c, n) ==
  n > subs[c] \/ (n = subs[c] /\ edit[c] \in {"AddSize", "AddStore"})

(* Always: a registration that no Add has stored is neither listed nor     *)
(* called.                                                                 *)
Fresh ==
  \A c \in Clients, n \in Nat : Unstored(c, n) =>
    /\ <<c, n>> \notin sent
    /\ \A k \in Slots : items[k] # <<c, n>>

(* While edits do not overlap: the Count is a natural number, there is one *)
(* edit at most, and what it has read of the Count still fits.             *)
Solo ==
  /\ size \in Nat
  /\ \A t, u \in Threads : edit[t] # "none" /\ edit[u] # "none" => t = u
  /\ \A t \in Threads :
       /\ edit[t] = "AddSize" => count[t] = size
       /\ edit[t] = "AddStore" => size = count[t] + 1 /\ items[count[t]] = Null
                                  /\ count[t] \in Nat
       /\ edit[t] = "RemoveSize" => count[t] = size /\ at[t] < size
       /\ edit[t] = "RemoveShift" => count[t] = size /\ at[t] <= size /\ size < MaxList
       /\ edit[t] = "RemoveClear" => count[t] = size

(* The slots that hold the list; between the first two steps of a removal  *)
(* there is one more of them than the Count says.                          *)
Live(k) == k < size \/ (k = size /\ \E t \in Threads : edit[t] = "RemoveShift")

(* The slots behind it are clear, but for the one a removal has to clear.  *)
Tail ==
  \A k \in Slots :
    k > size \/ (k = size /\ \A t \in Threads :
                               edit[t] \notin {"RemoveShift", "RemoveClear"})
      => items[k] = Null

(* No registration is in the list twice.                                   *)
Unique ==
  \A j, k \in Slots :
    Live(j) /\ Live(k) /\ items[j] = items[k] /\ items[j] # Null => j = k

(* What this broadcast has called is behind its index, or at it while the  *)
(* call runs and until a failed one is removed.                            *)
SentBehind ==
  /\ task \in {"While", "Count", "Sleep"} => sent = {}
  /\ \A k \in Slots : Live(k) /\ items[k] \in sent =>
       /\ task \in {"For", "Fetch"} => k < i
       /\ task \in {"Call", "Catch", "Remove"} => k <= i
       /\ edit[COM_MTA] = "RemoveClear" => k < i

TypeInv == TypeOK /\ Bounds /\ Fresh
SoloInv == ~torn => Solo /\ Tail /\ Unique /\ SentBehind
IndInv == TypeInv /\ SoloInv

-----------------------------------------------------------------------------

(* The invariant holds of an empty list.                                   *)
LEMMA InitInv == Init => IndInv
<1> SUFFICES ASSUME Init PROVE IndInv
  OBVIOUS
<1> USE ListAssumption, ClientAssumption DEF Init
<1>1. TypeOK
  <2>1. 0 \in 0 .. MaxList
    OBVIOUS
  <2>2. /\ edit \in [Threads -> {"none"}] /\ at \in [Threads -> 0 .. MaxList]
        /\ count \in [Threads -> Counts] /\ subs \in [Clients -> Nat]
        /\ items \in [Slots -> Regs \cup {Null}] /\ size \in Counts
        /\ i \in 0 .. MaxList
    BY <2>1 DEF Counts
  <2>3. \A c \in Clients : subs[c] <= MaxSubs[c]
    BY DEF Threads
  <2> QED
    BY <2>1, <2>2, <2>3 DEF TypeOK
<1>2. Bounds
  BY DEF Bounds, Threads
<1>3. Fresh
  BY DEF Fresh, Regs, Slots
<1>4. Solo /\ Tail
  BY DEF Solo, Tail
<1>5. Unique /\ SentBehind
  BY DEF Unique, SentBehind
<1> QED
  BY <1>1, <1>2, <1>3, <1>4, <1>5 DEF IndInv, TypeInv, SoloInv

(* Numbers are numbers, and slots do not go past the array.                *)
LEMMA Numbers ==
  ASSUME TypeOK
  PROVE  /\ MaxList \in Nat /\ size \in Int /\ size <= MaxList /\ i \in Nat
         /\ 0 \in 0 .. MaxList /\ 0 \in Counts
         /\ \A n : n \in Counts <=> n \in Int /\ n <= MaxList
         /\ \A t \in Threads : at[t] \in Nat /\ count[t] \in Int
                               /\ count[t] <= MaxList
         /\ \A k : k \in Slots <=> k \in Nat /\ k < MaxList
         /\ \A c \in Clients : subs[c] \in Nat /\ c \in Threads
         /\ COM_MTA \in Threads /\ Null \notin sent
         /\ Clients \subseteq Threads
  BY ListAssumption DEF TypeOK, Slots, Threads, Counts

-----------------------------------------------------------------------------
(* The RPC threads.                                                        *)

(* A call of Subscribe starts with a registration that is new.             *)
LEMMA SubscribeInv ==
  ASSUME IndInv, NEW c \in Clients, Subscribe(c)
  PROVE  IndInv'
<1> USE DEF IndInv, TypeInv
<1>1. /\ edit[c] = "none" /\ size < MaxList /\ subs[c] < MaxSubs[c]
      /\ subs' = [subs EXCEPT ![c] = @ + 1]
      /\ edit' = [edit EXCEPT ![c] = "AddSize"]
      /\ at' = [at EXCEPT ![c] = 0] /\ count' = [count EXCEPT ![c] = size]
      /\ torn' = (torn \/ \E u \in Threads \ {c} : edit[u] # "none")
      /\ UNCHANGED <<items, size, holders, alive, active, task, i, cur, sent, fin>>
  BY DEF Subscribe, CanCall, BeginEdit, listVars, taskVars
<1>2. c \in Threads /\ c # COM_MTA /\ size \in Counts /\ 0 \in 0 .. MaxList
  BY Numbers, ClientAssumption DEF TypeOK
<1>3. TypeOK'
  <2>1. subs' \in [Clients -> Nat] /\ \A d \in Clients : subs'[d] <= MaxSubs[d]
    <3>1. /\ subs \in [Clients -> Nat] /\ MaxSubs \in [Clients -> Nat]
          /\ \A d \in Clients : subs[d] <= MaxSubs[d]
          /\ subs[c] < MaxSubs[c] /\ subs' = [subs EXCEPT ![c] = @ + 1]
      BY <1>1, ListAssumption DEF TypeOK
    <3>2. subs' \in [Clients -> Nat]
      BY <3>1
    <3>3. ASSUME NEW d \in Clients PROVE subs'[d] <= MaxSubs[d]
      BY <3>1
    <3> QED
      BY <3>2, <3>3
  <2>2. /\ at' \in [Threads -> 0 .. MaxList] /\ count' \in [Threads -> Counts]
        /\ torn' \in BOOLEAN
    BY <1>1, <1>2 DEF TypeOK
  <2> QED
    BY <1>1, <1>2, <2>1, <2>2 DEF TypeOK
<1>4. Bounds'
  BY <1>1, <1>2 DEF TypeOK, Bounds
<1>5. Fresh'
  <2> SUFFICES ASSUME NEW d \in Clients, NEW n \in Nat, Unstored(d, n)'
               PROVE  Unstored(d, n)
    BY <1>1 DEF Fresh
  <2> QED
    BY <1>1, <1>2 DEF Unstored, TypeOK
<1>6. ASSUME ~torn' PROVE Solo' /\ Tail' /\ Unique' /\ SentBehind'
  <2>1. ~torn /\ size \in Nat /\ \A t \in Threads : edit[t] = "none"
    BY <1>1, <1>6 DEF TypeOK, SoloInv, Solo
  <2>2. \A t \in Threads : edit'[t] = IF t = c THEN "AddSize" ELSE "none"
    BY <1>1, <2>1 DEF TypeOK
  <2>3. Solo'
    BY <1>1, <1>2, <2>1, <2>2 DEF Solo, TypeOK
  <2>4. \A k : Live(k)' <=> Live(k)
    BY <1>1, <2>1, <2>2 DEF Live
  <2>5. Unique'
    BY <1>1, <2>1, <2>4 DEF SoloInv, Unique
  <2>6. Tail' /\ SentBehind'
    BY <1>1, <1>2, <2>1, <2>2, <2>4 DEF SoloInv, Tail, SentBehind
  <2> QED
    BY <2>3, <2>5, <2>6
<1> QED
  BY <1>3, <1>4, <1>5, <1>6 DEF SoloInv

(* Unsubscribe finds an index.                                             *)
LEMMA UnsubscribeInv ==
  ASSUME IndInv, NEW c \in Clients, Unsubscribe(c)
  PROVE  IndInv'
<1> USE DEF IndInv, TypeInv
<1>1. PICK k \in Listed(c) :
      /\ edit[c] = "none" /\ edit' = [edit EXCEPT ![c] = "Found"]
      /\ at' = [at EXCEPT ![c] = k] /\ count' = [count EXCEPT ![c] = 0]
      /\ torn' = (torn \/ \E u \in Threads \ {c} : edit[u] # "none")
      /\ UNCHANGED <<items, size, subs, holders, alive, active, task, i, cur, sent, fin>>
  BY DEF Unsubscribe, CanCall, BeginEdit, listVars, taskVars
<1>2. c \in Threads /\ c # COM_MTA /\ k \in 0 .. MaxList /\ 0 \in Counts
  BY <1>1, Numbers, ClientAssumption DEF TypeOK, Listed
<1>3. TypeOK'
  <2>1. /\ at' \in [Threads -> 0 .. MaxList] /\ count' \in [Threads -> Counts]
        /\ torn' \in BOOLEAN
    BY <1>1, <1>2 DEF TypeOK
  <2> QED
    BY <1>1, <1>2, <2>1 DEF TypeOK
<1>4. Bounds'
  BY <1>1, <1>2 DEF TypeOK, Bounds
<1>5. Fresh'
  BY <1>1, <1>2 DEF Fresh, Unstored, TypeOK
<1>6. ASSUME ~torn' PROVE Solo' /\ Tail' /\ Unique' /\ SentBehind'
  <2>1. ~torn /\ size \in Nat /\ \A t \in Threads : edit[t] = "none"
    BY <1>1, <1>6 DEF TypeOK, SoloInv, Solo
  <2>2. \A t \in Threads : edit'[t] = IF t = c THEN "Found" ELSE "none"
    BY <1>1, <2>1 DEF TypeOK
  <2>3. Solo'
    BY <1>1, <2>1, <2>2 DEF Solo
  <2>4. \A j : Live(j)' <=> Live(j)
    BY <1>1, <2>1, <2>2 DEF Live
  <2>5. Unique'
    BY <1>1, <2>1, <2>4 DEF SoloInv, Unique
  <2>6. Tail' /\ SentBehind'
    BY <1>1, <1>2, <2>1, <2>2, <2>4 DEF SoloInv, Tail, SentBehind
  <2> QED
    BY <2>3, <2>5, <2>6
<1> QED
  BY <1>3, <1>4, <1>5, <1>6 DEF SoloInv

(* List.Add, first step: the Count.                                        *)
LEMMA AddSizeInv ==
  ASSUME IndInv, NEW c \in Clients, AddSize(c)
  PROVE  IndInv'
<1> USE DEF IndInv, TypeInv
<1>1. /\ edit[c] = "AddSize" /\ size' = count[c] + 1
      /\ edit' = [edit EXCEPT ![c] = "AddStore"]
      /\ items' = IF count[c] < 0 THEN [k \in Slots |-> Null] ELSE items
      /\ UNCHANGED <<at, count, torn, subs, holders, alive, active, task, i,
                     cur, sent, fin>>
  BY DEF AddSize, Continue, taskVars
<1>2. c \in Threads /\ c # COM_MTA /\ count[c] \in Int /\ count[c] < MaxList
  BY <1>1, Numbers, ClientAssumption DEF Bounds
<1>3. TypeOK'
  <2>1. items' \in [Slots -> Regs \cup {Null}]
    BY <1>1 DEF TypeOK
  <2>2. size' \in Counts
    BY <1>1, <1>2, Numbers
  <2> QED
    BY <1>1, <2>1, <2>2 DEF TypeOK
<1>4. Bounds'
  BY <1>1, <1>2 DEF TypeOK, Bounds
<1>5. Fresh'
  <2>1. \A d \in Clients, n \in Nat : Unstored(d, n)' => Unstored(d, n)
    BY <1>1, <1>2 DEF Unstored, TypeOK
  <2>2. \A k \in Slots : items'[k] \in {items[k], Null}
    BY <1>1
  <2>3. \A d \in Clients, n \in Nat : <<d, n>> # Null
    BY ListAssumption DEF Regs
  <2> QED
    BY <1>1, <2>1, <2>2, <2>3 DEF Fresh
<1>6. ASSUME ~torn' PROVE Solo' /\ Tail' /\ Unique' /\ SentBehind'
  <2>1. /\ Solo /\ Tail /\ Unique /\ SentBehind
        /\ count[c] = size /\ size \in Nat /\ items' = items
    BY <1>1, <1>2, <1>6 DEF SoloInv, Solo
  <2>2. \A t \in Threads : /\ edit[t] = IF t = c THEN "AddSize" ELSE "none"
                           /\ edit'[t] = IF t = c THEN "AddStore" ELSE "none"
    BY <1>1, <1>2, <2>1 DEF Solo, TypeOK
  <2>3. size \in Slots /\ items[size] = Null
    BY <1>2, <2>1, <2>2, Numbers DEF Tail
  <2>4. Solo'
    BY <1>1, <1>2, <2>1, <2>2, <2>3 DEF Solo
  <2>5. \A k \in Slots : Live(k)' <=> Live(k) \/ k = size
    BY <1>1, <2>1, <2>2, Numbers DEF Live
  <2>6. Tail'
    BY <1>1, <2>1, <2>2, Numbers DEF Tail
  <2>7. Unique'
    BY <1>1, <2>1, <2>3, <2>5 DEF Unique
  <2>8. SentBehind'
    BY <1>1, <1>2, <2>1, <2>2, <2>3, <2>5, Numbers DEF SentBehind
  <2> QED
    BY <2>4, <2>6, <2>7, <2>8
<1> QED
  BY <1>3, <1>4, <1>5, <1>6 DEF SoloInv

(* List.Add, second step: the slot.                                        *)
LEMMA AddStoreInv ==
  ASSUME IndInv, NEW c \in Clients, AddStore(c)
  PROVE  IndInv'
<1> USE DEF IndInv, TypeInv
<1>1. /\ edit[c] = "AddStore"
      /\ items' = [k \in Slots |-> IF k = count[c] THEN <<c, subs[c]>> ELSE items[k]]
      /\ edit' = [edit EXCEPT ![c] = "none"]
      /\ at' = [at EXCEPT ![c] = 0] /\ count' = [count EXCEPT ![c] = 0]
      /\ UNCHANGED <<size, torn, subs, holders, alive, active, task, i, cur, sent, fin>>
  BY DEF AddStore, EndEdit, taskVars
<1>2. /\ c \in Threads /\ c # COM_MTA /\ count[c] \in Int /\ count[c] < MaxList
      /\ subs[c] \in Nat /\ 0 \in 0 .. MaxList /\ 0 \in Counts
  BY <1>1, Numbers, ClientAssumption DEF Bounds
<1>3. <<c, subs[c]>> \in Regs /\ <<c, subs[c]>> \notin sent
      /\ \A k \in Slots : items[k] # <<c, subs[c]>>
  BY <1>1, <1>2 DEF Fresh, Unstored, Regs
<1>4. \A k \in Slots : items'[k] = IF k = count[c] THEN <<c, subs[c]>> ELSE items[k]
  BY <1>1 DEF TypeOK
<1>5. TypeOK'
  <2>1. items' \in [Slots -> Regs \cup {Null}]
    BY <1>1, <1>3, <1>4 DEF TypeOK
  <2>2. /\ edit' \in [Threads -> {"none", "AddSize", "AddStore", "Found", "RemoveSize",
                                  "RemoveShift", "RemoveClear"}]
        /\ at' \in [Threads -> 0 .. MaxList] /\ count' \in [Threads -> Counts]
    BY <1>1, <1>2 DEF TypeOK
  <2> QED
    BY <1>1, <2>1, <2>2 DEF TypeOK
<1>6. Bounds'
  BY <1>1, <1>2 DEF TypeOK, Bounds
<1>7. Fresh'
  <2> SUFFICES ASSUME NEW d \in Clients, NEW n \in Nat, Unstored(d, n)'
               PROVE  /\ <<d, n>> \notin sent
                      /\ \A k \in Slots : items'[k] # <<d, n>>
    BY <1>1 DEF Fresh
  <2>1. Unstored(d, n) /\ <<d, n>> # <<c, subs[c]>>
    BY <1>1, <1>2 DEF Unstored, TypeOK
  <2> QED
    BY <1>4, <2>1 DEF Fresh
<1>8. ASSUME ~torn' PROVE Solo' /\ Tail' /\ Unique' /\ SentBehind'
  <2>1. Solo /\ Tail /\ Unique /\ SentBehind
    BY <1>1, <1>8 DEF SoloInv
  <2>2. \A t \in Threads : /\ edit[t] = IF t = c THEN "AddStore" ELSE "none"
                           /\ edit'[t] = "none"
    BY <1>1, <1>2, <2>1 DEF Solo, TypeOK
  <2>3. size = count[c] + 1 /\ count[c] \in Slots /\ size \in Nat
    BY <1>1, <1>2, <2>1, Numbers DEF Solo
  <2>4. Solo'
    BY <1>1, <2>2, <2>3 DEF Solo
  <2>5. \A k \in Slots : Live(k)' <=> Live(k)
    BY <1>1, <2>2 DEF Live
  <2>6. Tail'
    BY <1>1, <1>2, <1>4, <2>1, <2>2, <2>3, Numbers DEF Tail
  <2>7. Unique'
    BY <1>3, <1>4, <2>1, <2>5 DEF Unique
  <2>8. SentBehind'
    BY <1>1, <1>2, <1>3, <1>4, <2>1, <2>2, <2>5, Numbers DEF SentBehind
  <2> QED
    BY <2>4, <2>6, <2>7, <2>8
<1> QED
  BY <1>5, <1>6, <1>7, <1>8 DEF SoloInv

(* Remove has found an index and checks it against the Count.              *)
LEMMA FoundInv ==
  ASSUME IndInv, NEW c \in Clients, Found(c)
  PROVE  IndInv'
<1> USE DEF IndInv, TypeInv
<1>1. /\ edit[c] = "Found"
      /\ \/ /\ InCount(at[c]) /\ edit' = [edit EXCEPT ![c] = "RemoveSize"]
            /\ count' = [count EXCEPT ![c] = size] /\ at' = at
         \/ /\ edit' = [edit EXCEPT ![c] = "none"]
            /\ count' = [count EXCEPT ![c] = 0] /\ at' = [at EXCEPT ![c] = 0]
      /\ UNCHANGED <<items, size, torn, subs, holders, alive, active, task, i, cur,
                     sent, fin>>
  BY DEF Found, EndEdit, listVars, taskVars
<1>2. /\ c \in Threads /\ c # COM_MTA /\ at[c] \in Nat
      /\ size \in Counts /\ 0 \in 0 .. MaxList /\ 0 \in Counts
  BY <1>1, Numbers, ClientAssumption DEF TypeOK
<1>3. TypeOK'
  <2>1. /\ edit' \in [Threads -> {"none", "AddSize", "AddStore", "Found", "RemoveSize",
                                  "RemoveShift", "RemoveClear"}]
        /\ at' \in [Threads -> 0 .. MaxList] /\ count' \in [Threads -> Counts]
    BY <1>1, <1>2 DEF TypeOK
  <2> QED
    BY <1>1, <2>1 DEF TypeOK
<1>4. Bounds' /\ Fresh'
  <2>1. /\ \A t \in Threads : t # c =>
             edit'[t] = edit[t] /\ at'[t] = at[t] /\ count'[t] = count[t]
        /\ edit'[c] \in {"none", "RemoveSize"}
    BY <1>1, <1>2 DEF TypeOK
  <2>2. Bounds'
    BY <1>1, <1>2, <2>1, Numbers DEF Bounds
  <2>3. Fresh'
    <3> SUFFICES ASSUME NEW d \in Clients, NEW n \in Nat, Unstored(d, n)'
                 PROVE  Unstored(d, n)
      BY <1>1 DEF Fresh
    <3> QED
      BY <1>1, <2>1, Numbers DEF Unstored
  <2> QED
    BY <2>2, <2>3
<1>6. ASSUME ~torn' PROVE Solo' /\ Tail' /\ Unique' /\ SentBehind'
  <2>1. Solo /\ Tail /\ Unique /\ SentBehind
    BY <1>1, <1>6 DEF SoloInv
  <2>2. \A t \in Threads : /\ edit[t] = IF t = c THEN "Found" ELSE "none"
                           /\ t # c => edit'[t] = "none"
                           /\ edit'[c] \in {"none", "RemoveSize"}
    BY <1>1, <1>2, <2>1 DEF Solo, TypeOK
  <2>3. Solo'
    BY <1>1, <1>2, <2>1, <2>2 DEF Solo, TypeOK, InCount
  <2>4. \A k \in Slots : Live(k)' <=> Live(k)
    BY <1>1, <2>2 DEF Live
  <2>5. Tail'
    BY <1>1, <2>1, <2>2 DEF Tail
  <2>6. Unique'
    BY <1>1, <2>1, <2>4 DEF Unique
  <2>7. SentBehind'
    BY <1>1, <1>2, <2>1, <2>2, <2>4, Numbers DEF SentBehind
  <2> QED
    BY <2>3, <2>5, <2>6, <2>7
<1> QED
  BY <1>3, <1>4, <1>6 DEF SoloInv

-----------------------------------------------------------------------------
(* RemoveAt, by a thread of a client or by the broadcast task.             *)

(* The Count is another one only if edits have overlapped.                 *)
LEMMA RereadInv ==
  ASSUME IndInv, NEW t \in Threads, Reread(t)
  PROVE  IndInv' /\ torn'
<1> USE DEF IndInv, TypeInv
<1>1. /\ edit[t] \in {"RemoveSize", "RemoveShift", "RemoveClear"} /\ count[t] # size
      /\ count' = [count EXCEPT ![t] = size]
      /\ UNCHANGED <<items, size, edit, at, torn, subs, holders, alive, active, task, i,
                     cur, sent, fin>>
  BY DEF Reread, listVars, taskVars
<1>2. TypeOK'
  BY <1>1 DEF TypeOK
<1>3. Bounds'
  BY <1>1 DEF TypeOK, Bounds
<1>4. Fresh'
  BY <1>1 DEF Fresh, Unstored
<1>5. torn'
  BY <1>1 DEF SoloInv, Solo, TypeOK
<1> QED
  BY <1>2, <1>3, <1>4, <1>5 DEF SoloInv

(* First the Count: the slot it gives up stays live.                       *)
LEMMA RemoveSizeInv ==
  ASSUME IndInv, NEW t \in Threads, RemoveSize(t)
  PROVE  IndInv'
<1> USE DEF IndInv, TypeInv
<1>1. /\ edit[t] = "RemoveSize" /\ size' = count[t] - 1
      /\ edit' = [edit EXCEPT ![t] = "RemoveShift"]
      /\ count' = [count EXCEPT ![t] = count[t] - 1]
      /\ UNCHANGED <<items, at, torn, subs, holders, alive, active, task, i,
                     cur, sent, fin>>
  BY DEF RemoveSize, taskVars
<1>2. /\ count[t] \in Int /\ count[t] <= MaxList /\ at[t] \in Nat
      /\ count[t] - 1 \in Counts
  BY Numbers
<1>3. TypeOK'
  BY <1>1, <1>2 DEF TypeOK
<1>4. Bounds'
  BY <1>1, <1>2 DEF TypeOK, Bounds
<1>5. Fresh'
  BY <1>1, <1>2, Numbers DEF Fresh, Unstored, TypeOK
<1>6. ASSUME ~torn' PROVE Solo' /\ Tail' /\ Unique' /\ SentBehind'
  <2>1. Solo /\ Tail /\ Unique /\ SentBehind
    BY <1>1, <1>6 DEF SoloInv
  <2>2. \A u \in Threads : /\ edit[u] = IF u = t THEN "RemoveSize" ELSE "none"
                           /\ edit'[u] = IF u = t THEN "RemoveShift" ELSE "none"
    BY <1>1, <1>2, <2>1 DEF Solo, TypeOK
  <2>3. count[t] = size /\ at[t] < size /\ size \in Nat
    BY <1>1, <2>1 DEF Solo
  <2>4. Solo'
    BY <1>1, <1>2, <2>2, <2>3, Numbers DEF Solo, TypeOK
  <2>5. \A k \in Slots : Live(k)' <=> Live(k)
    BY <1>1, <1>2, <2>2, <2>3, Numbers DEF Live
  <2>6. Tail'
    BY <1>1, <1>2, <2>1, <2>2, <2>3, Numbers DEF Tail
  <2>7. Unique'
    BY <1>1, <2>1, <2>5 DEF Unique
  <2>8. SentBehind'
    BY <1>1, <2>1, <2>2, <2>5, Numbers DEF SentBehind
  <2> QED
    BY <2>4, <2>6, <2>7, <2>8
<1> QED
  BY <1>3, <1>4, <1>5, <1>6 DEF SoloInv

(* What Array.Copy leaves in a slot was there or in the next one.          *)
LEMMA ShiftMoves ==
  ASSUME TypeOK, NEW k \in Nat, NEW n \in Int, n < MaxList \/ n <= k
  PROVE  /\ Shifted(k, n) \in [Slots -> Regs \cup {Null}]
         /\ \A j \in Slots :
              \/ /\ j < k \/ j >= n
                 /\ Shifted(k, n)[j] = items[j]
              \/ /\ k <= j /\ j < n /\ j + 1 \in Slots
                 /\ Shifted(k, n)[j] = items[j + 1]
<1>1. \A j \in Slots : j \in Nat /\ (k <= j /\ j < n => j + 1 \in Slots)
  BY Numbers
<1>2. \A j \in Slots : Shifted(k, n)[j] =
                         IF k <= j /\ j < n THEN items[j + 1] ELSE items[j]
  BY DEF Shifted
<1>3. Shifted(k, n) \in [Slots -> Regs \cup {Null}]
  BY <1>1 DEF Shifted, TypeOK
<1> QED
  BY <1>1, <1>2, <1>3

(* The copy of the tail does not throw.                                    *)
Moves(t) ==
  /\ count[t] \in Slots \/ count[t] <= at[t]
  /\ items' = Shifted(at[t], count[t])
  /\ Continue(t, "RemoveClear") /\ UNCHANGED task

(* Then the tail: entries move to the front and none comes twice, except   *)
(* in the slot that is not live any more.                                  *)
LEMMA RemoveShiftInv ==
  ASSUME IndInv, NEW t \in Threads, RemoveShift(t), Moves(t)
  PROVE  IndInv'
<1> USE DEF IndInv, TypeInv
<1>1. /\ edit[t] = "RemoveShift" /\ items' = Shifted(at[t], count[t])
      /\ count[t] \in Slots \/ count[t] <= at[t]
      /\ edit' = [edit EXCEPT ![t] = "RemoveClear"]
      /\ UNCHANGED <<size, at, count, torn, subs, holders, alive, active, task, i,
                     cur, sent, fin>>
  BY DEF RemoveShift, Moves, Continue
<1>2. count[t] \in Int /\ at[t] \in Nat /\ (count[t] < MaxList \/ count[t] <= at[t])
  BY <1>1, Numbers
<1>3. /\ items' \in [Slots -> Regs \cup {Null}]
      /\ \A j \in Slots :
           \/ (j < at[t] \/ j >= count[t]) /\ items'[j] = items[j]
           \/ /\ at[t] <= j /\ j < count[t] /\ j + 1 \in Slots
              /\ items'[j] = items[j + 1]
  BY <1>1, <1>2, ShiftMoves
<1>4. TypeOK'
  BY <1>1, <1>3 DEF TypeOK
<1>5. Bounds'
  BY <1>1, <1>2 DEF TypeOK, Bounds
<1>6. Fresh'
  <2> SUFFICES ASSUME NEW c \in Clients, NEW n \in Nat, Unstored(c, n)'
               PROVE  <<c, n>> \notin sent /\ \A k \in Slots : items'[k] # <<c, n>>
    BY <1>1 DEF Fresh
  <2>1. Unstored(c, n)
    BY <1>1, Numbers DEF Unstored, TypeOK
  <2> QED
    BY <1>3, <2>1 DEF Fresh
<1>7. ASSUME ~torn' PROVE Solo' /\ Tail' /\ Unique' /\ SentBehind'
  <2>1. Solo /\ Tail /\ Unique /\ SentBehind
    BY <1>1, <1>7 DEF SoloInv
  <2>2. \A u \in Threads : /\ edit[u] = IF u = t THEN "RemoveShift" ELSE "none"
                           /\ edit'[u] = IF u = t THEN "RemoveClear" ELSE "none"
    BY <1>1, <1>2, <2>1 DEF Solo, TypeOK
  <2>3. count[t] = size /\ at[t] <= size /\ size \in Nat
    BY <1>1, <2>1 DEF Solo
  <2>4. \A k \in Slots : /\ Live(k) <=> k <= size
                         /\ Live(k)' <=> k < size
    BY <1>1, <2>2, Numbers DEF Live
  <2>5. Solo'
    BY <1>1, <2>2, <2>3 DEF Solo
  <2>6. Tail'
    BY <1>1, <1>2, <1>3, <2>1, <2>2, <2>3, Numbers DEF Tail
  <2>7. \A j \in Slots : j < size =>
          \/ j < at[t] /\ items'[j] = items[j]
          \/ at[t] <= j /\ j + 1 \in Slots /\ j + 1 <= size /\ items'[j] = items[j + 1]
    BY <1>2, <1>3, <2>3, Numbers
  <2>8. Unique'
    <3> SUFFICES ASSUME NEW j \in Slots, NEW k \in Slots, j < size, k < size,
                        items'[j] = items'[k], items'[j] # Null
                 PROVE  j = k
      BY <2>4 DEF Unique
    <3> DEFINE From(m, a) == /\ a <= size /\ items'[m] = items[a]
                             /\ \/ a = m /\ m < at[t]
                                \/ a = m + 1 /\ at[t] <= m
    <3>0. ASSUME NEW m \in Slots, m < size PROVE \E a \in Slots : From(m, a)
      <4>1. m \in Nat /\ size \in Nat /\ at[t] \in Nat
        BY <1>2, <2>3, Numbers
      <4>2. CASE m < at[t] /\ items'[m] = items[m]
        BY <3>0, <4>1, <4>2
      <4>3. CASE at[t] <= m /\ m + 1 \in Slots /\ items'[m] = items[m + 1]
        BY <3>0, <4>1, <4>3
      <4> QED
        BY <2>7, <3>0, <4>2, <4>3
    <3>1. PICK a \in Slots : From(j, a)
      BY <3>0
    <3>2. PICK b \in Slots : From(k, b)
      BY <3>0
    <3>3. a = b
      BY <2>1, <2>4, <3>1, <3>2 DEF Unique
    <3> QED
      BY <1>2, <3>1, <3>2, <3>3, Numbers
  <2>9. SentBehind'
    <3>1. ASSUME NEW k \in Slots, k < size, items'[k] \in sent
          PROVE  /\ task \in {"For", "Fetch"} => k < i
                 /\ task \in {"Call", "Catch", "Remove"} => k <= i
                 /\ t = COM_MTA => k < i
      <4>1. PICK a \in Slots : /\ a <= size /\ items[a] \in sent /\ k <= a
                               /\ k < at[t] \/ a = k + 1
        BY <2>7, <3>1, Numbers
      <4>2. /\ task \in {"For", "Fetch"} => a < i
            /\ task \in {"Call", "Catch", "Remove"} => a <= i
        BY <2>1, <2>4, <4>1 DEF SentBehind
      <4>3. t = COM_MTA => task = "Remove" /\ at[t] = i
        BY <1>1 DEF Bounds
      <4> QED
        BY <1>2, <4>1, <4>2, <4>3, Numbers
    <3> QED
      BY <1>1, <2>1, <2>2, <2>4, <3>1, Numbers DEF SentBehind
  <2> QED
    BY <2>5, <2>6, <2>8, <2>9
<1> QED
  BY <1>4, <1>5, <1>6, <1>7 DEF SoloInv

(* Array.Copy throws only if edits have overlapped.                        *)
LEMMA RemoveThrowsInv ==
  ASSUME IndInv, NEW t \in Threads, RemoveShift(t), ~Moves(t)
  PROVE  IndInv' /\ torn'
<1> USE DEF IndInv, TypeInv
<1>1. /\ edit[t] = "RemoveShift" /\ count[t] \notin Slots /\ count[t] > at[t]
      /\ edit' = [edit EXCEPT ![t] = "none"]
      /\ at' = [at EXCEPT ![t] = 0] /\ count' = [count EXCEPT ![t] = 0]
      /\ t # COM_MTA => task' = task
      /\ t = COM_MTA => task' = "Faulted"
      /\ UNCHANGED <<items, size, torn, subs, holders, alive, active, i, cur, sent, fin>>
  BY DEF RemoveShift, Moves, RemoveEnds, EndEdit
<1>2. 0 \in 0 .. MaxList /\ 0 \in Counts
  BY Numbers
<1>3. \A u \in Threads : /\ u # t => edit'[u] = edit[u] /\ at'[u] = at[u]
                                     /\ count'[u] = count[u]
                         /\ u = t => edit'[u] = "none"
  BY <1>1 DEF TypeOK
<1>4. TypeOK'
  <2>1. /\ edit' \in [Threads -> {"none", "AddSize", "AddStore", "Found", "RemoveSize",
                                  "RemoveShift", "RemoveClear"}]
        /\ at' \in [Threads -> 0 .. MaxList] /\ count' \in [Threads -> Counts]
    BY <1>1, <1>2 DEF TypeOK
  <2>2. task' \in {"While", "Count", "For", "Fetch", "Call", "Catch", "Remove",
                   "Sleep", "Done", "Faulted"}
    BY <1>1 DEF TypeOK
  <2> QED
    BY <1>1, <2>1, <2>2 DEF TypeOK
<1>5. Bounds'
  BY <1>1, <1>3 DEF Bounds
<1>6. Fresh'
  <2>1. \A c \in Clients, n \in Nat : Unstored(c, n)' => Unstored(c, n)
    BY <1>1, <1>3, Numbers DEF Unstored
  <2> QED
    BY <1>1, <2>1 DEF Fresh
<1>7. torn'
  <2> SUFFICES ASSUME ~torn PROVE FALSE
    BY <1>1
  <2>1. count[t] = size /\ size \in Nat /\ size < MaxList
    BY <1>1 DEF SoloInv, Solo
  <2> QED
    BY <1>1, <2>1, Numbers
<1> QED
  BY <1>4, <1>5, <1>6, <1>7 DEF SoloInv

(* Last the slot behind the list; the broadcast task goes on with its loop.*)
LEMMA RemoveClearInv ==
  ASSUME IndInv, NEW t \in Threads, RemoveClear(t)
  PROVE  IndInv'
<1> USE DEF IndInv, TypeInv
<1>1. /\ edit[t] = "RemoveClear"
      /\ items' = [j \in Slots |-> IF j = count[t] THEN Null ELSE items[j]]
      /\ edit' = [edit EXCEPT ![t] = "none"]
      /\ at' = [at EXCEPT ![t] = 0] /\ count' = [count EXCEPT ![t] = 0]
      /\ t # COM_MTA => task' = task
      /\ t = COM_MTA => task' \in {"For", "Faulted"}
      /\ UNCHANGED <<size, torn, subs, holders, alive, active, i, cur, sent, fin>>
  BY DEF RemoveClear, RemoveEnds, EndEdit
<1>2. 0 \in 0 .. MaxList /\ 0 \in Counts
  BY Numbers
<1>3. \A j \in Slots : items'[j] = IF j = count[t] THEN Null ELSE items[j]
  BY <1>1
<1>4. TypeOK'
  <2>1. items' \in [Slots -> Regs \cup {Null}]
    BY <1>1 DEF TypeOK
  <2>2. /\ edit' \in [Threads -> {"none", "AddSize", "AddStore", "Found", "RemoveSize",
                                  "RemoveShift", "RemoveClear"}]
        /\ at' \in [Threads -> 0 .. MaxList] /\ count' \in [Threads -> Counts]
    BY <1>1, <1>2 DEF TypeOK
  <2>3. task' \in {"While", "Count", "For", "Fetch", "Call", "Catch", "Remove",
                   "Sleep", "Done", "Faulted"}
    BY <1>1 DEF TypeOK
  <2> QED
    BY <1>1, <2>1, <2>2, <2>3 DEF TypeOK
<1>5. \A u \in Threads : /\ u # t => edit'[u] = edit[u] /\ at'[u] = at[u]
                                     /\ count'[u] = count[u]
                         /\ u = t => edit'[u] = "none"
  BY <1>1 DEF TypeOK
<1>6. Bounds'
  BY <1>1, <1>5 DEF Bounds
<1>7. Fresh'
  <2> SUFFICES ASSUME NEW c \in Clients, NEW n \in Nat, Unstored(c, n)'
               PROVE  <<c, n>> \notin sent /\ \A k \in Slots : items'[k] # <<c, n>>
    BY <1>1 DEF Fresh
  <2>1. Unstored(c, n)
    BY <1>1, <1>5, Numbers DEF Unstored
  <2>2. <<c, n>> # Null
    BY ListAssumption DEF Regs
  <2> QED
    BY <1>3, <2>1, <2>2 DEF Fresh
<1>8. ASSUME ~torn' PROVE Solo' /\ Tail' /\ Unique' /\ SentBehind'
  <2>1. Solo /\ Tail /\ Unique /\ SentBehind
    BY <1>1, <1>8 DEF SoloInv
  <2>2. \A u \in Threads : /\ edit[u] = IF u = t THEN "RemoveClear" ELSE "none"
                           /\ edit'[u] = "none"
    BY <1>1, <1>5, <2>1 DEF Solo
  <2>3. Solo' /\ count[t] = size /\ size \in Nat
    BY <1>1, <2>1, <2>2 DEF Solo
  <2>4. \A k \in Slots : (Live(k) <=> k < size) /\ (Live(k)' <=> k < size)
    BY <1>1, <2>2 DEF Live
  <2>5. Tail'
    BY <1>1, <1>3, <2>1, <2>2, <2>3, Numbers DEF Tail
  <2>6. \A k \in Slots : k < size => items'[k] = items[k]
    BY <1>3, <2>3, Numbers
  <2>7. Unique'
    BY <2>1, <2>4, <2>6 DEF Unique
  <2>8. SentBehind'
    <3>1. CASE t = COM_MTA
      BY <1>1, <2>1, <2>2, <2>4, <2>6, <3>1 DEF SentBehind, Bounds
    <3>2. CASE t # COM_MTA
      BY <1>1, <2>1, <2>2, <2>4, <2>6, <3>2, Numbers DEF SentBehind
    <3> QED
      BY <3>1, <3>2
  <2> QED
    BY <2>3, <2>5, <2>7, <2>8
<1> QED
  BY <1>4, <1>6, <1>7, <1>8 DEF SoloInv

-----------------------------------------------------------------------------
(* The clients and the finalizer leave the list and the broadcast alone.   *)

(* Disconnect, Release, Finalize and Close.                                *)
LEMMA OtherInv ==
  ASSUME IndInv,
         \/ \E c \in Clients : Disconnect(c) \/ Release(c)
         \/ Finalize \/ CloseReturns \/ Terminating \/ UNCHANGED vars
  PROVE  IndInv'
<1> USE DEF IndInv, TypeInv
<1>1. UNCHANGED <<items, size, edit, at, count, torn, subs, task, i, cur, sent>>
  BY DEF Disconnect, Release, Finalize, CloseReturns, Terminating, vars,
         listVars, editVars, taskVars
<1>2. /\ holders' \subseteq Clients /\ alive' \subseteq Clients
      /\ active' \in BOOLEAN /\ fin' \in {"none", "Wait", "Closed", "Crashed"}
  BY DEF Disconnect, Release, Finalize, CloseReturns, Terminating, vars, TypeOK
<1>3. TypeOK'
  BY <1>1, <1>2 DEF TypeOK
<1>4. Bounds' /\ Fresh'
  BY <1>1 DEF Bounds, Fresh, Unstored
<1>5. SoloInv'
  BY <1>1 DEF SoloInv, Solo, Tail, Unique, SentBehind, Live
<1> QED
  BY <1>3, <1>4, <1>5

-----------------------------------------------------------------------------
(* The broadcast task.                                                     *)

(* The steps that only test, fail or advance.                              *)
LEMMA LoopInv ==
  ASSUME IndInv, While \/ Count \/ For \/ XmitThrows \/ XmitThrowsOther \/ Sleep
  PROVE  IndInv'
<1> USE DEF IndInv, TypeInv
<1>1. /\ UNCHANGED <<items, size, edit, at, count, torn, subs, holders, alive,
                     active, cur, fin>>
      /\ task # "Remove"
  BY DEF While, Count, For, XmitThrows, XmitThrowsOther, Sleep, listVars, editVars
<1>2. edit[COM_MTA] = "none" /\ size \in Int /\ size <= MaxList /\ 0 \in 0 .. MaxList
  BY <1>1, Numbers DEF Bounds
<1>3. TypeOK'
  <2>1. /\ i' \in 0 .. MaxList /\ sent' \subseteq Regs
        /\ task' \in {"While", "Count", "For", "Fetch", "Call", "Catch", "Remove",
                      "Sleep", "Done", "Faulted"}
    BY <1>2 DEF While, Count, For, XmitThrows, XmitThrowsOther, Sleep, TypeOK
  <2> QED
    BY <1>1, <2>1 DEF TypeOK
<1>4. Bounds'
  <2>1. task' \in {"Fetch", "Call", "Catch", "Remove"} => i' < MaxList
    BY <1>2, Numbers
       DEF While, Count, For, XmitThrows, XmitThrowsOther, Sleep, Bounds
  <2> QED
    BY <1>1, <1>2, <2>1 DEF Bounds
<1>5. Fresh'
  <2>1. sent' \subseteq sent
    BY DEF While, Count, For, XmitThrows, XmitThrowsOther, Sleep
  <2> QED
    BY <1>1, <2>1 DEF Fresh, Unstored
<1>6. ASSUME ~torn' PROVE Solo' /\ Tail' /\ Unique' /\ SentBehind'
  <2>1. Solo' /\ Tail' /\ Unique'
    BY <1>1, <1>6 DEF SoloInv, Solo, Tail, Unique, Live
  <2>2. \A k : Live(k)' <=> Live(k)
    BY <1>1 DEF Live
  <2>3. SentBehind
    BY <1>1, <1>6 DEF SoloInv
  <2>4. SentBehind'
    BY <1>1, <1>2, <2>2, <2>3
       DEF While, Count, For, XmitThrows, XmitThrowsOther, Sleep, SentBehind
  <2> QED
    BY <2>1, <2>4
<1> QED
  BY <1>3, <1>4, <1>5, <1>6 DEF SoloInv

(* The list is indexed and the client called.                              *)
LEMMA FetchInv ==
  ASSUME IndInv, Fetch
  PROVE  IndInv'
<1> USE DEF IndInv, TypeInv
<1>1. /\ UNCHANGED <<items, size, edit, at, count, torn, subs, holders, alive,
                     active, i, fin>>
      /\ task = "Fetch" /\ edit[COM_MTA] = "none"
  BY DEF Fetch, Bounds, listVars, editVars
<1>2. i \in Slots /\ i \in Nat /\ i < MaxList
  BY <1>1, Numbers DEF Bounds
<1>3. \A k : Live(k)' <=> Live(k)
  BY <1>1 DEF Live
<1>4. SoloInv' <=> (~torn => Solo /\ Tail /\ Unique /\ SentBehind')
  BY <1>1, <1>3 DEF SoloInv, Solo, Tail, Unique
<1>5. CASE task' = "Faulted" /\ UNCHANGED <<cur, sent>>
  <2>1. TypeOK' /\ Bounds' /\ Fresh'
    BY <1>1, <1>5 DEF TypeOK, Bounds, Fresh, Unstored
  <2>2. SentBehind'
    BY <1>1, <1>5 DEF SentBehind
  <2> QED
    BY <1>4, <2>1, <2>2 DEF SoloInv
<1>6. CASE /\ InCount(i) /\ items[i] # Null /\ cur' = items[i]
           /\ sent' = sent \cup {items[i]} /\ task' = "Call"
  <2>1. items[i] \in Regs
    BY <1>2, <1>6 DEF TypeOK
  <2>2. TypeOK'
    BY <1>1, <1>6, <2>1 DEF TypeOK
  <2>3. Bounds' /\ Fresh'
    BY <1>1, <1>2, <1>6 DEF Bounds, Fresh, Unstored
  <2>4. ASSUME ~torn PROVE SentBehind'
    <3>1. ASSUME NEW k \in Slots, Live(k), items[k] \in sent' PROVE k <= i
      <4>1. Live(i) /\ Unique /\ SentBehind /\ k \in Nat
        BY <1>6, <2>4, Numbers DEF Live, SoloInv, Solo, InCount
      <4>2. CASE items[k] \in sent
        BY <1>1, <1>2, <3>1, <4>1, <4>2 DEF SentBehind
      <4>3. CASE items[k] = items[i]
        BY <1>2, <1>6, <3>1, <4>1, <4>3 DEF Unique
      <4> QED
        BY <1>6, <3>1, <4>2, <4>3
    <3> QED
      BY <1>1, <1>3, <1>6, <3>1 DEF SentBehind
  <2> QED
    BY <1>4, <2>2, <2>3, <2>4 DEF SoloInv
<1> QED
  BY <1>5, <1>6 DEF Fetch, Callable

(* The call returns and the index moves on.                                *)
LEMMA XmitReturnsInv ==
  ASSUME IndInv, XmitReturns
  PROVE  IndInv'
<1> USE DEF IndInv, TypeInv
<1>1. /\ UNCHANGED <<items, size, edit, at, count, torn, subs, holders, alive,
                     active, sent, fin>>
      /\ task = "Call" /\ task' = "For" /\ i' = i + 1 /\ cur' = Null
      /\ edit[COM_MTA] = "none"
  BY DEF XmitReturns, NextIndex, Bounds, listVars, editVars
<1>2. i \in Nat /\ i < MaxList
  BY <1>1, Numbers DEF Bounds
<1>3. TypeOK'
  <2>1. i' \in 0 .. MaxList
    BY <1>1, <1>2, Numbers
  <2> QED
    BY <1>1, <2>1 DEF TypeOK
<1>4. Bounds' /\ Fresh'
  BY <1>1 DEF Bounds, Fresh, Unstored
<1>5. ASSUME ~torn' PROVE Solo' /\ Tail' /\ Unique' /\ SentBehind'
  <2>1. Solo' /\ Tail' /\ Unique'
    BY <1>1, <1>5 DEF SoloInv, Solo, Tail, Unique, Live
  <2>2. \A k : Live(k)' <=> Live(k)
    BY <1>1 DEF Live
  <2>3. SentBehind'
    BY <1>1, <1>2, <1>5, <2>2, Numbers DEF SoloInv, SentBehind
  <2> QED
    BY <2>1, <2>3
<1> QED
  BY <1>3, <1>4, <1>5 DEF SoloInv

(* The call has thrown and RemoveAt is called for the index.               *)
LEMMA CatchInv ==
  ASSUME IndInv, Catch
  PROVE  IndInv'
<1> USE DEF IndInv, TypeInv
<1>1. /\ UNCHANGED <<items, size, subs, holders, alive, active, i, sent, fin>>
      /\ task = "Catch" /\ cur' = Null /\ edit[COM_MTA] = "none"
  BY DEF Catch, Bounds, listVars
<1>2. /\ i \in Nat /\ i < MaxList /\ COM_MTA \in Threads
      /\ i \in 0 .. MaxList /\ size \in Counts
  BY <1>1, Numbers DEF Bounds, TypeOK
<1>3. CASE task' = "Faulted" /\ UNCHANGED <<edit, at, count, torn>>
  <2>1. TypeOK' /\ Bounds' /\ Fresh'
    BY <1>1, <1>3 DEF TypeOK, Bounds, Fresh, Unstored
  <2>2. SoloInv'
    BY <1>1, <1>3 DEF SoloInv, Solo, Tail, Unique, SentBehind, Live
  <2> QED
    BY <2>1, <2>2
<1>4. CASE InCount(i) /\ task' = "Remove" /\ BeginEdit(COM_MTA, "RemoveSize", i, size)
  <2>1. /\ edit' = [edit EXCEPT ![COM_MTA] = "RemoveSize"]
        /\ at' = [at EXCEPT ![COM_MTA] = i] /\ count' = [count EXCEPT ![COM_MTA] = size]
        /\ torn' = (torn \/ \E u \in Threads \ {COM_MTA} : edit[u] # "none")
    BY <1>4 DEF BeginEdit
  <2>2. TypeOK'
    <3>1. /\ edit' \in [Threads -> {"none", "AddSize", "AddStore", "Found", "RemoveSize",
                                    "RemoveShift", "RemoveClear"}]
          /\ at' \in [Threads -> 0 .. MaxList] /\ count' \in [Threads -> Counts]
          /\ torn' \in BOOLEAN
      BY <1>2, <2>1 DEF TypeOK
    <3> QED
      BY <1>1, <1>4, <3>1 DEF TypeOK
  <2>3. /\ \A u \in Threads : u # COM_MTA =>
             edit'[u] = edit[u] /\ at'[u] = at[u] /\ count'[u] = count[u]
        /\ edit'[COM_MTA] = "RemoveSize" /\ at'[COM_MTA] = i /\ count'[COM_MTA] = size
    BY <1>2, <2>1 DEF TypeOK
  <2>4. Bounds'
    BY <1>1, <1>2, <1>4, <2>3 DEF Bounds
  <2>5. Fresh'
    <3>1. \A c \in Clients, n \in Nat : Unstored(c, n)' <=> Unstored(c, n)
      BY <1>1, <2>3, Numbers, ClientAssumption DEF Unstored
    <3> QED
      BY <1>1, <3>1 DEF Fresh
  <2>6. ASSUME ~torn' PROVE Solo' /\ Tail' /\ Unique' /\ SentBehind'
    <3>1. ~torn /\ \A u \in Threads : edit[u] = "none"
      BY <1>1, <2>1, <2>6 DEF TypeOK
    <3>2. \A u \in Threads : edit'[u] = IF u = COM_MTA THEN "RemoveSize" ELSE "none"
      BY <2>3, <3>1
    <3>3. Solo'
      BY <1>1, <1>4, <2>3, <3>1, <3>2 DEF Solo, SoloInv, InCount
    <3>4. \A k : Live(k)' <=> Live(k)
      BY <1>1, <3>1, <3>2 DEF Live
    <3>5. Tail' /\ Unique'
      BY <1>1, <3>1, <3>2, <3>4 DEF SoloInv, Tail, Unique
    <3>6. SentBehind'
      BY <1>1, <1>4, <2>3, <3>1, <3>4 DEF SoloInv, SentBehind
    <3> QED
      BY <3>3, <3>5, <3>6
  <2> QED
    BY <2>2, <2>4, <2>5, <2>6 DEF SoloInv
<1> QED
  BY <1>3, <1>4 DEF Catch, editVars

(* Every step keeps the invariant: one case for each action.               *)
LEMMA NextInv == IndInv /\ [Next]_vars => IndInv'
<1> SUFFICES ASSUME IndInv, [Next]_vars PROVE IndInv'
  OBVIOUS
<1>1. ASSUME NEW t \in Threads, RemoveAt(t) PROVE IndInv'
  BY <1>1, RereadInv, RemoveSizeInv, RemoveShiftInv, RemoveThrowsInv, RemoveClearInv
     DEF RemoveAt
<1>2. ASSUME NEW c \in Clients, Subscribe(c) \/ Unsubscribe(c) \/ RpcThread(c)
      PROVE  IndInv'
  BY <1>1, <1>2, SubscribeInv, UnsubscribeInv, AddSizeInv, AddStoreInv, FoundInv
     DEF RpcThread, Threads
<1>3. CASE Broadcaster
  BY <1>1, <1>3, LoopInv, FetchInv, XmitReturnsInv, CatchInv DEF Broadcaster, Threads
<1>4. CASE \/ \E c \in Clients : Disconnect(c) \/ Release(c)
           \/ Finalize \/ CloseReturns \/ Terminating \/ UNCHANGED vars
  BY <1>4, OtherInv
<1> QED
  BY <1>2, <1>3, <1>4 DEF Next

-----------------------------------------------------------------------------

(* IndInv always holds: the types and bounds, and, as long as edits of the *)
(* list do not overlap, the position of what was called below the index.   *)
THEOREM Inductive == Spec => []IndInv
<1> QED
  BY InitInv, NextInv, PTL DEF Spec

(* The variables keep their types, and no index leaves the array, however  *)
(* the threads of MyServerImpl and the broadcast task interleave.          *)
THEOREM TypeCorrect == Spec => []TypeOK
<1>1. IndInv => TypeOK
  BY DEF IndInv, TypeInv
<1> QED
  BY <1>1, Inductive, PTL

(* BroadcastMessage calls a registration at most once per broadcast, as    *)
(* long as no two edits of the list have overlapped.                       *)
THEOREM OncePerRound == Spec => CalledOncePerRound
<1>1. IndInv /\ [Next]_vars =>
        [task = "Fetch" /\ task' = "Call" /\ ~torn => cur' \notin sent]_vars
  <2> SUFFICES ASSUME IndInv, Next, task = "Fetch", task' = "Call", ~torn
               PROVE  cur' \notin sent
    BY DEF vars
  <2> USE DEF IndInv, TypeInv
  <2>1. Fetch
    <3>1. edit[COM_MTA] = "none"
      BY DEF Bounds
    <3>2. ~RemoveAt(COM_MTA)
      BY <3>1 DEF RemoveAt, Reread, RemoveSize, RemoveShift, RemoveClear
    <3>3. ASSUME NEW c \in Clients, RpcThread(c) PROVE task' = task
      BY <3>3, ClientAssumption DEF RpcThread, AddSize, AddStore, Found, RemoveAt,
         Reread, RemoveSize, RemoveShift, RemoveClear, RemoveEnds, taskVars
    <3> QED
      BY <3>2, <3>3 DEF Next, Broadcaster, Subscribe, Unsubscribe, Disconnect,
         Release, Finalize, CloseReturns, Terminating, While, Count, For,
         XmitReturns, XmitThrows, XmitThrowsOther, Catch, Sleep, taskVars, vars
  <2>2. SentBehind /\ size \in Nat
    BY DEF SoloInv, Solo
  <2>3. i \in Slots /\ i \in Nat /\ i < size /\ cur' = items[i]
    BY <2>1, <2>2, Numbers DEF Fetch, Callable, InCount, Bounds
  <2>4. items[i] \in sent => i < i
    BY <2>1, <2>2, <2>3 DEF SentBehind, Live
  <2> QED
    BY <2>3, <2>4
<1> QED
  BY <1>1, Inductive, PTL DEF Spec, CalledOncePerRound

-----------------------------------------------------------------------------
(* The entries of the list, as long as edits do not overlap.               *)

(* What is being removed is an entry, one of its own if a client removes.  *)
Sought ==
  \A t \in Threads :
    /\ edit[t] \in {"Found", "RemoveSize", "RemoveShift"} =>
         /\ at[t] \in Slots /\ items[at[t]] # Null
         /\ t \in Clients => Owner(items[at[t]]) = t
    /\ edit[t] = "Found" => at[t] < size

(* The list has no holes, but for the slot that an Add has still to store. *)
Filled ==
  \A k \in Slots : Live(k) =>
    items[k] # Null \/ (k = size - 1 /\ \E c \in Clients : edit[c] = "AddStore")

(* The slot that a removal clears is inside the array.                     *)
Room == \A t \in Threads : edit[t] = "RemoveClear" => size < MaxList

EntryInv == ~torn => Sought /\ Filled /\ Room

LEMMA StaysUntorn ==
  ASSUME IndInv, [Next]_vars, ~torn'
  PROVE  ~torn
<1> USE DEF listVars, editVars, taskVars
<1>1. torn \in BOOLEAN
  BY DEF IndInv, TypeInv, TypeOK
<1>2. CASE \E c \in Clients : Subscribe(c) \/ Unsubscribe(c)
  BY <1>1, <1>2 DEF Subscribe, Unsubscribe, BeginEdit
<1>3. CASE \E t \in Threads : AddSize(t) \/ AddStore(t) \/ Found(t) \/ RemoveAt(t)
  BY <1>3 DEF AddSize, AddStore, Found, RemoveAt, Reread, RemoveSize, RemoveShift,
     RemoveClear, RemoveEnds, Continue, EndEdit
<1>4. CASE Catch
  BY <1>1, <1>4 DEF Catch, BeginEdit
<1>5. CASE \/ While \/ Count \/ For \/ Fetch \/ XmitReturns \/ XmitThrows
           \/ XmitThrowsOther \/ Sleep
  BY <1>5 DEF While, Count, For, Fetch, XmitReturns, XmitThrows, XmitThrowsOther, Sleep
<1>6. CASE \/ \E c \in Clients : Disconnect(c) \/ Release(c)
           \/ Finalize \/ CloseReturns \/ Terminating \/ UNCHANGED vars
  BY <1>6 DEF Disconnect, Release, Finalize, CloseReturns, Terminating, vars
<1> QED
  BY <1>2, <1>3, <1>4, <1>5, <1>6 DEF Next, RpcThread, Broadcaster, Threads

(* What is known of the one edit there is.                                 *)
LEMMA Alone ==
  ASSUME IndInv, ~torn
  PROVE  /\ TypeOK /\ Bounds /\ Solo /\ Tail /\ size \in Nat
         /\ Threads = Clients \cup {COM_MTA} /\ COM_MTA \notin Clients
         /\ \A t \in Threads : edit[t] # "none" =>
              \A u \in Threads : u # t => edit[u] = "none"
BY ClientAssumption DEF IndInv, TypeInv, SoloInv, Solo, Threads

(* An edit begins while there is no other.                                 *)
LEMMA BeginEntry ==
  ASSUME IndInv, EntryInv, ~torn, NEW t \in Threads, NEW op, NEW k, NEW n,
         edit[t] = "none", BeginEdit(t, op, k, n), ~torn', UNCHANGED <<items, size>>,
         op = "AddSize" \/ /\ op \in {"Found", "RemoveSize"}
                           /\ k \in Slots /\ k < size
                           /\ t \in Clients => Owner(items[k]) = t
  PROVE  EntryInv'
<1>1. /\ Sought /\ Filled /\ TypeOK /\ Threads = Clients \cup {COM_MTA}
      /\ \A u \in Threads : edit[u] = "none"
  BY Alone DEF EntryInv, BeginEdit
<1>2. /\ \A u \in Threads : u # t => edit'[u] = "none"
      /\ edit'[t] = op /\ at'[t] = k
  BY <1>1 DEF BeginEdit, TypeOK
<1>3. \A j \in Slots : j < size => items[j] # Null
  BY <1>1 DEF Filled, Live
<1>4. Sought'
  BY <1>2, <1>3 DEF Sought
<1>5. Filled'
  <2>1. \A j \in Slots : Live(j)' => j < size
    BY <1>2 DEF Live
  <2> QED
    BY <1>3, <2>1 DEF Filled
<1>6. Room'
  BY <1>2 DEF Room
<1> QED
  BY <1>4, <1>5, <1>6 DEF EntryInv

(* The steps of Add.                                                       *)
LEMMA AddEntry ==
  ASSUME IndInv, EntryInv, ~torn, NEW c \in Clients, AddSize(c) \/ AddStore(c)
  PROVE  EntryInv'
<1>1. /\ Sought /\ Filled /\ TypeOK /\ Bounds /\ Solo /\ c \in Threads
      /\ Threads = Clients \cup {COM_MTA}
      /\ edit[c] \in {"AddSize", "AddStore"}
      /\ \A u \in Threads : u # c => edit[u] = "none"
  BY Alone DEF EntryInv, AddSize, AddStore
<1>2. CASE AddSize(c)
  <2>1. /\ size' = size + 1 /\ items' = items /\ size \in Nat /\ edit[c] = "AddSize"
        /\ edit'[c] = "AddStore" /\ \A u \in Threads : u # c => edit'[u] = "none"
    BY <1>1, <1>2, Numbers DEF AddSize, Continue, Solo, TypeOK
  <2>2. \A u \in Threads : edit[u] # "RemoveShift" /\ edit'[u] # "RemoveShift"
    BY <1>1, <2>1
  <2>3. ASSUME NEW k \in Slots, Live(k)'
        PROVE  items'[k] # Null \/ (k = size' - 1 /\ \E d \in Clients : edit'[d] = "AddStore")
    <3>1. k < size + 1 /\ k \in Nat
      BY <1>1, <2>1, <2>2, <2>3, Numbers DEF Live
    <3>2. CASE k < size
      <4>1. \A d \in Clients : edit[d] # "AddStore"
        BY <1>1, <2>1
      <4> QED
        BY <1>1, <2>1, <3>2, <4>1 DEF Filled, Live
    <3>3. CASE k = size
      BY <2>1, <3>3
    <3> QED
      BY <2>1, <3>1, <3>2, <3>3
  <2> QED
    BY <1>1, <2>1, <2>3 DEF EntryInv, Sought, Filled, Room
<1>3. CASE AddStore(c)
  <2>1. /\ size' = size /\ size \in Nat /\ edit[c] = "AddStore"
        /\ size = count[c] + 1 /\ count[c] \in Slots /\ count[c] \in Nat
        /\ items' = [k \in Slots |-> IF k = count[c] THEN <<c, subs[c]>> ELSE items[k]]
        /\ \A u \in Threads : edit'[u] = "none"
    BY <1>1, <1>3, Numbers DEF AddStore, EndEdit, Solo, Bounds, TypeOK
  <2>2. /\ \A k \in Slots : items'[k] = IF k = count[c] THEN <<c, subs[c]>> ELSE items[k]
        /\ <<c, subs[c]>> # Null
    BY <1>1, <2>1, ListAssumption, Numbers DEF TypeOK, Regs
  <2>3. ASSUME NEW k \in Slots, Live(k)'
        PROVE  items'[k] # Null
    <3>1. k < size /\ Live(k)
      BY <2>1, <2>3 DEF Live
    <3>2. k = size - 1 => k = count[c]
      BY <2>1
    <3> QED
      BY <1>1, <2>2, <3>1, <3>2 DEF Filled
  <2> QED
    BY <2>1, <2>3 DEF EntryInv, Sought, Filled, Room
<1> QED
  BY <1>2, <1>3

(* The steps of a removal.                                                 *)
LEMMA RemoveEntry ==
  ASSUME IndInv, EntryInv, ~torn, NEW t \in Threads,
         Found(t) \/ RemoveAt(t), ~torn'
  PROVE  EntryInv'
<1>1. /\ Sought /\ Filled /\ Room /\ TypeOK /\ Bounds /\ Solo
      /\ Threads = Clients \cup {COM_MTA}
      /\ \A u \in Threads : u # t => edit[u] = "none"
      /\ edit[t] \in {"Found", "RemoveSize", "RemoveShift", "RemoveClear"}
  BY Alone DEF EntryInv, Found, RemoveAt, Reread, RemoveSize, RemoveShift, RemoveClear
<1>2. /\ \A k \in Slots : Live(k) => items[k] # Null
      /\ size \in Nat /\ count[t] \in Int /\ count[t] <= MaxList /\ MaxList \in Nat
  <2>1. \A c \in Clients : edit[c] # "AddStore"
    BY <1>1
  <2> QED
    BY <1>1, <2>1, Numbers DEF Filled, Solo
<1>3. CASE Found(t)
  <2>1. /\ size' = size /\ items' = items /\ edit[t] = "Found"
        /\ edit'[t] \in {"RemoveSize", "none"}
        /\ edit'[t] = "RemoveSize" => at'[t] = at[t]
        /\ \A u \in Threads : u # t => edit'[u] = "none"
    BY <1>1, <1>3 DEF Found, EndEdit, TypeOK, listVars
  <2>2. \A k : Live(k)' <=> Live(k)
    BY <1>1, <2>1 DEF Live
  <2> QED
    BY <1>1, <1>2, <2>1, <2>2 DEF EntryInv, Sought, Filled, Room
<1>4. CASE RemoveSize(t)
  <2>1. /\ size' = size - 1 /\ items' = items /\ at' = at /\ edit[t] = "RemoveSize"
        /\ edit'[t] = "RemoveShift" /\ \A u \in Threads : u # t => edit'[u] = "none"
    BY <1>1, <1>4 DEF RemoveSize, Solo, TypeOK
  <2>2. \A k \in Slots : Live(k)' => Live(k)
    BY <1>1, <1>2, <2>1, Numbers DEF Live
  <2> QED
    BY <1>1, <1>2, <2>1, <2>2 DEF EntryInv, Sought, Filled, Room
<1>5. CASE RemoveShift(t)
  <2>0. Moves(t)
    BY <1>5, RemoveThrowsInv
  <2>1. /\ size' = size /\ items' = Shifted(at[t], count[t]) /\ edit[t] = "RemoveShift"
        /\ count[t] = size /\ at[t] \in Nat
        /\ edit'[t] = "RemoveClear" /\ \A u \in Threads : u # t => edit'[u] = "none"
    BY <1>1, <1>5, <2>0, Numbers DEF RemoveShift, Moves, Continue, Solo, TypeOK
  <2>2. size < MaxList
    BY <1>1, <2>1 DEF Solo
  <2>3. ASSUME NEW k \in Slots, Live(k)'
        PROVE  items'[k] # Null
    <3>1. k < size /\ k \in Nat
      BY <1>1, <2>1, <2>3, Numbers DEF Live
    <3>2. \/ items'[k] = items[k]
          \/ k + 1 \in Slots /\ items'[k] = items[k + 1]
      BY <1>1, <1>2, <2>1, <2>2, ShiftMoves
    <3>3. Live(k) /\ (k + 1 \in Slots => Live(k + 1))
      BY <1>2, <2>1, <3>1 DEF Live
    <3> QED
      BY <1>2, <3>2, <3>3
  <2> QED
    BY <2>1, <2>2, <2>3 DEF EntryInv, Sought, Filled, Room
<1>6. CASE RemoveClear(t)
  <2>1. /\ size' = size /\ \A u \in Threads : edit'[u] = "none"
        /\ \A k \in Slots : k # size => items'[k] = items[k]
    BY <1>1, <1>6 DEF RemoveClear, RemoveEnds, EndEdit, TypeOK, Solo
  <2>2. \A k \in Slots : Live(k)' => Live(k) /\ k # size
    BY <1>1, <1>2, <2>1, Numbers DEF Live
  <2> QED
    BY <1>2, <2>1, <2>2 DEF EntryInv, Sought, Filled, Room
<1>7. ~Reread(t)
  BY RereadInv
<1> QED
  BY <1>3, <1>4, <1>5, <1>6, <1>7 DEF RemoveAt

LEMMA EntryStep ==
  ASSUME IndInv, EntryInv, [Next]_vars
  PROVE  EntryInv'
<1> SUFFICES ASSUME ~torn' PROVE EntryInv'
  BY DEF EntryInv
<1> USE DEF listVars, editVars, taskVars
<1>1. ~torn
  BY StaysUntorn
<1>2. TypeOK /\ Bounds /\ Clients \subseteq Threads /\ COM_MTA \in Threads \ Clients
  BY <1>1, Alone
<1>3. ASSUME NEW c \in Clients, Subscribe(c)
      PROVE  EntryInv'
  <2>1. edit[c] = "none" /\ BeginEdit(c, "AddSize", 0, size) /\ UNCHANGED <<items, size>>
    BY <1>3 DEF Subscribe, CanCall
  <2> QED
    BY <1>1, <1>2, <2>1, BeginEntry
<1>4. ASSUME NEW c \in Clients, Unsubscribe(c)
      PROVE  EntryInv'
  <2>1. PICK k \in Listed(c) : BeginEdit(c, "Found", k, 0)
    BY <1>4 DEF Unsubscribe
  <2>2. edit[c] = "none" /\ UNCHANGED <<items, size>>
    BY <1>4 DEF Unsubscribe, CanCall
  <2>3. k \in Slots /\ k < size /\ Owner(items[k]) = c
    BY <1>2, Numbers DEF Listed
  <2> QED
    BY <1>1, <1>2, <2>1, <2>2, <2>3, BeginEntry
<1>5. ASSUME NEW c \in Clients, RpcThread(c)
      PROVE  EntryInv'
  BY <1>1, <1>2, <1>5, AddEntry, RemoveEntry DEF RpcThread
<1>6. ASSUME UNCHANGED <<items, size, edit, at>>
      PROVE  EntryInv'
  BY <1>1, <1>6 DEF EntryInv, Sought, Filled, Room, Live
<1>7. ASSUME Catch
      PROVE  EntryInv'
  <2>1. CASE InCount(i) /\ BeginEdit(COM_MTA, "RemoveSize", i, size)
    <3>1. edit[COM_MTA] = "none" /\ i \in Slots /\ i < size /\ UNCHANGED <<items, size>>
      BY <1>1, <1>2, <1>7, <2>1, Alone, Numbers DEF Catch, Bounds, InCount
    <3> QED
      BY <1>1, <1>2, <2>1, <3>1, BeginEntry
  <2>2. CASE UNCHANGED editVars
    BY <1>6, <1>7, <2>2 DEF Catch
  <2> QED
    BY <1>7, <2>1, <2>2 DEF Catch
<1>8. ASSUME Broadcaster
      PROVE  EntryInv'
  <2>1. CASE RemoveAt(COM_MTA)
    BY <1>1, <1>2, <2>1, RemoveEntry
  <2>2. CASE Catch
    BY <1>7, <2>2
  <2>3. CASE \/ While \/ Count \/ For \/ Fetch \/ XmitReturns \/ XmitThrows
             \/ XmitThrowsOther \/ Sleep
    <3>1. UNCHANGED <<items, size, edit, at>>
      BY <2>3 DEF While, Count, For, Fetch, XmitReturns, XmitThrows, XmitThrowsOther, Sleep
    <3> QED
      BY <1>6, <3>1
  <2> QED
    BY <1>8, <2>1, <2>2, <2>3 DEF Broadcaster
<1>9. ASSUME \/ \E c \in Clients : Disconnect(c) \/ Release(c)
             \/ Finalize \/ CloseReturns \/ Terminating \/ UNCHANGED vars
      PROVE  EntryInv'
  <2>1. UNCHANGED <<items, size, edit, at>>
    BY <1>9 DEF Disconnect, Release, Finalize, CloseReturns, Terminating, vars
  <2> QED
    BY <1>6, <2>1
<1> QED
  BY <1>3, <1>4, <1>5, <1>8, <1>9 DEF Next

(* As long as edits do not overlap, every entry is a registration.         *)
THEOREM EntriesHold == Spec => []EntryInv
<1>1. Init => EntryInv
  BY DEF Init, EntryInv, Sought, Filled, Room, Live, Slots
<1>2. IndInv /\ EntryInv /\ [Next]_vars => EntryInv'
  BY EntryStep
<1> QED
  BY <1>1, <1>2, Inductive, PTL DEF Spec

(* The broadcast task ends with an exception only for a client's HRESULT   *)
(* that it does not catch, behind a removal of the last entry, or at an    *)
(* entry that an Add has counted and not stored, until edits overlap.      *)
THEOREM Faults == Spec => FaultsForReason
<1> DEFINE Reason == \/ XmitThrowsOther
                     \/ i >= size
                     \/ i = size - 1 /\ \E c \in Clients : edit[c] = "AddStore"
<1>1. ASSUME IndInv, EntryInv, [Next]_vars
      PROVE  [task # "Faulted" /\ task' = "Faulted" /\ ~torn' => Reason]_vars
  <2> SUFFICES ASSUME Next, task # "Faulted", task' = "Faulted", ~torn'
               PROVE  Reason
    BY <1>1 DEF vars
  <2>1. ~torn
    BY <1>1, StaysUntorn
  <2>2. /\ TypeOK /\ Bounds /\ Solo /\ Room /\ Filled /\ COM_MTA \in Threads
        /\ COM_MTA \notin Clients /\ size \in Nat
    BY <1>1, <2>1, Alone DEF EntryInv
  <2>3. Fetch \/ XmitThrowsOther \/ Catch \/ RemoveClear(COM_MTA)
    <3>1. ASSUME NEW c \in Clients, RpcThread(c) PROVE task' = task
      BY <2>2, <3>1 DEF RpcThread, AddSize, AddStore, Found, RemoveAt, Reread,
         RemoveSize, RemoveShift, RemoveClear, RemoveEnds, taskVars
    <3>2. RemoveShift(COM_MTA) => task' = task
      BY <1>1, <2>2, RemoveThrowsInv DEF Moves
    <3> QED
      BY <3>1, <3>2 DEF Next, Broadcaster, Subscribe, Unsubscribe, Disconnect, Release,
         Finalize, CloseReturns, Terminating, While, Count, For, XmitReturns, XmitThrows,
         RemoveAt, Reread, RemoveSize, Sleep, taskVars, vars
  <2>4. CASE Fetch
    <3>1. ~Callable(i) /\ i \in Slots /\ i \in Nat /\ size \in Nat
      BY <2>2, <2>4, Numbers DEF Fetch, Bounds
    <3>2. CASE items[i] = Null /\ i < size
      BY <2>2, <3>1, <3>2 DEF Filled, Live
    <3> QED
      BY <3>1, <3>2 DEF Callable, InCount
  <2>5. CASE Catch
    BY <2>2, <2>5, Numbers DEF Catch, InCount
  <2>6. CASE RemoveClear(COM_MTA)
    <3>1. count[COM_MTA] \notin Slots /\ edit[COM_MTA] = "RemoveClear"
      BY <2>6 DEF RemoveClear, RemoveEnds
    <3> QED
      BY <2>2, <3>1, Numbers DEF Room, Solo
  <2> QED
    BY <2>3, <2>4, <2>5, <2>6
<1> QED
  BY <1>1, EntriesHold, Inductive, PTL DEF Spec, FaultsForReason

(* What a call is going on with, or has failed, was called.                *)
CurSent == task \in {"Call", "Catch"} => cur \in sent

LEMMA CurSentStep ==
  ASSUME IndInv, CurSent, [Next]_vars
  PROVE  CurSent'
<1> USE DEF CurSent, taskVars
<1>1. ASSUME UNCHANGED <<cur, sent>>, task' \in {"Call", "Catch"} => task \in {"Call", "Catch"}
      PROVE  CurSent'
  BY <1>1
<1>2. CASE \E t \in Threads : AddSize(t) \/ AddStore(t) \/ Found(t) \/ RemoveAt(t)
  BY <1>1, <1>2 DEF AddSize, AddStore, Found, RemoveAt, Reread, RemoveSize, RemoveShift,
     RemoveClear, RemoveEnds
<1>3. CASE \E c \in Clients : Subscribe(c) \/ Unsubscribe(c) \/ Disconnect(c) \/ Release(c)
  BY <1>1, <1>3 DEF Subscribe, Unsubscribe, Disconnect, Release
<1>4. CASE \/ While \/ Count \/ For \/ XmitReturns \/ XmitThrows \/ XmitThrowsOther
           \/ Catch \/ Sleep
  BY <1>4 DEF While, Count, For, XmitReturns, XmitThrows, XmitThrowsOther, Catch, Sleep
<1>5. CASE Fetch
  BY <1>5 DEF Fetch
<1>6. CASE Finalize \/ CloseReturns \/ Terminating \/ UNCHANGED vars
  BY <1>1, <1>6 DEF Finalize, CloseReturns, Terminating, vars
<1> QED
  BY <1>2, <1>3, <1>4, <1>5, <1>6 DEF Next, RpcThread, Broadcaster, Threads

(* While edits do not overlap, a catch block removes a client that did not *)
(* fail only if the entry of the one that did has moved in front of the    *)
(* index or is gone: it is never still behind it, to be called once more.  *)
THEOREM RemovesCalled == Spec => RemovesCalledUnlessMoved
<1>1. Init => CurSent
  BY DEF Init, CurSent
<1>2. IndInv /\ CurSent /\ [Next]_vars => CurSent'
  BY CurSentStep
<1> DEFINE Unmoved == \A k \in i .. size - 1 : items[k] = cur => k = i
<1>3. ASSUME IndInv, CurSent, [Next]_vars
      PROVE  [task = "Catch" /\ task' = "Remove" /\ ~torn' => Unmoved]_vars
  <2> SUFFICES ASSUME Next, task = "Catch", ~torn', NEW k \in i .. size - 1, items[k] = cur
               PROVE  k = i
    BY <1>3
  <2>1. ~torn
    BY <1>3, StaysUntorn
  <2>2. TypeOK /\ SentBehind
    BY <1>3, <2>1 DEF IndInv, TypeInv, SoloInv
  <2>3. k \in Slots /\ k < size /\ k >= i /\ i \in Nat /\ k \in Nat
    BY <2>2, Numbers
  <2>4. k <= i
    BY <1>3, <2>2, <2>3 DEF SentBehind, Live, CurSent
  <2> QED
    BY <2>3, <2>4
<1> QED
  BY <1>1, <1>2, <1>3, Inductive, PTL DEF Spec, RemovesCalledUnlessMoved

-----------------------------------------------------------------------------
(* The entries as a bag of subscriptions, as long as edits do not overlap. *)

Mine(c) == {k \in Entries : items[k] # Null /\ Owner(items[k]) = c}

(* The entries while thread t edits the list and nobody else does.         *)
LEMMA EntriesIs ==
  ASSUME IndInv, ~torn
  PROVE  /\ \A t \in Threads : edit[t] = "RemoveShift" => Entries = 0 .. size \ {at[t]}
         /\ (\A t \in Threads : edit[t] # "RemoveShift") => Entries = 0 .. size - 1
<1>1. Solo
  BY Alone
<1>2. ASSUME NEW t \in Threads, edit[t] = "RemoveShift"
      PROVE  Entries = 0 .. size \ {at[t]}
  <2>1. {u \in Threads : edit[u] = "RemoveShift"} = {t}
    BY <1>1, <1>2 DEF Solo
  <2>2. {at[u] : u \in {v \in Threads : edit[v] = "RemoveShift"}} = {at[t]}
    BY <2>1
  <2> QED
    BY <1>2, <2>2 DEF Entries
<1>3. ASSUME \A t \in Threads : edit[t] # "RemoveShift"
      PROVE  Entries = 0 .. size - 1
  BY <1>3 DEF Entries
<1> QED
  BY <1>2, <1>3

LEMMA MineIsFinite ==
  ASSUME IndInv, NEW c
  PROVE  IsFiniteSet(Mine(c)) /\ Cardinality(Mine(c)) \in Nat
<1>1. size \in Int /\ 0 \in Int /\ size - 1 \in Int
  BY Numbers DEF IndInv, TypeInv
<1>2. Mine(c) \in SUBSET (0 .. size)
  BY <1>1 DEF Mine, Entries
<1>3. IsFiniteSet(0 .. size)
  BY <1>1, FS_Interval
<1>4. IsFiniteSet(Mine(c))
  BY <1>2, <1>3, FS_Subset
<1> QED
  BY <1>4, FS_CardinalityType

(* Most steps neither change a slot nor which slots are entries.           *)
LEMMA QuietStep ==
  ASSUME IndInv, UNCHANGED <<items, size>>,
         \A t \in Threads :
           /\ edit'[t] = "RemoveShift" <=> edit[t] = "RemoveShift"
           /\ edit[t] = "RemoveShift" => at'[t] = at[t]
  PROVE  \A c \in Clients : Mine(c)' = Mine(c)
<1>1. {at'[t] : t \in {u \in Threads : edit'[u] = "RemoveShift"}}
        = {at[t] : t \in {u \in Threads : edit[u] = "RemoveShift"}}
  OBVIOUS
<1>2. Entries' = Entries
  BY <1>1 DEF Entries
<1> QED
  BY <1>2 DEF Mine

(* The Count that Add stores makes an entry of a slot that is clear ...    *)
LEMMA AddSizeMine ==
  ASSUME IndInv, ~torn, NEW c \in Clients, AddSize(c)
  PROVE  \A d \in Clients : Mine(d)' = Mine(d)
<1>1. /\ edit[c] = "AddSize" /\ size' = count[c] + 1 /\ items' = items
      /\ edit' = [edit EXCEPT ![c] = "AddStore"] /\ Solo /\ Tail
      /\ c \in Threads /\ TypeOK /\ Bounds
  BY Alone, Numbers DEF AddSize, Continue, Solo
<1>2. /\ \A t \in Threads : t # c => edit[t] = "none" /\ edit'[t] = "none"
      /\ size \in Nat /\ count[c] = size /\ count[c] < MaxList
      /\ edit'[c] = "AddStore"
  BY <1>1, Numbers DEF Solo, Bounds, TypeOK
<1>3. items[size] = Null
  BY <1>1, <1>2, Numbers DEF Tail, IndInv, TypeInv
<1>4. Entries = 0 .. size - 1 /\ Entries' = 0 .. size' - 1
  <2>1. \A t \in Threads : edit[t] # "RemoveShift" /\ edit'[t] # "RemoveShift"
    BY <1>1, <1>2
  <2> QED
    BY <2>1 DEF Entries
<1>5. \A k : k \in Entries' <=> k \in Entries \/ k = size
  BY <1>1, <1>2, <1>4
<1> QED
  BY <1>1, <1>3, <1>5 DEF Mine

(* ... and the slot that it stores makes it one of the client's.           *)
LEMMA AddStoreMine ==
  ASSUME IndInv, ~torn, NEW c \in Clients, AddStore(c)
  PROVE  /\ Mine(c)' = Mine(c) \cup {count[c]} /\ count[c] \notin Mine(c)
         /\ \A d \in Clients \ {c} : Mine(d)' = Mine(d)
<1>1. /\ edit[c] = "AddStore" /\ size' = size
      /\ items' = [k \in Slots |-> IF k = count[c] THEN <<c, subs[c]>> ELSE items[k]]
      /\ edit' = [edit EXCEPT ![c] = "none"] /\ Solo /\ TypeOK /\ Bounds /\ c \in Threads
  BY Alone, Numbers DEF AddStore, EndEdit
<1>2. /\ \A t \in Threads : t # c => edit[t] = "none" /\ edit'[t] = "none"
      /\ size = count[c] + 1 /\ items[count[c]] = Null /\ edit'[c] = "none"
      /\ count[c] \in Slots /\ count[c] \in Nat
  BY <1>1, Numbers DEF Solo, Bounds, TypeOK
<1>3. Entries = 0 .. size - 1 /\ Entries' = 0 .. size - 1
  <2>1. \A t \in Threads : edit[t] # "RemoveShift" /\ edit'[t] # "RemoveShift"
    BY <1>1, <1>2
  <2> QED
    BY <1>1, <2>1 DEF Entries
<1>4. Entries \subseteq Slots /\ count[c] \in Entries
  BY <1>1, <1>2, <1>3, Numbers
<1>5. \A k \in Slots : items'[k] = IF k = count[c] THEN <<c, subs[c]>> ELSE items[k]
  BY <1>1, <1>2 DEF TypeOK
<1>6. <<c, subs[c]>> # Null /\ Owner(<<c, subs[c]>>) = c
  BY <1>1, ListAssumption, Numbers DEF Regs, Owner
<1>7. \A k : k \in Mine(c)' <=> k \in Mine(c) \/ k = count[c]
  BY <1>3, <1>4, <1>5, <1>6 DEF Mine
<1>8. \A d \in Clients \ {c} : \A k : k \in Mine(d)' <=> k \in Mine(d)
  BY <1>2, <1>3, <1>4, <1>5, <1>6 DEF Mine
<1> QED
  BY <1>2, <1>7, <1>8 DEF Mine

(* The Count that RemoveAt stores takes the entry away that was found.     *)
LEMMA RemoveSizeMine ==
  ASSUME IndInv, EntryInv, ~torn, NEW t \in Threads, RemoveSize(t)
  PROVE  \E c \in Clients :
           /\ Mine(c)' = Mine(c) \ {at[t]} /\ at[t] \in Mine(c)
           /\ \A d \in Clients \ {c} : Mine(d)' = Mine(d)
<1>1. /\ edit[t] = "RemoveSize" /\ size' = count[t] - 1 /\ items' = items /\ at' = at
      /\ edit' = [edit EXCEPT ![t] = "RemoveShift"]
      /\ Solo /\ TypeOK /\ Bounds /\ t \in Threads
  BY Alone, Numbers DEF RemoveSize
<1>2. /\ \A u \in Threads : u # t => edit[u] = "none" /\ edit'[u] = "none"
      /\ edit'[t] = "RemoveShift" /\ size \in Nat /\ size' = size - 1
      /\ at[t] \in Nat /\ at[t] < size
  BY <1>1, Numbers DEF Solo, TypeOK
<1>3. Entries = 0 .. size - 1 /\ Entries' = 0 .. size - 1 \ {at[t]}
  <2>1. \A u \in Threads : edit[u] # "RemoveShift"
    BY <1>1, <1>2
  <2>2. {u \in Threads : edit'[u] = "RemoveShift"} = {t}
    BY <1>1, <1>2
  <2>3. {at[u] : u \in {v \in Threads : edit'[v] = "RemoveShift"}} = {at[t]}
    BY <2>2
  <2> QED
    BY <1>1, <1>2, <2>1, <2>3 DEF Entries
<1>4. at[t] \in Slots /\ items[at[t]] # Null /\ at[t] \in Entries
  BY <1>1, <1>2, <1>3 DEF EntryInv, Sought
<1>5. PICK c \in Clients : Owner(items[at[t]]) = c
  BY <1>1, <1>4 DEF TypeOK, Regs, Owner
<1>6. \A d \in Clients : \A k : k \in Mine(d)' <=> k \in Mine(d) /\ k # at[t]
  BY <1>1, <1>3 DEF Mine
<1>7. at[t] \in Mine(c) /\ \A d \in Clients \ {c} : at[t] \notin Mine(d)
  BY <1>4, <1>5 DEF Mine
<1>8. Mine(c)' = Mine(c) \ {at[t]} /\ \A d \in Clients \ {c} : Mine(d)' = Mine(d)
  BY <1>6, <1>7 DEF Mine
<1> QED
  BY <1>7, <1>8

(* The copy of the tail only moves entries.                                *)
LEMMA RemoveShiftMine ==
  ASSUME IndInv, ~torn, NEW t \in Threads, RemoveShift(t), ~torn', NEW d \in Clients
  PROVE  Cardinality(Mine(d)') = Cardinality(Mine(d))
<1> DEFINE a == at[t]
           f == [k \in Mine(d) |-> IF k < a THEN k ELSE k - 1]
<1>1. /\ edit[t] = "RemoveShift" /\ size' = size /\ items' = Shifted(a, count[t])
      /\ edit' = [edit EXCEPT ![t] = "RemoveClear"]
      /\ Solo /\ TypeOK /\ Bounds /\ t \in Threads
  BY Alone, Numbers, RemoveThrowsInv DEF RemoveShift, Moves, Continue
<1>2. /\ \A u \in Threads : edit'[u] # "RemoveShift"
      /\ size \in Nat /\ a \in Nat /\ a <= size /\ count[t] = size
      /\ size < MaxList
  BY <1>1, Numbers DEF Solo, TypeOK
<1>3. Entries = 0 .. size \ {a} /\ Entries' = 0 .. size - 1
  BY <1>1, <1>2, EntriesIs DEF Entries
<1> HIDE DEF a
<1>4. /\ 0 .. size \subseteq Slots
      /\ \A j \in 0 .. size - 1 : items'[j] = IF a <= j THEN items[j + 1] ELSE items[j]
  <2>1. \A j \in 0 .. size : j \in Slots
    BY <1>2, Numbers, <1>1
  <2>2. \A j \in 0 .. size - 1 :
          j \in 0 .. size /\ (a <= j /\ j < count[t] <=> a <= j)
    BY <1>2
  <2> QED
    BY <1>1, <2>1, <2>2 DEF Shifted
<1>5. \A k \in Mine(d) : f[k] \in Mine(d)'
  <2> SUFFICES ASSUME NEW k \in Mine(d) PROVE f[k] \in Mine(d)'
    OBVIOUS
  <2>1. k \in 0 .. size /\ k # a /\ items[k] # Null /\ Owner(items[k]) = d
    BY <1>3 DEF Mine
  <2>2. f[k] \in 0 .. size - 1 /\ (a <= f[k] => f[k] + 1 = k) /\ (~(a <= f[k]) => f[k] = k)
    BY <1>2, <2>1
  <2>3. items'[f[k]] = items[k]
    BY <1>4, <2>2
  <2> QED
    BY <1>3, <2>1, <2>2, <2>3 DEF Mine
<1>6. \A j, k \in Mine(d) : f[j] = f[k] => j = k
  <2>1. \A k \in Mine(d) : k \in Nat /\ k # a
    BY <1>2, <1>3 DEF Mine
  <2> QED
    BY <1>2, <2>1
<1>7. \A m \in Mine(d)' : \E k \in Mine(d) : f[k] = m
  <2> SUFFICES ASSUME NEW m \in Mine(d)' PROVE \E k \in Mine(d) : f[k] = m
    OBVIOUS
  <2>1. m \in 0 .. size - 1 /\ items'[m] # Null /\ Owner(items'[m]) = d
    BY <1>3 DEF Mine
  <2>2. CASE a <= m
    <3>1. m + 1 \in Entries /\ items[m + 1] = items'[m]
      BY <1>2, <1>3, <1>4, <2>1, <2>2
    <3>2. m + 1 \in Mine(d)
      BY <2>1, <3>1 DEF Mine
    <3> QED
      BY <1>2, <2>1, <2>2, <3>2
  <2>3. CASE ~(a <= m)
    <3>1. m \in Entries /\ items[m] = items'[m] /\ m < a
      BY <1>2, <1>3, <1>4, <2>1, <2>3
    <3>2. m \in Mine(d)
      BY <2>1, <3>1 DEF Mine
    <3> QED
      BY <3>1, <3>2
  <2> QED
    BY <2>2, <2>3
<1>8. f \in Bijection(Mine(d), Mine(d)')
  <2>1. f \in [Mine(d) -> Mine(d)']
    BY <1>5
  <2> HIDE DEF f
  <2>2. f \in Injection(Mine(d), Mine(d)')
    BY <1>6, <2>1 DEF Injection, IsInjective
  <2>3. f \in Surjection(Mine(d), Mine(d)')
    BY <1>7, <2>1 DEF Surjection
  <2> QED
    BY <2>2, <2>3 DEF Bijection
<1>9. IsFiniteSet(Mine(d)) /\ ExistsBijection(Mine(d), Mine(d)')
  BY <1>8, MineIsFinite DEF ExistsBijection
<1> QED
  BY <1>9, FS_Bijection

(* The slot that is cleared is no entry any more.                          *)
LEMMA RemoveClearMine ==
  ASSUME IndInv, ~torn, NEW t \in Threads, RemoveClear(t)
  PROVE  \A d \in Clients : Mine(d)' = Mine(d)
<1>1. /\ edit[t] = "RemoveClear" /\ size' = size
      /\ items' = [j \in Slots |-> IF j = size THEN Null ELSE items[j]]
      /\ edit' = [edit EXCEPT ![t] = "none"] /\ Solo /\ TypeOK /\ t \in Threads
  BY Alone, Numbers DEF RemoveClear, RemoveEnds, EndEdit, Solo
<1>2. \A u \in Threads : edit[u] # "RemoveShift" /\ edit'[u] # "RemoveShift"
  BY <1>1 DEF Solo, TypeOK
<1>3. Entries = 0 .. size - 1 /\ Entries' = 0 .. size - 1
  BY <1>1, <1>2 DEF Entries
<1>4. \A k \in 0 .. size - 1 : k \in Slots /\ k # size
  BY <1>1, Numbers
<1> QED
  BY <1>1, <1>3, <1>4 DEF Mine

LEMMA BagInit == Init => Bag!Init
<1> SUFFICES ASSUME Init PROVE Bag!Init
  OBVIOUS
<1>1. Entries = {}
  BY DEF Init, Entries, Threads
<1>2. \A c \in Clients : Subscribed(c) = 0
  BY <1>1, FS_EmptySet DEF Subscribed
<1> QED
  BY <1>2 DEF Bag!Init

(* What one set of slots less or one more says of the number of            *)
(* subscriptions: one step of the bag.                                     *)
LEMMA OneMore ==
  ASSUME IndInv, NEW c \in Clients, NEW k, Mine(c)' = Mine(c) \cup {k}, k \notin Mine(c),
         \A d \in Clients \ {c} : Mine(d)' = Mine(d)
  PROVE  Bag!Subscribe(c)
<1>1. Cardinality(Mine(c)') = Cardinality(Mine(c)) + 1
  <2>1. Cardinality(Mine(c) \cup {k}) = Cardinality(Mine(c)) + 1
    BY MineIsFinite, FS_AddElement
  <2> QED
    BY <2>1
<1>2. Subscribed(c)' = Subscribed(c) + 1
  BY <1>1 DEF Subscribed, Mine
<1>3. \A d \in Clients \ {c} : Subscribed(d)' = Subscribed(d)
  BY DEF Subscribed, Mine
<1> QED
  BY <1>2, <1>3 DEF Bag!Subscribe

LEMMA OneLess ==
  ASSUME IndInv, NEW c \in Clients, NEW k, Mine(c)' = Mine(c) \ {k}, k \in Mine(c),
         \A d \in Clients \ {c} : Mine(d)' = Mine(d)
  PROVE  Bag!Unsubscribe(c)
<1>1. Cardinality(Mine(c)') = Cardinality(Mine(c)) - 1 /\ Cardinality(Mine(c)) > 0
  <2>1. Cardinality(Mine(c) \ {k}) = Cardinality(Mine(c)) - 1
    BY MineIsFinite, FS_RemoveElement
  <2>2. Cardinality(Mine(c)) # 0
    BY MineIsFinite, FS_EmptySet
  <2> QED
    BY <2>1, <2>2, MineIsFinite
<1>2. Subscribed(c)' = Subscribed(c) - 1 /\ Subscribed(c) > 0
  BY <1>1 DEF Subscribed, Mine
<1>3. \A d \in Clients \ {c} : Subscribed(d)' = Subscribed(d)
  BY DEF Subscribed, Mine
<1> QED
  BY <1>2, <1>3 DEF Bag!Unsubscribe

(* Until edits overlap, every step of the handler, of its clients and of   *)
(* the broadcast is a step of the bag or changes nothing in it.            *)
LEMMA MappedStep ==
  ASSUME IndInv, EntryInv, [Next]_vars, ~torn'
  PROVE  Bag!Next \/ UNCHANGED [c \in Clients |-> Subscribed(c)]
<1> USE DEF listVars, editVars, taskVars
<1> DEFINE Same == \A d \in Clients : Subscribed(d)' = Subscribed(d)
<1>1. ~torn
  BY StaysUntorn
<1>2. TypeOK /\ Bounds /\ COM_MTA \in Threads /\ Clients \subseteq Threads
  BY <1>1, Alone
<1>3. ASSUME \A d \in Clients : Mine(d)' = Mine(d)
      PROVE  Same
  BY <1>3 DEF Subscribed, Mine
<1>4. ASSUME UNCHANGED <<items, size>>,
             \A t \in Threads :
               /\ edit'[t] = "RemoveShift" <=> edit[t] = "RemoveShift"
               /\ edit[t] = "RemoveShift" => at'[t] = at[t]
      PROVE  Same
  BY <1>3, <1>4, QuietStep
<1>5. ASSUME NEW t \in Threads, NEW op, NEW k, NEW n, edit[t] = "none",
             BeginEdit(t, op, k, n), op # "RemoveShift", UNCHANGED <<items, size>>
      PROVE  Same
  <2>1. /\ edit'[t] # "RemoveShift" /\ edit[t] # "RemoveShift"
        /\ \A u \in Threads : u # t => edit'[u] = edit[u] /\ at'[u] = at[u]
    BY <1>2, <1>5 DEF BeginEdit, TypeOK
  <2> QED
    BY <1>4, <1>5, <2>1
<1>6. ASSUME NEW c \in Clients, Subscribe(c) \/ Unsubscribe(c)
      PROVE  Same
  BY <1>2, <1>5, <1>6 DEF Subscribe, Unsubscribe, CanCall
<1>7. ASSUME NEW c \in Clients, Found(c)
      PROVE  Same
  <2>1. /\ UNCHANGED <<items, size>>
        /\ edit[c] # "RemoveShift" /\ edit'[c] # "RemoveShift"
        /\ \A t \in Threads : t # c => edit'[t] = edit[t] /\ at'[t] = at[t]
    BY <1>2, <1>7 DEF Found, EndEdit, TypeOK
  <2> QED
    BY <1>4, <2>1
<1>8. ASSUME NEW c \in Clients, AddSize(c)
      PROVE  Same
  BY <1>1, <1>3, <1>8, AddSizeMine
<1>9. ASSUME NEW c \in Clients, AddStore(c)
      PROVE  Bag!Next
  BY <1>1, <1>9, AddStoreMine, OneMore DEF Bag!Next
<1>10. ASSUME NEW t \in Threads, RemoveSize(t)
       PROVE  Bag!Next
  BY <1>1, <1>10, RemoveSizeMine, OneLess DEF Bag!Next
<1>11. ASSUME NEW t \in Threads, RemoveShift(t)
       PROVE  Same
  BY <1>1, <1>11, RemoveShiftMine DEF Subscribed, Mine
<1>12. ASSUME NEW t \in Threads, RemoveClear(t)
       PROVE  Same
  BY <1>1, <1>3, <1>12, RemoveClearMine
<1>13. ASSUME Catch
       PROVE  Same
  <2>1. CASE BeginEdit(COM_MTA, "RemoveSize", i, size)
    <3>1. edit[COM_MTA] = "none" /\ UNCHANGED <<items, size>>
      BY <1>2, <1>13 DEF Catch, Bounds
    <3> QED
      BY <1>2, <1>5, <2>1, <3>1
  <2>2. CASE UNCHANGED <<edit, at, count, torn>>
    BY <1>4, <1>13, <2>2 DEF Catch
  <2> QED
    BY <1>13, <2>1, <2>2 DEF Catch
<1>14. ASSUME \/ While \/ Count \/ For \/ Fetch \/ XmitReturns \/ XmitThrows
              \/ XmitThrowsOther \/ Sleep
              \/ \E c \in Clients : Disconnect(c) \/ Release(c)
              \/ Finalize \/ CloseReturns \/ Terminating \/ UNCHANGED vars
       PROVE  Same
  <2>1. UNCHANGED <<items, size, edit, at>>
    BY <1>14 DEF While, Count, For, Fetch, XmitReturns, XmitThrows, XmitThrowsOther, Sleep,
       Disconnect, Release, Finalize, CloseReturns, Terminating, vars
  <2> QED
    BY <1>4, <2>1
<1>15. Same => UNCHANGED [c \in Clients |-> Subscribed(c)]
  OBVIOUS
<1>16. Same \/ Bag!Next
  <2> HIDE DEF Same
  <2>1. ASSUME NEW t \in Threads, RemoveAt(t)
        PROVE  Same \/ Bag!Next
    BY <1>10, <1>11, <1>12, <2>1, RereadInv DEF RemoveAt
  <2>2. ASSUME NEW c \in Clients, RpcThread(c)
        PROVE  Same \/ Bag!Next
    BY <1>2, <1>7, <1>8, <1>9, <2>1, <2>2 DEF RpcThread
  <2>3. ASSUME Broadcaster
        PROVE  Same \/ Bag!Next
    BY <1>2, <1>13, <1>14, <2>1, <2>3 DEF Broadcaster
  <2> QED
    BY <1>6, <1>14, <2>2, <2>3 DEF Next
<1> QED
  BY <1>15, <1>16

(* In either apartment and whichever clients fail, the unlocked list is the*)
(* bag of subscriptions that IMyServer promises until two edits overlap:   *)
(* Subscribe adds one entry of its caller, Unsubscribe takes one of its    *)
(* own, a catch block takes one of the client that owned the entry at its  *)
(* index, and no other step, not the halfway states of Add and RemoveAt    *)
(* either, changes how often a client is subscribed.                       *)
THEOREM UntilTorn == Spec => BagUntilTorn
<1>1. IndInv /\ EntryInv /\ [Next]_vars =>
        [torn' \/ Bag!Next \/ UNCHANGED [c \in Clients |-> Subscribed(c)]]_vars
  BY MappedStep
<1> QED
  BY <1>1, BagInit, EntriesHold, Inductive, PTL DEF Spec, BagUntilTorn

-----------------------------------------------------------------------------
(* In a single-threaded apartment, while no client fails, only clients edit*)
(* the list, and one at a time: edits never overlap.                       *)

StaInv ==
  /\ ~torn /\ alive = Clients /\ task \notin {"Catch", "Remove"}
  /\ task = "Call" => cur \in Regs

LEMMA StaStep ==
  ASSUME Apartment = "STA", Failing = {}, IndInv, StaInv, [Next]_vars
  PROVE  StaInv'
<1> USE DEF listVars, editVars, taskVars
<1>1. /\ TypeOK /\ Bounds /\ edit[COM_MTA] = "none"
      /\ COM_MTA \in Threads \ Clients /\ Threads = Clients \cup {COM_MTA}
  BY Alone DEF StaInv, Bounds
<1>2. ASSUME NEW c \in Clients, Subscribe(c) \/ Unsubscribe(c)
      PROVE  StaInv'
  <2>1. \A t \in Threads : edit[t] = "none"
    BY <1>1, <1>2 DEF Subscribe, Unsubscribe, CanCall, Serialized
  <2> QED
    BY <1>2, <2>1 DEF Subscribe, Unsubscribe, BeginEdit, StaInv
<1>3. ASSUME NEW c \in Clients, RpcThread(c)
      PROVE  StaInv'
  <2>1. UNCHANGED <<torn, alive, task, cur>>
    BY <1>1, <1>3 DEF RpcThread, AddSize, AddStore, Found, RemoveAt, Reread, RemoveSize,
       RemoveShift, RemoveClear, RemoveEnds, Continue, EndEdit
  <2> QED
    BY <2>1 DEF StaInv
<1>4. CASE Broadcaster
  <2>1. ~RemoveAt(COM_MTA) /\ ~Catch /\ ~XmitThrowsOther
    BY <1>1 DEF RemoveAt, Reread, RemoveSize, RemoveShift, RemoveClear, Catch,
       XmitThrowsOther, StaInv
  <2>2. ~XmitThrows
    <3>1. task = "Call" => Owner(cur) \in Clients
      BY DEF StaInv, Regs, Owner
    <3> QED
      BY <3>1 DEF XmitThrows, StaInv
  <2>3. UNCHANGED <<torn, alive>> /\ task' \notin {"Catch", "Remove"}
    BY <1>4, <2>1, <2>2 DEF Broadcaster, While, Count, For, Fetch, XmitReturns, Sleep, StaInv
  <2>4. task' = "Call" => cur' \in Regs
    <3>1. CASE Fetch
      <4>1. i \in Slots
        BY <1>1, <3>1, Numbers DEF Fetch, Bounds
      <4> QED
        BY <1>1, <3>1, <4>1 DEF Fetch, Callable, TypeOK
    <3>2. CASE ~Fetch
      BY <1>4, <2>1, <2>2, <3>2 DEF Broadcaster, While, Count, For, XmitReturns, Sleep
    <3> QED
      BY <3>1, <3>2
  <2> QED
    BY <2>3, <2>4 DEF StaInv
<1>5. CASE \/ \E c \in Clients : Disconnect(c) \/ Release(c)
           \/ Finalize \/ CloseReturns \/ Terminating \/ UNCHANGED vars
  <2>1. UNCHANGED <<torn, alive, task, cur>>
    BY <1>5 DEF Disconnect, Release, Finalize, CloseReturns, Terminating, vars
  <2> QED
    BY <2>1 DEF StaInv
<1> QED
  BY <1>2, <1>3, <1>4, <1>5 DEF Next

(* There the list is the bag for good: in a single-threaded apartment,     *)
(* while no client fails, Subscribe and Unsubscribe of MyServerImpl do what*)
(* IMyServer promises, whatever the broadcast reads meanwhile.             *)
THEOREM Implementation ==
  ASSUME Apartment = "STA", Failing = {}
  PROVE  Spec => ImplementsSubscriptions
<1>1. Init => StaInv
  BY DEF Init, StaInv
<1>2. IndInv /\ StaInv /\ [Next]_vars => StaInv'
  BY StaStep
<1>3. StaInv => ~torn
  BY DEF StaInv
<1>4. Spec => [](~torn)
  BY <1>1, <1>2, <1>3, Inductive, PTL DEF Spec
<1>5. IndInv /\ EntryInv /\ [Next]_vars /\ ~torn'
        => [Bag!Next]_[c \in Clients |-> Subscribed(c)]
  BY MappedStep
<1> QED
  BY <1>4, <1>5, BagInit, EntriesHold, Inductive, PTL
  DEF Spec, ImplementsSubscriptions, Bag!Spec
=============================================================================
