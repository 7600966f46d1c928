--------------------------- MODULE MyServerAtlProofs ---------------------------
(***************************************************************************)
(* Proofs about MyServerAtl for any number of clients and subscriptions.   *)
(* While no edit comes into a broadcast its iterator is good for the       *)
(* vector; and with edits what was called stays before the iterator, since *)
(* push_back adds behind all elements and erase only moves them forward.   *)
(***************************************************************************)
EXTENDS MyServerAtl, SequenceTheorems, FiniteSetTheorems, TLAPS

Listed == {m_clients[k] : k \in 1 .. Len(m_clients)}

(* The iterator is in the vector's memory, if not among its elements.      *)
IteratorInv ==
  /\ Broadcasting => it >= 1
  /\ thread \in {"Call", "Catch"} => it <= capacity /\ cur \in Regs

(* A push_back in progress stores what was in no broadcast.                *)
FreshInv ==
  /\ \A c \in Clients : rpc[c] = "push_back" => subs[c] \in 1 .. MaxSubs
  /\ \A r \in Listed \cup sent :
       r[2] <= subs[r[1]] /\ (r[2] = subs[r[1]] => rpc[r[1]] # "push_back")

UniqueInv ==
  \A j, k \in 1 .. Len(m_clients) : m_clients[j] = m_clients[k] => j = k

(* What this broadcast has called is before the iterator, or at it until   *)
(* the call has ended.                                                     *)
SentInv ==
  /\ ~Broadcasting => sent = {}
  /\ \A k \in 1 .. Len(m_clients) : m_clients[k] \in sent =>
       k <= it /\ (thread \in {"For", "Fetch"} => k < it)

(* A broadcast without an edit has a good iterator, at what it calls.      *)
CleanInv ==
  Broadcasting /\ ~raced =>
    /\ ~Editing /\ itBuffer = buffer /\ it <= Len(m_clients) + 1
    /\ thread \in {"Fetch", "Call", "Catch"} => it <= Len(m_clients)
    /\ thread \in {"Call", "Catch"} => m_clients[it] = cur

IndInv ==
  /\ TypeOK /\ IteratorInv /\ FreshInv /\ UniqueInv /\ SentInv
  /\ CleanInv /\ UndefinedOnlyByRace

-----------------------------------------------------------------------------

(* vector::erase: the elements behind move forward by one.                 *)
LEMMA RemoveAtIs ==
  ASSUME NEW S, NEW s \in Seq(S), NEW i \in 1 .. Len(s)
  PROVE  /\ RemoveAt(s, i) \in Seq(S)
         /\ Len(RemoveAt(s, i)) = Len(s) - 1
         /\ \A j \in 1 .. Len(s) - 1 :
              RemoveAt(s, i)[j] = IF j < i THEN s[j] ELSE s[j + 1]
<1> DEFINE n == Len(s)
           a == SubSeq(s, 1, i - 1)
           b == SubSeq(s, i + 1, n)
<1>1. n \in Nat /\ i \in 1 .. n /\ i \in Int /\ \A j \in 1 .. n : s[j] \in S
  BY LenProperties, ElementOfSeq
<1> HIDE DEF n
<1>2. /\ 1 \in Int /\ i - 1 \in Int /\ i + 1 \in Int /\ n \in Int
      /\ \A j \in 1 .. i - 1 : j \in 1 .. n
      /\ \A j \in i + 1 .. n : j \in 1 .. n
  BY <1>1
<1>3. /\ a \in Seq(S)
      /\ Len(a) = IF 1 <= i - 1 THEN i - 1 - 1 + 1 ELSE 0
      /\ \A j \in 1 .. i - 1 - 1 + 1 : a[j] = s[1 + j - 1]
  BY <1>1, <1>2, SubSeqProperties
<1>4. /\ b \in Seq(S)
      /\ Len(b) = IF i + 1 <= n THEN n - (i + 1) + 1 ELSE 0
      /\ \A j \in 1 .. n - (i + 1) + 1 : b[j] = s[i + 1 + j - 1]
  BY <1>1, <1>2, SubSeqProperties
<1>5. /\ a \o b \in Seq(S) /\ Len(a \o b) = Len(a) + Len(b)
      /\ \A j \in 1 .. Len(a) + Len(b) :
           (a \o b)[j] = IF j <= Len(a) THEN a[j] ELSE b[j - Len(a)]
  BY <1>3, <1>4, ConcatProperties
<1> HIDE DEF a, b
<1>6. Len(a) = i - 1 /\ Len(b) = n - i
  BY <1>1, <1>3, <1>4
<1>7. ASSUME NEW j \in 1 .. n - 1
      PROVE  (a \o b)[j] = IF j < i THEN s[j] ELSE s[j + 1]
  <2>1. CASE j < i
    <3>1. j \in 1 .. Len(a) + Len(b) /\ j <= Len(a) /\ j \in 1 .. i - 1 - 1 + 1
          /\ 1 + j - 1 = j
      BY <1>1, <1>6, <2>1
    <3> QED
      BY <1>3, <1>5, <2>1, <3>1
  <2>2. CASE ~(j < i)
    <3>1. /\ j \in 1 .. Len(a) + Len(b) /\ ~(j <= Len(a))
          /\ j - Len(a) \in 1 .. n - (i + 1) + 1
          /\ i + 1 + (j - Len(a)) - 1 = j + 1
      BY <1>1, <1>6, <2>2
    <3> QED
      BY <1>4, <1>5, <2>2, <3>1
  <2> QED
    BY <2>1, <2>2
<1>8. Len(a \o b) = n - 1
  BY <1>1, <1>5, <1>6
<1> QED
  BY <1>5, <1>7, <1>8 DEF RemoveAt, a, b, n

LEMMA GrownIsMore == \A n \in Nat : Grown(n) \in Nat /\ Grown(n) > n
BY DEF Grown

(* The vector of a state that is well typed.                               *)
LEMMA VectorIs ==
  ASSUME TypeOK
  PROVE  /\ Len(m_clients) \in Nat /\ Len(m_clients) <= capacity
         /\ \A k \in 1 .. Len(m_clients) : m_clients[k] \in Regs
         /\ Listed \subseteq Regs
         /\ it \in Nat /\ it <= capacity + 1
<1>1. Len(m_clients) \in Nat /\ \A k \in 1 .. Len(m_clients) : m_clients[k] \in Regs
  BY LenProperties, ElementOfSeq DEF TypeOK
<1> QED
  BY <1>1 DEF TypeOK, Listed

-----------------------------------------------------------------------------

LEMMA InitInv == Init => IndInv
<1> SUFFICES ASSUME Init PROVE IndInv
  OBVIOUS
<1>1. m_clients = <<>> /\ Len(m_clients) = 0 /\ m_clients \in Seq(Regs)
  BY DEF Init
<1>2. Listed = {} /\ ~Broadcasting
  BY <1>1 DEF Init, Listed, Broadcasting
<1>3. TypeOK
  <2>1. 0 \in 0 .. MaxSubs /\ 0 \in 0 .. capacity + 1 /\ Len(m_clients) <= capacity
    BY <1>1, AtlAssumption DEF Init
  <2> QED
    BY <1>1, <2>1 DEF Init, TypeOK
<1> QED
  BY <1>1, <1>2, <1>3 DEF Init, IndInv, IteratorInv, FreshInv, UniqueInv, SentInv,
     CleanInv, UndefinedOnlyByRace

(* A client's call begins an edit of the vector.                           *)
LEMMA BeginInv ==
  ASSUME IndInv, NEW c \in Clients, Subscribe(c) \/ Unsubscribe(c)
  PROVE  IndInv'
<1> USE DEF vectorVars, loopVars
<1>1. /\ TypeOK /\ IteratorInv /\ FreshInv /\ UniqueInv /\ SentInv /\ CleanInv
      /\ object = "alive" /\ rpc[c] = "idle"
  BY DEF IndInv, Subscribe, Unsubscribe, CanCall
<1>2. PICK op \in {"push_back", "erase"} :
        /\ rpc' = [rpc EXCEPT ![c] = op]
        /\ raced' = (raced \/ Broadcasting)
        /\ object' \in {"alive", "undefined"}
        /\ UNCHANGED <<vectorVars, holders, m_active, thread, loopVars>>
        /\ op = "push_back" => /\ subs[c] < MaxSubs
                               /\ subs' = [subs EXCEPT ![c] = @ + 1]
        /\ op = "erase" => subs' = subs
  BY <1>1 DEF Subscribe, Unsubscribe, BeginEdit
<1>3. rpc \in [Clients -> {"idle", "push_back", "erase"}]
      /\ subs \in [Clients -> 0 .. MaxSubs] /\ MaxSubs \in Nat
  BY <1>1, AtlAssumption DEF TypeOK
<1>4. subs' \in [Clients -> 0 .. MaxSubs]
  BY <1>2, <1>3
<1>5. TypeOK'
  <2>1. raced' \in BOOLEAN
    BY <1>1, <1>2 DEF TypeOK, Broadcasting
  <2> QED
    BY <1>1, <1>2, <1>3, <1>4, <2>1 DEF TypeOK
<1>6. Listed' = Listed /\ (Broadcasting' <=> Broadcasting)
  BY <1>2 DEF Listed, Broadcasting
<1>7. IteratorInv' /\ UniqueInv' /\ SentInv'
  BY <1>1, <1>2, <1>6 DEF IteratorInv, UniqueInv, SentInv
<1>8. FreshInv'
  <2>1. \A d \in Clients : rpc'[d] = "push_back" => subs'[d] \in 1 .. MaxSubs
    BY <1>1, <1>2, <1>3 DEF FreshInv
  <2>2. ASSUME NEW r \in Listed \cup sent
        PROVE  r[2] <= subs'[r[1]] /\ (r[2] = subs'[r[1]] => rpc'[r[1]] # "push_back")
    <3>1. /\ r[1] \in Clients /\ r[2] \in Nat /\ r[2] <= subs[r[1]]
          /\ r[2] = subs[r[1]] => rpc[r[1]] # "push_back"
      BY <1>1, VectorIs DEF TypeOK, Regs, FreshInv
    <3>2. CASE r[1] = c /\ op = "push_back"
      BY <1>2, <1>3, <3>1, <3>2
    <3>3. CASE r[1] # c \/ op = "erase"
      BY <1>2, <1>3, <3>1, <3>3
    <3> QED
      BY <3>2, <3>3
  <2> QED
    BY <1>2, <1>6, <2>1, <2>2 DEF FreshInv
<1>9. Editing'
  BY <1>2, <1>3 DEF Editing
<1>10. CleanInv' /\ UndefinedOnlyByRace'
  BY <1>2, <1>6, <1>9 DEF CleanInv, UndefinedOnlyByRace
<1> QED
  BY <1>5, <1>7, <1>8, <1>10 DEF IndInv

(* The end of an edit that keeps the elements' order and uniqueness.       *)
LEMMA EndInv ==
  ASSUME IndInv, NEW c \in Clients, EndEdit(c), Defined, TypeOK', UniqueInv', FreshInv',
         capacity <= capacity',
         \A k \in 1 .. Len(m_clients') : m_clients'[k] \in sent =>
           k <= it /\ (thread \in {"For", "Fetch"} => k < it)
  PROVE  IndInv'
<1>1. /\ UNCHANGED <<thread, it, itBuffer, cur, hr, sent, object>>
      /\ raced' = (raced \/ Broadcasting)
  BY DEF EndEdit, loopVars
<1>2. Broadcasting' <=> Broadcasting
  BY <1>1 DEF Broadcasting
<1>3. IteratorInv'
  <2>1. it <= capacity => it <= capacity'
    BY DEF IndInv, TypeOK
  <2> QED
    BY <1>1, <1>2, <2>1 DEF IndInv, IteratorInv
<1>4. SentInv' /\ CleanInv' /\ UndefinedOnlyByRace'
  BY <1>1, <1>2 DEF IndInv, SentInv, CleanInv, UndefinedOnlyByRace, Defined
<1> QED
  BY <1>3, <1>4 DEF IndInv

LEMMA PushBackInv ==
  ASSUME IndInv, NEW c \in Clients, PushBack(c)
  PROVE  IndInv'
<1> DEFINE n == Len(m_clients)
           x == <<c, subs[c]>>
<1>1. /\ TypeOK /\ FreshInv /\ UniqueInv /\ SentInv /\ EndEdit(c) /\ Defined
      /\ rpc[c] = "push_back" /\ m_clients' = Append(m_clients, x)
      /\ rpc' = [rpc EXCEPT ![c] = "idle"] /\ subs' = subs /\ sent' = sent
      /\ \/ n < capacity /\ capacity' = capacity /\ buffer' = buffer
         \/ ~(n < capacity) /\ capacity' = Grown(capacity) /\ buffer' = buffer + 1
  BY DEF IndInv, PushBack, EndEdit, loopVars
<1>2. x \in Regs
  BY <1>1 DEF FreshInv, Regs
<1>3. n \in Nat /\ n <= capacity /\ m_clients \in Seq(Regs) /\ capacity \in Nat
  BY <1>1, VectorIs DEF TypeOK
<1>4. /\ m_clients' \in Seq(Regs) /\ Len(m_clients') = n + 1
      /\ \A k \in 1 .. n : m_clients'[k] = m_clients[k]
      /\ m_clients'[n + 1] = x
  BY <1>1, <1>2, <1>3
<1>5. x \notin Listed \cup sent
  BY <1>1 DEF FreshInv
<1> HIDE DEF x, n
<1>6. capacity' \in Nat /\ capacity <= capacity' /\ n + 1 <= capacity'
  <2>1. Grown(capacity) \in Nat /\ Grown(capacity) > capacity
    BY <1>3, GrownIsMore
  <2>2. \/ n < capacity /\ capacity' = capacity
        \/ ~(n < capacity) /\ capacity' = Grown(capacity)
    BY <1>1
  <2> HIDE DEF Grown
  <2> QED
    BY <1>3, <2>1, <2>2
<1>7. TypeOK'
  <2>1. it \in 0 .. capacity' + 1 /\ buffer' \in Nat
    <3>1. it \in 0 .. capacity + 1 /\ buffer \in Nat
      BY <1>1 DEF TypeOK
    <3>2. buffer' \in {buffer, buffer + 1}
      BY <1>1
    <3>3. \A a, b \in Nat : a <= b => \A i \in 0 .. a + 1 : i \in 0 .. b + 1
      OBVIOUS
    <3>4. it \in 0 .. capacity' + 1
      BY <1>3, <1>6, <3>1, <3>3
    <3>5. buffer' \in Nat
      BY <3>1, <3>2
    <3> QED
      BY <3>4, <3>5
  <2>2. rpc' \in [Clients -> {"idle", "push_back", "erase"}] /\ raced' \in BOOLEAN
    BY <1>1 DEF TypeOK, EndEdit, Broadcasting
  <2> QED
    BY <1>1, <1>4, <1>6, <2>1, <2>2 DEF TypeOK, EndEdit, loopVars
<1>8. \A k \in 1 .. n + 1 : k \in 1 .. n \/ k = n + 1
  BY <1>3
<1>9. UniqueInv'
  <2>1. \A k \in 1 .. n : m_clients'[k] # x
    BY <1>4, <1>5 DEF Listed, n
  <2>2. \A j, k \in 1 .. n : m_clients'[j] = m_clients'[k] => j = k
    BY <1>1, <1>4 DEF UniqueInv, n
  <2> QED
    BY <1>4, <1>8, <2>1, <2>2 DEF UniqueInv
<1>10. FreshInv'
  <2>1. Listed' = Listed \cup {x}
    <3>1. n + 1 \in 1 .. n + 1 /\ \A k \in 1 .. n : k \in 1 .. n + 1
      BY <1>3
    <3> QED
      BY <1>4, <1>8, <3>1 DEF Listed, n
  <2>2. rpc \in [Clients -> {"idle", "push_back", "erase"}]
    BY <1>1 DEF TypeOK
  <2>3. ASSUME NEW r \in Listed \cup sent
        PROVE  r[2] <= subs[r[1]] /\ (r[2] = subs[r[1]] => rpc'[r[1]] # "push_back")
    BY <1>1, <2>2, VectorIs DEF FreshInv, TypeOK, Regs
  <2>4. x[1] = c /\ x[2] = subs[c] /\ subs[c] <= subs[c] /\ rpc'[c] = "idle"
    BY <1>1, <2>2 DEF x, TypeOK
  <2>5. \A d \in Clients : rpc'[d] = "push_back" => subs'[d] \in 1 .. MaxSubs
    BY <1>1, <2>2 DEF FreshInv
  <2> QED
    BY <1>1, <2>1, <2>3, <2>4, <2>5 DEF FreshInv
<1>11. \A k \in 1 .. Len(m_clients') : m_clients'[k] \in sent =>
         k <= it /\ (thread \in {"For", "Fetch"} => k < it)
  BY <1>1, <1>4, <1>5, <1>8 DEF SentInv, n
<1> QED
  BY <1>1, <1>6, <1>7, <1>9, <1>10, <1>11, EndInv

(* What an erase of the element at k does to the facts about elements.     *)
LEMMA RemovedIs ==
  ASSUME TypeOK, UniqueInv, NEW k \in 1 .. Len(m_clients),
         m_clients' = RemoveAt(m_clients, k)
  PROVE  /\ m_clients' \in Seq(Regs) /\ Len(m_clients') = Len(m_clients) - 1
         /\ Len(m_clients) \in Nat
         /\ \A j \in 1 .. Len(m_clients') :
              /\ j \in 1 .. Len(m_clients) /\ j + 1 \in 1 .. Len(m_clients)
              /\ j < k => m_clients'[j] = m_clients[j]
              /\ ~(j < k) => m_clients'[j] = m_clients[j + 1]
         /\ UniqueInv' /\ Listed' \subseteq Listed
<1> DEFINE n == Len(m_clients)
<1>1. n \in Nat /\ m_clients \in Seq(Regs) /\ k \in 1 .. n
  BY VectorIs DEF TypeOK
<1>2. /\ m_clients' \in Seq(Regs) /\ Len(m_clients') = n - 1
      /\ \A j \in 1 .. n - 1 :
           m_clients'[j] = IF j < k THEN m_clients[j] ELSE m_clients[j + 1]
  BY <1>1, RemoveAtIs
<1>3. \A i, j \in 1 .. n : m_clients[i] = m_clients[j] => i = j
  BY DEF UniqueInv
<1>4. Listed = {m_clients[j] : j \in 1 .. n}
  BY DEF Listed
<1> HIDE DEF n
<1>5. \A j \in 1 .. n - 1 : j \in 1 .. n /\ j + 1 \in 1 .. n
  BY <1>1
<1>6. UniqueInv'
  <2> SUFFICES ASSUME NEW i \in 1 .. n - 1, NEW j \in 1 .. n - 1,
                      m_clients'[i] = m_clients'[j]
               PROVE  i = j
    BY <1>2 DEF UniqueInv
  <2>1. i \in Int /\ j \in Int
    OBVIOUS
  <2>2. CASE i < k /\ j < k
    BY <1>2, <1>3, <1>5, <2>2
  <2>3. CASE i < k /\ ~(j < k)
    BY <1>1, <1>2, <1>3, <1>5, <2>3
  <2>4. CASE ~(i < k) /\ j < k
    BY <1>1, <1>2, <1>3, <1>5, <2>4
  <2>5. CASE ~(i < k) /\ ~(j < k)
    <3>1. m_clients[i + 1] = m_clients[j + 1]
      BY <1>2, <2>5
    <3>2. i + 1 = j + 1
      BY <1>3, <1>5, <3>1
    <3> QED
      BY <2>1, <3>2
  <2> QED
    BY <2>2, <2>3, <2>4, <2>5
<1>7. Listed' \subseteq Listed
  BY <1>2, <1>4, <1>5 DEF Listed
<1> QED
  BY <1>1, <1>2, <1>5, <1>6, <1>7 DEF n

LEMMA EraseInv ==
  ASSUME IndInv, NEW c \in Clients, Erase(c)
  PROVE  IndInv'
<1>1. /\ TypeOK /\ FreshInv /\ UniqueInv /\ SentInv /\ EndEdit(c) /\ Defined
      /\ rpc' = [rpc EXCEPT ![c] = "idle"] /\ subs' = subs /\ sent' = sent
      /\ UNCHANGED <<capacity, buffer>>
  BY DEF IndInv, Erase, EndEdit, loopVars
<1>2. PICK k \in 1 .. Len(m_clients) : m_clients' = RemoveAt(m_clients, k)
  BY DEF Erase, Positions
<1>3. /\ m_clients' \in Seq(Regs) /\ Len(m_clients') = Len(m_clients) - 1
      /\ Len(m_clients) \in Nat
      /\ \A j \in 1 .. Len(m_clients') :
           /\ j \in 1 .. Len(m_clients) /\ j + 1 \in 1 .. Len(m_clients)
           /\ j < k => m_clients'[j] = m_clients[j]
           /\ ~(j < k) => m_clients'[j] = m_clients[j + 1]
      /\ UniqueInv' /\ Listed' \subseteq Listed
  BY <1>1, <1>2, RemovedIs
<1>4. rpc \in [Clients -> {"idle", "push_back", "erase"}] /\ capacity \in Nat /\ it \in Nat
  BY <1>1, VectorIs DEF TypeOK
<1>5. TypeOK'
  <2>1. Len(m_clients') <= capacity'
    BY <1>1, <1>3, <1>4 DEF TypeOK
  <2>2. rpc' \in [Clients -> {"idle", "push_back", "erase"}] /\ raced' \in BOOLEAN
    BY <1>1, <1>4 DEF TypeOK, EndEdit, Broadcasting
  <2> QED
    BY <1>1, <1>3, <2>1, <2>2 DEF TypeOK, EndEdit, loopVars
<1>6. FreshInv'
  <2>1. \A d \in Clients : rpc'[d] = "push_back" => rpc[d] = "push_back"
    BY <1>1, <1>4
  <2>2. \A r \in Listed \cup sent : r[1] \in Clients
    BY <1>1, VectorIs DEF TypeOK, Regs
  <2> QED
    BY <1>1, <1>3, <2>1, <2>2 DEF FreshInv
<1>7. ASSUME NEW j \in 1 .. Len(m_clients'), m_clients'[j] \in sent
      PROVE  j <= it /\ (thread \in {"For", "Fetch"} => j < it)
  <2>1. CASE j < k
    BY <1>1, <1>3, <1>7, <2>1 DEF SentInv
  <2>2. CASE ~(j < k)
    <3>1. j + 1 <= it
      BY <1>1, <1>3, <1>7, <2>2 DEF SentInv
    <3> QED
      BY <1>4, <3>1
  <2> QED
    BY <2>1, <2>2
<1>8. capacity <= capacity'
  BY <1>1, <1>4
<1> QED
  BY <1>1, <1>3, <1>5, <1>6, <1>7, <1>8, EndInv

(* The erase of the broadcast's catch block takes away what is called, or  *)
(* what has moved into its place.                                          *)
LEMMA CatchEraseInv ==
  ASSUME IndInv, CatchErase
  PROVE  IndInv'
<1>1. /\ TypeOK /\ IteratorInv /\ FreshInv /\ UniqueInv /\ SentInv /\ CleanInv
      /\ UndefinedOnlyByRace /\ thread = "Catch" /\ Broadcasting
  BY DEF IndInv, CatchErase, At, Broadcasting
<1>2. CASE (Editing \/ ~Points) /\ Undefined
  BY <1>1, <1>2 DEF Undefined, IndInv, vectorVars, rpcVars, loopVars, TypeOK,
     IteratorInv, FreshInv, UniqueInv, SentInv, CleanInv, UndefinedOnlyByRace, Listed,
     Broadcasting, Editing, Points
<1>3. CASE /\ ~Editing /\ Points
           /\ m_clients' = RemoveAt(m_clients, it)
           /\ it' = it /\ cur' = NoReg /\ hr' = "S_OK"
           /\ thread' = "For"
           /\ UNCHANGED <<capacity, buffer, rpcVars, holders, m_active, itBuffer, sent,
                          raced, object>>
  <2>1. it \in 1 .. Len(m_clients) /\ Len(m_clients) \in Nat
    BY <1>1, <1>3, VectorIs DEF IteratorInv, Points
  <2>2. /\ m_clients' \in Seq(Regs) /\ Len(m_clients') = Len(m_clients) - 1
        /\ \A j \in 1 .. Len(m_clients') :
             /\ j \in 1 .. Len(m_clients) /\ j + 1 \in 1 .. Len(m_clients)
             /\ j < it => m_clients'[j] = m_clients[j]
             /\ ~(j < it) => m_clients'[j] = m_clients[j + 1]
        /\ UniqueInv' /\ Listed' \subseteq Listed
    BY <1>1, <1>3, <2>1, RemovedIs
  <2>3. TypeOK'
    <3>1. Len(m_clients') <= capacity'
      BY <1>1, <1>3, <2>1, <2>2 DEF TypeOK
    <3> QED
      BY <1>1, <1>3, <2>2, <3>1 DEF TypeOK, rpcVars
  <2>4. IteratorInv' /\ FreshInv'
    BY <1>1, <1>3, <2>1, <2>2 DEF IteratorInv, FreshInv, rpcVars
  <2>5. SentInv'
    <3>1. ASSUME NEW j \in 1 .. Len(m_clients'), m_clients'[j] \in sent
          PROVE  j < it
      <4>1. CASE ~(j < it)
        <5>1. j + 1 <= it
          BY <1>1, <2>2, <3>1, <4>1 DEF SentInv
        <5> QED
          BY <2>1, <4>1, <5>1
      <4> QED
        BY <4>1
    <3>2. \A j \in 1 .. Len(m_clients') : j < it => j <= it
      BY <2>1
    <3> QED
      BY <1>3, <3>1, <3>2 DEF SentInv, Broadcasting
  <2>6. CleanInv'
    <3>1. it <= Len(m_clients') + 1
      BY <2>1, <2>2
    <3> QED
      BY <1>1, <1>3, <3>1 DEF CleanInv, Broadcasting, Editing, rpcVars
  <2>7. UndefinedOnlyByRace'
    BY <1>1, <1>3 DEF UndefinedOnlyByRace, Editing, rpcVars
  <2> QED
    BY <2>2, <2>3, <2>4, <2>5, <2>6, <2>7 DEF IndInv
<1> QED
  BY <1>2, <1>3 DEF CatchErase, AfterErase

(* A step that leaves the vector and the calls in progress alone.          *)
Calm == UNCHANGED <<vectorVars, rpcVars, holders>>

LEMMA CalmInv ==
  ASSUME IndInv, Calm
  PROVE  /\ Listed' = Listed /\ UniqueInv' /\ (Editing' <=> Editing)
         /\ sent' = sent => FreshInv'
BY DEF IndInv, Calm, vectorVars, rpcVars, Listed, UniqueInv, Editing, FreshInv

(* What is undefined comes from an edit.                                   *)
LEMMA UndefinedInv ==
  ASSUME IndInv, Undefined, raced \/ Editing
  PROVE  IndInv'
BY DEF Undefined, IndInv, vectorVars, rpcVars, loopVars, TypeOK, IteratorInv, FreshInv,
       UniqueInv, SentInv, CleanInv, UndefinedOnlyByRace, Listed, Broadcasting, Editing

LEMMA RoundInv ==
  ASSUME IndInv, While \/ Size \/ Sleep
  PROVE  IndInv'
<1>1. /\ TypeOK /\ UndefinedOnlyByRace /\ ~Broadcasting /\ sent = {} /\ Defined
      /\ UniqueInv /\ FreshInv
  BY DEF IndInv, SentInv, While, Size, Sleep, At, Broadcasting
<1>2. CASE Editing /\ Undefined
  BY <1>2, UndefinedInv
<1>3. CASE /\ ~Editing /\ Len(m_clients) > 0
           /\ thread' = "For" /\ it' = 1 /\ itBuffer' = buffer /\ raced' = FALSE
           /\ UNCHANGED <<vectorVars, rpcVars, holders, m_active, cur, hr, sent, object>>
  <2>1. Len(m_clients) \in Nat /\ Len(m_clients) <= capacity /\ capacity \in Nat
    BY <1>1, VectorIs DEF TypeOK
  <2>2. 1 \in 0 .. capacity + 1 /\ 1 <= Len(m_clients) + 1
    BY <2>1
  <2>3. /\ Listed' = Listed /\ UniqueInv' /\ (Editing' <=> Editing) /\ FreshInv'
    BY <1>3, CalmInv DEF Calm
  <2>4. TypeOK'
    BY <1>1, <1>3, <2>2 DEF TypeOK, vectorVars, rpcVars
  <2>5. IteratorInv' /\ SentInv' /\ CleanInv'
    BY <1>1, <1>3, <2>2, <2>3 DEF IteratorInv, SentInv, CleanInv, Broadcasting, vectorVars
  <2>6. UndefinedOnlyByRace'
    BY <1>1, <1>3 DEF UndefinedOnlyByRace, Defined
  <2> QED
    BY <2>3, <2>4, <2>5, <2>6 DEF IndInv
<1>4. CASE /\ thread' \in {"Size", "Done", "Sleep", "While"}
           /\ UNCHANGED <<vectorVars, rpcVars, holders, m_active, loopVars, raced, object>>
  BY <1>1, <1>4 DEF IndInv, TypeOK, IteratorInv, FreshInv, UniqueInv, SentInv, CleanInv,
     UndefinedOnlyByRace, Listed, Broadcasting, Editing, vectorVars, rpcVars, loopVars
<1> QED
  BY <1>2, <1>3, <1>4 DEF While, Size, Sleep

LEMMA LoopInv ==
  ASSUME IndInv, For \/ Fetch
  PROVE  IndInv'
<1>1. /\ TypeOK /\ UndefinedOnlyByRace /\ Broadcasting /\ Defined /\ it >= 1
      /\ UniqueInv /\ FreshInv /\ CleanInv /\ SentInv /\ thread \in {"For", "Fetch"}
      /\ it \in Nat /\ Len(m_clients) \in Nat /\ Len(m_clients) <= capacity
      /\ \A k \in 1 .. Len(m_clients) : m_clients[k] \in Regs
  BY VectorIs DEF IndInv, For, Fetch, At, Broadcasting, IteratorInv
<1>2. CASE Editing /\ Undefined
  BY <1>2, UndefinedInv
<1>3. CASE /\ ~Editing /\ AtEnd /\ thread = "For"
           /\ thread' = "Sleep" /\ it' = 0 /\ itBuffer' = 0 /\ sent' = {}
           /\ UNCHANGED <<vectorVars, rpcVars, holders, m_active, cur, hr, raced, object>>
  <2>1. Listed' = Listed /\ UniqueInv' /\ (Editing' <=> Editing)
    BY <1>3, CalmInv DEF Calm
  <2>2. FreshInv'
    BY <1>1, <1>3, <2>1 DEF FreshInv, rpcVars
  <2>3. TypeOK'
    <3>1. 0 \in 0 .. capacity + 1
      BY <1>1 DEF TypeOK
    <3> QED
      BY <1>1, <1>3, <3>1 DEF TypeOK, vectorVars, rpcVars
  <2> QED
    BY <1>1, <1>3, <2>1, <2>2, <2>3
    DEF IndInv, IteratorInv, SentInv, CleanInv, UndefinedOnlyByRace, Broadcasting, Defined
<1>4. CASE /\ ~Editing /\ ~AtEnd /\ thread = "For" /\ thread' = "Fetch"
           /\ UNCHANGED <<vectorVars, rpcVars, holders, m_active, loopVars, raced, object>>
  <2>1. Listed' = Listed /\ UniqueInv' /\ (Editing' <=> Editing) /\ FreshInv'
    BY <1>4, CalmInv DEF Calm, loopVars
  <2>2. TypeOK' /\ IteratorInv' /\ SentInv' /\ UndefinedOnlyByRace'
    BY <1>1, <1>4 DEF TypeOK, IteratorInv, SentInv, UndefinedOnlyByRace, Broadcasting,
       Defined, vectorVars, rpcVars, loopVars
  <2>3. CleanInv'
    <3>1. ~raced => itBuffer = buffer /\ it <= Len(m_clients)
      BY <1>1, <1>4 DEF CleanInv, AtEnd
    <3>2. it <= Len(m_clients) => it <= Len(m_clients) + 1
      BY <1>1
    <3> QED
      BY <1>4, <2>1, <3>1, <3>2 DEF CleanInv, Broadcasting, vectorVars, loopVars
  <2> QED
    BY <2>1, <2>2, <2>3 DEF IndInv
<1>5. CASE (Editing \/ ~Points) /\ Undefined /\ thread = "Fetch"
  BY <1>1, <1>5, UndefinedInv DEF CleanInv, Points
<1>6. CASE /\ ~Editing /\ Points /\ thread = "Fetch"
           /\ cur' = m_clients[it] /\ sent' = sent \cup {m_clients[it]}
           /\ thread' = "Call"
           /\ UNCHANGED <<vectorVars, rpcVars, holders, m_active, it, itBuffer, hr, raced, object>>
  <2>1. it \in 1 .. Len(m_clients) /\ it <= capacity /\ m_clients[it] \in Regs
        /\ m_clients[it] \in Listed
    BY <1>1, <1>6 DEF Points, Listed, TypeOK
  <2>2. Listed' = Listed /\ UniqueInv' /\ (Editing' <=> Editing)
    BY <1>6, CalmInv DEF Calm
  <2>3. FreshInv'
    BY <1>1, <1>6, <2>1, <2>2 DEF FreshInv, rpcVars
  <2>4. TypeOK' /\ IteratorInv'
    BY <1>1, <1>6, <2>1 DEF TypeOK, IteratorInv, Broadcasting, vectorVars, rpcVars
  <2>5. SentInv'
    <3>1. ASSUME NEW k \in 1 .. Len(m_clients), m_clients[k] \in sent \cup {m_clients[it]}
          PROVE  k <= it
      <4>1. CASE m_clients[k] \in sent
        BY <1>1, <3>1, <4>1 DEF SentInv
      <4>2. CASE m_clients[k] = m_clients[it]
        BY <1>1, <2>1, <3>1, <4>2 DEF UniqueInv
      <4> QED
        BY <3>1, <4>1, <4>2
    <3> QED
      BY <1>6, <3>1 DEF SentInv, Broadcasting, vectorVars
  <2>6. CleanInv' /\ UndefinedOnlyByRace'
    BY <1>1, <1>6, <2>1, <2>2 DEF CleanInv, UndefinedOnlyByRace, Broadcasting, Defined,
       vectorVars
  <2> QED
    BY <2>2, <2>3, <2>4, <2>5, <2>6 DEF IndInv
<1> QED
  BY <1>2, <1>3, <1>4, <1>5, <1>6 DEF For, Fetch, At

LEMMA CallInv ==
  ASSUME IndInv, UseAfterRelease \/ XmitReturns \/ XmitThrows \/ CatchOther
  PROVE  IndInv'
<1>1. /\ TypeOK /\ UndefinedOnlyByRace /\ Broadcasting /\ Defined /\ it >= 1
      /\ UniqueInv /\ FreshInv /\ CleanInv /\ SentInv /\ thread \in {"Call", "Catch"}
      /\ it \in Nat /\ Len(m_clients) \in Nat /\ it <= capacity /\ cur \in Regs
      /\ capacity \in Nat /\ buffer \in Nat
  BY VectorIs DEF IndInv, TypeOK, UseAfterRelease, XmitReturns, XmitThrows, CatchOther,
     At, Broadcasting, IteratorInv
<1>2. CASE UseAfterRelease
  <2>1. Undefined /\ thread = "Call" /\ \A k \in 1 .. Len(m_clients) : m_clients[k] # cur
    BY <1>2 DEF UseAfterRelease, At
  <2>2. raced \/ Editing
    BY <1>1, <2>1 DEF CleanInv
  <2> QED
    BY <2>1, <2>2, UndefinedInv
<1>3. CASE /\ it' = it + 1 /\ cur' = NoReg /\ hr' \in {hr, "S_OK"} /\ thread' = "For"
           /\ UNCHANGED <<vectorVars, rpcVars, holders, m_active, itBuffer, sent, raced,
                          object>>
  <2>1. Listed' = Listed /\ UniqueInv' /\ (Editing' <=> Editing) /\ FreshInv'
    BY <1>3, CalmInv DEF Calm
  <2>2. it + 1 \in 0 .. capacity + 1 /\ it + 1 >= 1
    BY <1>1
  <2>3. TypeOK' /\ IteratorInv'
    BY <1>1, <1>3, <2>2 DEF TypeOK, IteratorInv, Broadcasting, vectorVars, rpcVars
  <2>4. SentInv'
    <3>1. ASSUME NEW k \in 1 .. Len(m_clients), m_clients[k] \in sent
          PROVE  k <= it + 1 /\ k < it + 1
      <4>1. k <= it
        BY <1>1, <3>1 DEF SentInv
      <4> QED
        BY <1>1, <4>1
    <3> QED
      BY <1>1, <1>3, <3>1 DEF SentInv, Broadcasting, vectorVars
  <2>5. CleanInv'
    <3>1. it <= Len(m_clients) => it + 1 <= Len(m_clients) + 1
      BY <1>1
    <3> QED
      BY <1>1, <1>3, <2>1, <3>1 DEF CleanInv, Broadcasting, vectorVars
  <2>6. UndefinedOnlyByRace'
    BY <1>1, <1>3 DEF UndefinedOnlyByRace, Defined
  <2> QED
    BY <2>1, <2>3, <2>4, <2>5, <2>6 DEF IndInv
<1>4. CASE XmitThrows
  <2>1. /\ hr' \in Errors /\ thread = "Call" /\ thread' = "Catch"
        /\ UNCHANGED <<vectorVars, rpcVars, holders, m_active, it, itBuffer, cur, sent,
                       raced, object>>
    BY <1>4 DEF XmitThrows, At
  <2>2. Listed' = Listed /\ UniqueInv' /\ (Editing' <=> Editing) /\ FreshInv'
    BY <2>1, CalmInv DEF Calm
  <2>3. TypeOK' /\ IteratorInv' /\ SentInv' /\ UndefinedOnlyByRace'
    BY <1>1, <2>1 DEF TypeOK, IteratorInv, SentInv, UndefinedOnlyByRace, Broadcasting,
       Defined, vectorVars, rpcVars
  <2>4. CleanInv'
    BY <1>1, <2>1, <2>2 DEF CleanInv, Broadcasting, vectorVars
  <2> QED
    BY <2>2, <2>3, <2>4 DEF IndInv
<1> QED
  BY <1>2, <1>3, <1>4 DEF XmitReturns, CatchOther, Advance

(* References to the object, and its destructor.                           *)
LEMMA LifeInv ==
  ASSUME IndInv,
         \/ \E c \in Clients : Release(c)
         \/ Destroy \/ Join \/ Terminating \/ UNCHANGED vars
  PROVE  IndInv'
<1>1. /\ UNCHANGED <<vectorVars, rpcVars, thread, loopVars, raced>>
      /\ holders' \subseteq holders
      /\ m_active' \in {m_active, FALSE}
      /\ object' = object \/ object' \in {"joining", "gone"}
  BY DEF Release, Destroy, Join, Terminating, vars, vectorVars, rpcVars, loopVars
<1>2. TypeOK'
  <2>1. UNCHANGED <<m_clients, capacity, buffer, rpc, subs, thread, it, itBuffer, cur,
                    hr, sent, raced>>
    BY <1>1 DEF vectorVars, rpcVars, loopVars
  <2>2. /\ holders' \subseteq Clients /\ m_active' \in BOOLEAN
        /\ object' \in {"alive", "joining", "gone", "undefined"}
    BY <1>1 DEF IndInv, TypeOK
  <2> QED
    BY <2>1, <2>2 DEF IndInv, TypeOK
<1>3. IteratorInv' /\ FreshInv' /\ UniqueInv'
  BY <1>1 DEF IndInv, IteratorInv, FreshInv, UniqueInv, Listed, Broadcasting,
              vectorVars, rpcVars, loopVars
<1>4. SentInv' /\ CleanInv' /\ UndefinedOnlyByRace'
  BY <1>1 DEF IndInv, SentInv, CleanInv, UndefinedOnlyByRace, Broadcasting, Editing,
              vectorVars, rpcVars, loopVars
<1> QED
  BY <1>2, <1>3, <1>4 DEF IndInv

LEMMA NextInv == IndInv /\ [Next]_vars => IndInv'
<1> SUFFICES ASSUME IndInv, [Next]_vars PROVE IndInv'
  OBVIOUS
<1>1. CASE \E c \in Clients : Subscribe(c) \/ Unsubscribe(c) \/ RpcThread(c)
  BY <1>1, BeginInv, PushBackInv, EraseInv DEF RpcThread
<1>2. CASE ThreadStart
  BY <1>2, RoundInv, LoopInv, CallInv, CatchEraseInv DEF ThreadStart
<1>3. CASE \/ \E c \in Clients : Release(c)
           \/ Destroy \/ Join \/ Terminating \/ UNCHANGED vars
  BY <1>3, LifeInv
<1> QED
  BY <1>1, <1>2, <1>3 DEF Next

-----------------------------------------------------------------------------

(* The inductive invariant holds in every reachable state.                 *)
THEOREM Inductive == Spec => []IndInv
BY InitInv, NextInv, PTL DEF Spec

(* Every variable keeps its type; the iterator never passes the end of the *)
(* vector's memory.                                                        *)
THEOREM TypeCorrect == Spec => []TypeOK
<1>1. IndInv => TypeOK
  BY DEF IndInv
<1> QED
  BY Inductive, <1>1, PTL

(* The broadcast is defined by itself: only an edit that comes into it can *)
(* make an access undefined.                                               *)
THEOREM OnlyByRace == Spec => []UndefinedOnlyByRace
<1>1. IndInv => UndefinedOnlyByRace
  BY DEF IndInv
<1> QED
  BY Inductive, <1>1, PTL

(* A disconnected client is the one that is erased.                        *)
THEOREM ErasesCalled == Spec => ErasesCalledUnlessRaced
<1>1. IndInv => (CatchErase /\ ~raced => object' = "undefined" \/ m_clients[it] = cur)
  BY DEF IndInv, CleanInv, CatchErase, At, Broadcasting
<1>2. IndInv /\ [Next]_vars
        => [CatchErase /\ ~raced => object' = "undefined" \/ m_clients[it] = cur]_vars
  BY <1>1
<1> QED
  BY Inductive, <1>2, PTL DEF Spec, ErasesCalledUnlessRaced

(* No registration is called twice in a broadcast, edits or not.           *)
THEOREM CalledOnce == Spec => CalledOncePerRound
<1>1. ASSUME IndInv, [Next]_vars
      PROVE  [thread = "Fetch" /\ thread' = "Call" => cur' \notin sent]_vars
  <2>1. SUFFICES ASSUME Next, thread = "Fetch", thread' = "Call"
                 PROVE  cur' \notin sent
    BY <1>1
  <2>2. Fetch
    BY <2>1 DEF Next, Subscribe, Unsubscribe, RpcThread, PushBack, Erase, EndEdit,
       Release, ThreadStart, While, Size, For, UseAfterRelease, XmitReturns, XmitThrows,
       CatchErase, CatchOther, Sleep, Undefined, At, Destroy, Join, Terminating, vars
  <2>3. Points /\ cur' = m_clients[it]
    BY <2>1, <2>2 DEF Fetch, Undefined
  <2>4. it \in 1 .. Len(m_clients)
    BY <1>1, <2>1, <2>3, VectorIs DEF IndInv, IteratorInv, Broadcasting, Points
  <2>5. ~(it < it)
    BY <1>1, VectorIs DEF IndInv
  <2> QED
    BY <1>1, <2>1, <2>3, <2>4, <2>5 DEF IndInv, SentInv
<1> QED
  BY Inductive, <1>1, PTL DEF Spec, CalledOncePerRound

-----------------------------------------------------------------------------
(* Behind the iterator of a broadcast without an edit all has been called. *)

SweptInv ==
  Broadcasting /\ ~raced =>
    \A k \in 1 .. Len(m_clients) :
      k < it \/ (k = it /\ thread \in {"Call", "Catch"}) => m_clients[k] \in sent

(* What has been swept stays before the iterator when the loop advances.   *)
LEMMA SweptStep ==
  ASSUME IndInv, SweptInv, [Next]_vars
  PROVE  SweptInv'
<1>1. TypeOK /\ Len(m_clients) \in Nat /\ it \in Nat
  BY VectorIs DEF IndInv
<1>2. CASE \E c \in Clients : Subscribe(c) \/ Unsubscribe(c) \/ RpcThread(c)
  <2>1. (raced' = (raced \/ Broadcasting)) /\ thread' = thread
    BY <1>2 DEF Subscribe, Unsubscribe, BeginEdit, RpcThread, PushBack, Erase, EndEdit
  <2> QED
    BY <2>1 DEF SweptInv, Broadcasting
<1>3. ASSUME UNCHANGED <<m_clients, thread, it, sent, raced>>
      PROVE  SweptInv'
  BY <1>3 DEF SweptInv, Broadcasting
<1>4. CASE \/ \E c \in Clients : Release(c)
           \/ Destroy \/ Join \/ Terminating \/ UNCHANGED vars
  BY <1>3, <1>4 DEF Release, Destroy, Join, Terminating, vars, vectorVars, loopVars
<1>5. CASE Undefined
  BY <1>3, <1>5 DEF Undefined, vectorVars, loopVars
<1>6. CASE (While \/ Size \/ Sleep) /\ ~Undefined
  <2>1. Broadcasting' => thread' = "For" /\ it' = 1
    BY <1>6 DEF While, Size, Sleep, Broadcasting
  <2> QED
    BY <2>1 DEF SweptInv
<1>7. CASE For /\ ~Undefined
  <2>1. Broadcasting' => /\ thread = "For" /\ thread' = "Fetch"
                         /\ UNCHANGED <<m_clients, it, sent, raced>>
    BY <1>7 DEF For, At, Broadcasting, vectorVars, loopVars
  <2> QED
    BY <2>1 DEF SweptInv, Broadcasting
<1>8. CASE Fetch /\ ~Undefined
  <2>1. /\ thread = "Fetch" /\ sent' = sent \cup {m_clients[it]}
        /\ UNCHANGED <<m_clients, it, raced>>
    BY <1>8 DEF Fetch, At, vectorVars
  <2> QED
    BY <2>1 DEF SweptInv, Broadcasting
<1>9. CASE XmitReturns \/ CatchOther
  <2>1. /\ thread \in {"Call", "Catch"} /\ thread' = "For" /\ it' = it + 1
        /\ UNCHANGED <<m_clients, sent, raced>>
    BY <1>9 DEF XmitReturns, CatchOther, Advance, At, vectorVars
  <2>2. \A k \in 1 .. Len(m_clients) : k < it + 1 => k < it \/ k = it
    BY <1>1
  <2> QED
    BY <2>1, <2>2 DEF SweptInv, Broadcasting
<1>10. CASE XmitThrows
  <2>1. /\ thread = "Call" /\ thread' = "Catch"
        /\ UNCHANGED <<m_clients, it, sent, raced>>
    BY <1>10 DEF XmitThrows, At, vectorVars
  <2> QED
    BY <2>1 DEF SweptInv, Broadcasting
<1>11. CASE CatchErase /\ ~Undefined
  <2>1. /\ thread = "Catch" /\ thread' = "For" /\ Points /\ it' = it
        /\ m_clients' = RemoveAt(m_clients, it) /\ UNCHANGED <<sent, raced>>
    BY <1>11 DEF CatchErase, AfterErase, At
  <2>2. it \in 1 .. Len(m_clients)
    BY <1>1, <2>1 DEF IndInv, IteratorInv, Points, Broadcasting
  <2>3. \A j \in 1 .. Len(m_clients') :
          j \in 1 .. Len(m_clients) /\ (j < it => m_clients'[j] = m_clients[j])
    BY <2>1, <2>2, RemovedIs DEF IndInv
  <2> QED
    BY <2>1, <2>3 DEF SweptInv, Broadcasting
<1>12. CASE UseAfterRelease
  BY <1>5, <1>12 DEF UseAfterRelease
<1> QED
  BY <1>2, <1>4, <1>5, <1>6, <1>7, <1>8, <1>9, <1>10, <1>11, <1>12 DEF Next, ThreadStart

(* A broadcast without an edit leaves nobody out: the loop ends only when  *)
(* everything before the end of the vector has been called.                *)
THEOREM CallsAll == Spec => CallsAllUnlessRaced
<1>1. Init => SweptInv
  BY DEF Init, SweptInv, Broadcasting
<1>2. IndInv /\ SweptInv /\ [Next]_vars => SweptInv'
  BY SweptStep
<1> DEFINE All == \A k \in 1 .. Len(m_clients) : m_clients[k] \in sent
<1>3. ASSUME IndInv, SweptInv, [Next]_vars
      PROVE  [thread = "For" /\ thread' = "Sleep" /\ ~raced => All]_vars
  <2> SUFFICES ASSUME Next, thread = "For", thread' = "Sleep", ~raced
               PROVE  All
    BY <1>3
  <2>1. AtEnd
    BY DEF Next, Subscribe, Unsubscribe, RpcThread, PushBack, Erase, EndEdit, Release,
       ThreadStart, While, Size, For, Fetch, UseAfterRelease, XmitReturns, XmitThrows,
       CatchErase, CatchOther, Sleep, Undefined, At, Destroy, Join, Terminating, vars
  <2>2. Len(m_clients) \in Nat /\ it = Len(m_clients) + 1
    BY <1>3, <2>1, VectorIs DEF IndInv, AtEnd
  <2>3. \A k \in 1 .. Len(m_clients) : k < it
    BY <2>2
  <2> QED
    BY <1>3, <2>3 DEF SweptInv, Broadcasting
<1> QED
  BY <1>1, <1>2, <1>3, Inductive, PTL DEF Spec, CallsAllUnlessRaced

-----------------------------------------------------------------------------
(* The vector as a bag of subscriptions.                                   *)

LEMMA PositionsFinite ==
  ASSUME TypeOK, NEW c
  PROVE  IsFiniteSet(Positions(c)) /\ Cardinality(Positions(c)) \in Nat
<1>1. IsFiniteSet(1 .. Len(m_clients))
  BY VectorIs, FS_Interval
<1>2. Positions(c) \subseteq 1 .. Len(m_clients)
  BY DEF Positions
<1>3. IsFiniteSet(Positions(c))
  BY <1>1, <1>2, FS_Subset
<1> QED
  BY <1>3, FS_CardinalityType

(* push_back gives its client one position more and moves nothing.         *)
LEMMA PushBackBag ==
  ASSUME IndInv, NEW c \in Clients, PushBack(c)
  PROVE  Bag!Subscribe(c)
<1> DEFINE n == Len(m_clients)
<1>1. /\ TypeOK /\ n \in Nat /\ m_clients \in Seq(Regs)
      /\ m_clients' = Append(m_clients, <<c, subs[c]>>) /\ <<c, subs[c]>> \in Regs
  BY VectorIs DEF IndInv, PushBack, TypeOK, FreshInv, Regs
<1>2. /\ Len(m_clients') = n + 1
      /\ \A k \in 1 .. n : m_clients'[k] = m_clients[k]
      /\ m_clients'[n + 1] = <<c, subs[c]>>
  BY <1>1, AppendProperties
<1> HIDE DEF n
<1>3. /\ 1 .. n + 1 = (1 .. n) \cup {n + 1} /\ n + 1 \notin 1 .. n
      /\ Owner(m_clients'[n + 1]) = c
  BY <1>1, <1>2 DEF Owner
<1>4. \A d : Positions(d) = {k \in 1 .. n : Owner(m_clients[k]) = d}
  BY DEF Positions, n
<1>5. \A d : Positions(d)' = {k \in 1 .. n + 1 : Owner(m_clients'[k]) = d}
  BY <1>2 DEF Positions
<1>6. Positions(c)' = Positions(c) \cup {n + 1} /\ n + 1 \notin Positions(c)
  BY <1>2, <1>3, <1>4, <1>5
<1>7. \A d \in Clients \ {c} : Positions(d)' = Positions(d)
  BY <1>2, <1>3, <1>4, <1>5
<1>8. Cardinality(Positions(c) \cup {n + 1}) = Cardinality(Positions(c)) + 1
  BY <1>1, <1>6, PositionsFinite, FS_AddElement
<1>9. Cardinality(Positions(c)') = Cardinality(Positions(c)) + 1
  BY <1>6, <1>8
<1>10. \A d \in Clients \ {c} : Cardinality(Positions(d)') = Cardinality(Positions(d))
  BY <1>7
<1> QED
  BY <1>9, <1>10 DEF Bag!Subscribe, Positions

(* erase takes one position from the owner of what it erases; what is      *)
(* behind moves forward and keeps its owner.                               *)
LEMMA RemovedPositions ==
  ASSUME TypeOK, NEW p \in 1 .. Len(m_clients), m_clients' = RemoveAt(m_clients, p),
         NEW d
  PROVE  Cardinality(Positions(d)') = Cardinality(Positions(d) \ {p})
<1> DEFINE n == Len(m_clients)
           S == Positions(d) \ {p}
           T == {k \in 1 .. n - 1 : Owner(m_clients'[k]) = d}
           f == [k \in S |-> IF k < p THEN k ELSE k - 1]
<1>1. /\ n \in Nat /\ p \in Nat /\ p >= 1 /\ p <= n
      /\ Len(m_clients') = n - 1
      /\ \A j \in 1 .. n - 1 :
           m_clients'[j] = IF j < p THEN m_clients[j] ELSE m_clients[j + 1]
  BY VectorIs, RemoveAtIs DEF TypeOK
<1>2. Positions(d)' = T
  BY <1>1 DEF Positions
<1>3. \A k : k \in S <=> k \in 1 .. n /\ k # p /\ Owner(m_clients[k]) = d
  BY DEF Positions
<1>4. \A m : m \in T <=> m \in 1 .. n - 1 /\ Owner(m_clients'[m]) = d
  OBVIOUS
<1>5. \A k \in S : f[k] = IF k < p THEN k ELSE k - 1
  OBVIOUS
<1>6. DOMAIN f = S /\ f = [k \in S |-> f[k]]
  OBVIOUS
<1>7. IsFiniteSet(S)
  BY PositionsFinite, FS_Subset
<1> HIDE DEF n, S, T, f
<1>8. \A k \in S : f[k] \in T
  <2> SUFFICES ASSUME NEW k \in S PROVE f[k] \in T
    OBVIOUS
  <2>1. k \in 1 .. n /\ k # p /\ Owner(m_clients[k]) = d
    BY <1>3
  <2>2. /\ f[k] \in 1 .. n - 1 /\ (f[k] < p => f[k] = k)
        /\ (~(f[k] < p) => f[k] + 1 = k)
    BY <1>1, <1>5, <2>1
  <2>3. m_clients'[f[k]] = m_clients[k]
    BY <1>1, <2>2
  <2> QED
    BY <1>4, <2>1, <2>2, <2>3
<1>9. \A j, k \in S : f[j] = f[k] => j = k
  <2>1. \A k \in S : k \in Nat /\ k # p
    BY <1>1, <1>3
  <2> QED
    BY <1>1, <1>5, <2>1
<1>10. \A m \in T : \E k \in S : f[k] = m
  <2> SUFFICES ASSUME NEW m \in T PROVE \E k \in S : f[k] = m
    OBVIOUS
  <2>1. m \in 1 .. n - 1 /\ Owner(m_clients'[m]) = d
    BY <1>4
  <2>2. CASE m < p
    <3>1. m \in S
      BY <1>1, <1>3, <2>1, <2>2
    <3> QED
      BY <1>5, <2>2, <3>1
  <2>3. CASE ~(m < p)
    <3>0. m + 1 \in 1 .. n
      BY <1>1, <2>1
    <3>1. ASSUME NEW k \in 1 .. n, k = m + 1
          PROVE  \E q \in S : f[q] = m
      <4>1. k # p /\ ~(k < p) /\ k - 1 = m
        BY <1>1, <2>1, <2>3, <3>1
      <4>2. k \in S
        BY <1>1, <1>3, <2>1, <2>3, <3>1, <4>1
      <4>3. f[k] = m
        BY <1>5, <4>1, <4>2
      <4> QED
        BY <4>2, <4>3
    <3> QED
      BY <3>0, <3>1, Zenon
  <2> QED
    BY <2>2, <2>3
<1>11. f \in [S -> T]
  BY <1>6, <1>8
<1>12. f \in Injection(S, T)
  BY <1>9, <1>11 DEF Injection, IsInjective
<1>13. f \in Surjection(S, T)
  BY <1>10, <1>11 DEF Surjection
<1>14. f \in Bijection(S, T)
  BY <1>12, <1>13 DEF Bijection
<1>15. ExistsBijection(S, T)
  BY <1>14 DEF ExistsBijection
<1>16. Cardinality(T) = Cardinality(S)
  BY <1>7, <1>15, FS_Bijection
<1> QED
  BY <1>2, <1>16 DEF S

LEMMA EraseBag ==
  ASSUME TypeOK, NEW p \in 1 .. Len(m_clients), m_clients' = RemoveAt(m_clients, p),
         NEW c \in Clients, Owner(m_clients[p]) = c
  PROVE  Bag!Unsubscribe(c)
<1>1. p \in Positions(c) /\ \A d : d # c => p \notin Positions(d)
  BY DEF Positions
<1>2. /\ Cardinality(Positions(c) \ {p}) = Cardinality(Positions(c)) - 1
      /\ Cardinality(Positions(c)) # 0 /\ Cardinality(Positions(c)) \in Nat
  BY <1>1, PositionsFinite, FS_RemoveElement, FS_EmptySet
<1>3. Cardinality(Positions(c)') = Cardinality(Positions(c)) - 1
      /\ Cardinality(Positions(c)) > 0
  BY <1>2, RemovedPositions
<1>4. ASSUME NEW d \in Clients, d # c
      PROVE  Cardinality(Positions(d)') = Cardinality(Positions(d))
  <2>1. Positions(d) \ {p} = Positions(d)
    BY <1>1, <1>4
  <2>2. Cardinality(Positions(d)') = Cardinality(Positions(d) \ {p})
    BY RemovedPositions
  <2> QED
    BY <2>1, <2>2
<1> QED
  BY <1>3, <1>4 DEF Bag!Unsubscribe, Positions

(* Every step is a step of the bag or leaves the vector as it is.          *)
LEMMA MappedStep ==
  ASSUME IndInv, [Next]_vars
  PROVE  [Bag!Next]_[c \in Clients |-> Cardinality(Positions(c))]
<1>1. TypeOK /\ IteratorInv
  BY DEF IndInv
<1>2. ASSUME m_clients' = m_clients
      PROVE  UNCHANGED [c \in Clients |-> Cardinality(Positions(c))]
  BY <1>2 DEF Positions
<1>3. ASSUME NEW c \in Clients, PushBack(c)
      PROVE  Bag!Next
  BY <1>3, PushBackBag DEF Bag!Next
<1>4. ASSUME NEW c \in Clients, Erase(c)
      PROVE  Bag!Next
  <2>1. PICK p \in Positions(c) : m_clients' = RemoveAt(m_clients, p)
    BY <1>4 DEF Erase
  <2>2. p \in 1 .. Len(m_clients) /\ Owner(m_clients[p]) = c
    BY <2>1 DEF Positions
  <2> QED
    BY <1>1, <2>1, <2>2, EraseBag DEF Bag!Next
<1>5. ASSUME CatchErase, m_clients' # m_clients
      PROVE  Bag!Next
  <2>1. Points /\ thread = "Catch" /\ m_clients' = RemoveAt(m_clients, it)
    BY <1>5 DEF CatchErase, At, Undefined, vectorVars
  <2>2. it \in 1 .. Len(m_clients)
    BY <1>1, <2>1, VectorIs DEF Points, IteratorInv, Broadcasting
  <2>3. Owner(m_clients[it]) \in Clients
    BY <1>1, <2>2, VectorIs DEF Regs, Owner
  <2> QED
    BY <1>1, <2>1, <2>2, <2>3, EraseBag DEF Bag!Next
<1>6. ASSUME NEW c \in Clients, Subscribe(c) \/ Unsubscribe(c) \/ Release(c)
      PROVE  m_clients' = m_clients
  BY <1>6 DEF Subscribe, Unsubscribe, Release, vectorVars
<1>7. ASSUME \/ While \/ Size \/ For \/ Fetch \/ UseAfterRelease \/ XmitReturns
             \/ XmitThrows \/ CatchOther \/ Sleep
      PROVE  m_clients' = m_clients
  BY <1>7 DEF While, Size, For, Fetch, UseAfterRelease, XmitReturns, XmitThrows,
     CatchOther, Sleep, Undefined, vectorVars
<1>8. ASSUME Destroy \/ Join \/ Terminating \/ UNCHANGED vars
      PROVE  m_clients' = m_clients
  BY <1>8 DEF Destroy, Join, Terminating, vars, vectorVars
<1>9. m_clients' = m_clients \/ Bag!Next
  BY <1>3, <1>4, <1>5, <1>6, <1>7, <1>8 DEF Next, RpcThread, ThreadStart
<1> QED
  BY <1>2, <1>9

(* While all is defined the vector is the bag of subscriptions that        *)
(* IMyServer promises: each Subscribe adds one of its caller, each         *)
(* Unsubscribe takes one of its own, the catch block takes one of the      *)
(* client that is under the iterator, and no other step, the broadcast's   *)
(* or another client's, changes how often a client is subscribed.          *)
THEOREM Implementation == Spec => ImplementsSubscriptions
<1>1. Init => Bag!Init
  <2>1. Init => \A c \in Clients : Positions(c) = {}
    BY DEF Init, Positions
  <2> QED
    BY <2>1, FS_EmptySet DEF Bag!Init
<1>2. IndInv /\ [Next]_vars => [Bag!Next]_[c \in Clients |-> Cardinality(Positions(c))]
  BY MappedStep
<1> QED
  BY <1>1, <1>2, Inductive, PTL DEF Spec, ImplementsSubscriptions, Bag!Spec
=============================================================================
