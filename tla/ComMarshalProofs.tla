--------------------------- MODULE ComMarshalProofs ---------------------------
(***************************************************************************)
(* ComMarshal, for any threads and pointers: the mutex is exclusive, and   *)
(* assignments and reads are those of PointerRegister.                     *)
(***************************************************************************)
EXTENDS ComMarshal, TLAPS

IndInv == TypeOK /\ Exclusive

LEMMA InitInv == Init => IndInv
  BY MarshalAssumption DEF Init, IndInv, TypeOK, Exclusive, Locked, Pointers

(* One step per action.  In each the thread that moves is inside the lock  *)
(* or enters it while nobody is.                                           *)
LEMMA NextInv == IndInv /\ [Next]_vars => IndInv'
<1> SUFFICES ASSUME IndInv, [Next]_vars PROVE IndInv'
  OBVIOUS
<1> USE MarshalAssumption DEF IndInv, TypeOK, Exclusive, Locked, Pointers, Goto
<1>1. CASE UNCHANGED vars
  BY <1>1 DEF vars
<1>2. ASSUME NEW t \in Threads, CallAssign(t) PROVE IndInv'
  BY <1>2 DEF CallAssign
<1>3. ASSUME NEW t \in Threads, AssignLock(t) PROVE IndInv'
  BY <1>3 DEF AssignLock, Lock
<1>4. ASSUME NEW t \in Threads, CallGet(t) PROVE IndInv'
  BY <1>4 DEF CallGet
<1>5. ASSUME NEW t \in Threads, GetLock(t) PROVE IndInv'
  BY <1>5 DEF GetLock, Lock
<1>6. ASSUME NEW t \in Threads, Clear_internal(t) PROVE IndInv'
  BY <1>6 DEF Clear_internal
<1>7. ASSUME NEW t \in Threads, RoGetAgileReference(t) PROVE IndInv'
  BY <1>7 DEF RoGetAgileReference, Abort
<1>8. ASSUME NEW t \in Threads, Test(t) PROVE IndInv'
  BY <1>8 DEF Test
<1>9. ASSUME NEW t \in Threads, Resolve(t) PROVE IndInv'
  BY <1>9 DEF Resolve, Abort
<1>10. ASSUME NEW t \in Threads, Unlock(t) PROVE IndInv'
  BY <1>10 DEF Unlock
<1> QED
  BY <1>1, <1>2, <1>3, <1>4, <1>5, <1>6, <1>7, <1>8, <1>9, <1>10
  DEF Next, Terminating

(* Every variable keeps its type and the mutex is locked exactly while a   *)
(* thread is inside.                                                       *)
THEOREM TypeCorrect == Spec => []TypeOK
<1>1. IndInv => TypeOK
  BY DEF IndInv
<1> QED
  BY InitInv, NextInv, <1>1, PTL DEF Spec

(* At most one thread is inside, with the reference as it has left it.     *)
THEOREM MutualExclusion == Spec => []Exclusive
<1>1. IndInv => Exclusive
  BY DEF IndInv
<1> QED
  BY InitInv, NextInv, <1>1, PTL DEF Spec

-----------------------------------------------------------------------------
(* The value of the register behind the refinement mapping.                *)
Value == IF Marshalling = {} THEN m_ptr ELSE arg[CHOOSE t \in Marshalling : TRUE]

LEMMA MappedInit == Init => Register!Init
<1> SUFFICES ASSUME Init PROVE Register!Init
  OBVIOUS
<1>1. Marshalling = {}
  BY DEF Init, Marshalling
<1> QED
  BY <1>1 DEF Init, Register!Init

(* Only the thread that has locked the mutex can be the one that marshals. *)
LEMMA MarshallingIsOne ==
  ASSUME IndInv, NEW t \in Threads, pc[t] = "Marshal"
  PROVE  Marshalling = {t}
BY DEF IndInv, Exclusive, Locked, Marshalling

LEMMA OthersDoNotMarshal ==
  ASSUME IndInv, NEW t \in Threads, m_mutex = t, pc[t] # "Marshal"
  PROVE  Marshalling = {}
BY DEF IndInv, Exclusive, Locked, Marshalling

(* Clearing is the moment of an assignment, resolving or finding nothing   *)
(* that of a Get(); all other steps change nothing.                        *)
LEMMA MappedStep ==
  IndInv /\ IndInv' /\ [Next]_vars => [Register!Next]_<<Value, ptr>>
<1> SUFFICES ASSUME IndInv, IndInv', [Next]_vars
             PROVE  [Register!Next]_<<Value, ptr>>
  OBVIOUS
<1> USE DEF Goto
<1>1. CASE UNCHANGED vars
  BY <1>1 DEF vars, Value, Marshalling
<1>2. ASSUME NEW t \in Threads,
             pc[t] # "Marshal", pc'[t] # "Marshal", pc' = [pc EXCEPT ![t] = pc'[t]],
             \A u \in Threads \ {t} : arg'[u] = arg[u], UNCHANGED <<m_ptr, ptr>>
      PROVE  UNCHANGED <<Value, ptr>>
  <2>1. Marshalling' = Marshalling
    BY <1>2 DEF Marshalling, IndInv, TypeOK
  <2>2. t \notin Marshalling
    BY <1>2 DEF Marshalling
  <2>3. Marshalling # {} => (CHOOSE u \in Marshalling : TRUE) \in Threads \ {t}
    BY <2>2 DEF Marshalling
  <2> QED
    BY <1>2, <2>1, <2>3 DEF Value
<1>3. ASSUME NEW t \in Threads,
             CallAssign(t) \/ AssignLock(t) \/ CallGet(t) \/ GetLock(t) \/ Unlock(t)
      PROVE  UNCHANGED <<Value, ptr>>
  BY <1>2, <1>3 DEF CallAssign, AssignLock, CallGet, GetLock, Unlock, Lock,
                    IndInv, TypeOK
<1>4. ASSUME NEW t \in Threads, pc[t] \in {"Clear", "Test", "Resolve"}
      PROVE  Marshalling = {} /\ Value = m_ptr
  BY <1>4, OthersDoNotMarshal DEF IndInv, Exclusive, Locked, Value
<1>5. ASSUME NEW t \in Threads, Clear_internal(t)
      PROVE  Register!Assign(arg[t]) /\ arg[t] \in Pointers
  <2>1. Marshalling = {}
    BY <1>4, <1>5 DEF Clear_internal
  <2>2. Marshalling' = IF arg[t] = Null THEN {} ELSE {t}
    BY <1>5, <2>1 DEF Clear_internal, Marshalling, IndInv, TypeOK
  <2>3. Value' = arg[t]
    BY <1>5, <2>2 DEF Clear_internal, Value
  <2>4. UNCHANGED ptr /\ arg[t] \in Pointers
    BY <1>5 DEF Clear_internal, IndInv, TypeOK
  <2> QED
    BY <2>3, <2>4 DEF Register!Assign, Value
<1>6. ASSUME NEW t \in Threads, RoGetAgileReference(t)
      PROVE  UNCHANGED <<Value, ptr>>
  <2>1. CASE Abort(t, "Marshal")
    BY <2>1 DEF Abort, Value, Marshalling
  <2>2. CASE Goto(t, "Marshal", "Unlock") /\ m_ptr' = arg[t] /\ UNCHANGED <<arg, ptr>>
    <3>1. Marshalling = {t}
      BY <2>2, MarshallingIsOne
    <3>2. Marshalling' = {}
      BY <2>2, <3>1 DEF Marshalling, IndInv, TypeOK
    <3>3. Value = arg[t] /\ Value' = m_ptr'
      BY <3>1, <3>2 DEF Value
    <3> QED
      BY <2>2, <3>3
  <2> QED
    BY <1>6, <2>1, <2>2 DEF RoGetAgileReference
<1>7. ASSUME NEW t \in Threads, Test(t) \/ Resolve(t)
      PROVE  Register!Get(t) \/ UNCHANGED <<Value, ptr>>
  <2>1. CASE Abort(t, "Resolve")
    BY <2>1 DEF Abort, Value, Marshalling
  <2>2. CASE ~Abort(t, "Resolve")
    <3>1. Value = m_ptr /\ Marshalling = {} /\ UNCHANGED m_ptr
      BY <1>4, <1>7, <2>2 DEF Test, Resolve
    <3>2. Marshalling' = {}
      BY <1>7, <2>2, <3>1 DEF Test, Resolve, Marshalling, IndInv, TypeOK
    <3>3. Value' = Value
      BY <3>1, <3>2 DEF Value
    <3>4. UNCHANGED ptr \/ ptr' = [ptr EXCEPT ![t] = m_ptr]
      BY <1>7, <2>2 DEF Test, Resolve
    <3> QED
      BY <3>1, <3>3, <3>4 DEF Register!Get, Value
  <2> QED
    BY <2>1, <2>2
<1>8. Register!Pointers = Pointers
  BY DEF Register!Pointers, Pointers
<1> QED
  BY <1>1, <1>3, <1>5, <1>6, <1>7, <1>8
  DEF Next, Terminating, Register!Next

(* Assignments and reads of all threads are those of a pointer that is     *)
(* assigned and read in single steps, although an assignment clears the    *)
(* reference before it sets it.                                            *)
THEOREM Implementation == Spec => ImplementsRegister
BY InitInv, NextInv, MappedInit, MappedStep, PTL
DEF Spec, ImplementsRegister, Register!Spec, Value
=============================================================================
