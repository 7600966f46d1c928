------------------------------ MODULE ComMarshal ------------------------------
(***************************************************************************)
(* support/ComMarshal.hpp: threads of different apartments share one       *)
(* interface pointer, kept as an agile reference behind a mutex.  An       *)
(* assignment first clears the old reference and then marshals the new     *)
(* pointer; a Get() finds the reference and then unmarshals it.  A failure *)
(* of either ends the process.                                             *)
(***************************************************************************)
CONSTANTS
  Threads,  \* the threads that use the object
  Ptrs,     \* the interface pointers they assign
  Null,     \* the empty pointer
  Free      \* the mutex is not locked

Pointers == Ptrs \cup {Null}

ASSUME MarshalAssumption == Null \notin Ptrs /\ Free \notin Threads

VARIABLES
  m_mutex,  \* the thread that has locked it
  m_ptr,    \* the object behind the agile reference
  pc,       \* where each thread is
  arg,      \* what it assigns
  ptr,      \* what its last Get() returned
  process   \* "running" or "aborted"

vars == <<m_mutex, m_ptr, pc, arg, ptr, process>>

Init ==
  /\ m_mutex = Free /\ m_ptr = Null
  /\ pc = [t \in Threads |-> "idle"]
  /\ arg = [t \in Threads |-> Null] /\ ptr = [t \in Threads |-> Null]
  /\ process = "running"

Goto(t, from, to) ==
  /\ process = "running" /\ pc[t] = from
  /\ pc' = [pc EXCEPT ![t] = to]

(* lock_guard<mutex> lock(m_mutex)                                         *)
Lock(t, from, to) ==
  /\ Goto(t, from, to)
  /\ m_mutex = Free /\ m_mutex' = t
  /\ UNCHANGED <<m_ptr, arg, ptr, process>>

Abort(t, at) ==
  /\ process = "running" /\ pc[t] = at
  /\ process' = "aborted"
  /\ UNCHANGED <<m_mutex, m_ptr, pc, arg, ptr>>

-----------------------------------------------------------------------------
(* operator =                                                              *)

CallAssign(t) ==
  /\ Goto(t, "idle", "AssignLock")
  /\ \E p \in Pointers : arg' = [arg EXCEPT ![t] = p]
  /\ UNCHANGED <<m_mutex, m_ptr, ptr, process>>

AssignLock(t) == Lock(t, "AssignLock", "Clear")

Clear_internal(t) ==
  /\ Goto(t, "Clear", IF arg[t] = Null THEN "Unlock" ELSE "Marshal")
  /\ m_ptr' = Null
  /\ UNCHANGED <<m_mutex, arg, ptr, process>>

RoGetAgileReference(t) ==
  \/ /\ Goto(t, "Marshal", "Unlock")
     /\ m_ptr' = arg[t]
     /\ UNCHANGED <<m_mutex, arg, ptr, process>>
  \/ Abort(t, "Marshal")

-----------------------------------------------------------------------------
(* Get                                                                     *)

CallGet(t) ==
  /\ Goto(t, "idle", "GetLock")
  /\ UNCHANGED <<m_mutex, m_ptr, arg, ptr, process>>

GetLockMutant(t) ==
  /\ Goto(t, "GetLock", "Test")
  /\ UNCHANGED <<m_mutex, m_ptr, arg, ptr, process>>
GetLock(t) == Lock(t, "GetLock", "Test")

(* if (!m_ptr) return CComPtr<T>()                                         *)
TestMutant(t) ==
  \/ /\ m_ptr = Null
     /\ Goto(t, "Test", "idle")
     /\ ptr' = [ptr EXCEPT ![t] = Null]
     /\ UNCHANGED <<m_mutex, m_ptr, arg, process>>
  \/ /\ m_ptr # Null
     /\ Goto(t, "Test", "Resolve")
     /\ UNCHANGED <<m_mutex, m_ptr, arg, ptr, process>>
Test(t) ==
  \/ /\ m_ptr = Null
     /\ Goto(t, "Test", "Unlock")
     /\ ptr' = [ptr EXCEPT ![t] = Null]
     /\ UNCHANGED <<m_mutex, m_ptr, arg, process>>
  \/ /\ m_ptr # Null
     /\ Goto(t, "Test", "Resolve")
     /\ UNCHANGED <<m_mutex, m_ptr, arg, ptr, process>>

Resolve(t) ==
  \/ /\ Goto(t, "Resolve", "Unlock")
     /\ ptr' = [ptr EXCEPT ![t] = m_ptr]
     /\ UNCHANGED <<m_mutex, m_ptr, arg, process>>
  \/ Abort(t, "Resolve")

(* ~lock_guard, on every way out.                                          *)
Unlock(t) ==
  /\ Goto(t, "Unlock", "idle")
  /\ m_mutex' = Free /\ arg' = [arg EXCEPT ![t] = Null]
  /\ UNCHANGED <<m_ptr, ptr, process>>

Terminating == process = "aborted" /\ UNCHANGED vars

Next ==
  \/ \E t \in Threads :
       \/ CallAssign(t) \/ AssignLock(t) \/ Clear_internal(t) \/ RoGetAgileReference(t)
       \/ CallGet(t) \/ GetLock(t) \/ Test(t) \/ Resolve(t)
       \/ Unlock(t)
  \/ Terminating

Spec == Init /\ [][Next]_vars

-----------------------------------------------------------------------------
(* Properties.                                                             *)

Locked == {"Clear", "Marshal", "Test", "Resolve", "Unlock"}

(* Every variable holds a value of its type, and the mutex is locked while *)
(* and only while a thread is inside.                                      *)
TypeOK ==
  /\ m_mutex \in Threads \cup {Free}
  /\ m_ptr \in Pointers
  /\ pc \in [Threads -> {"idle", "AssignLock", "GetLock"} \cup Locked]
  /\ arg \in [Threads -> Pointers] /\ ptr \in [Threads -> Pointers]
  /\ process \in {"running", "aborted"}
  /\ m_mutex = Free <=> \A t \in Threads : pc[t] \notin Locked

(* At most one thread is between lock and unlock; the reference it has     *)
(* tested is there when it resolves it, and is cleared while it marshals.  *)
Exclusive ==
  \A t \in Threads :
    /\ pc[t] \in Locked => m_mutex = t
    /\ pc[t] = "Marshal" => m_ptr = Null /\ arg[t] # Null
    /\ pc[t] = "Resolve" => m_ptr # Null

(* The empty reference between clearing and marshalling is never seen: the *)
(* operations of all threads are those of a pointer that is assigned and   *)
(* read in single steps.                                                   *)
Marshalling == {t \in Threads : pc[t] = "Marshal"}
Register == INSTANCE PointerRegister WITH
  value <- IF Marshalling = {} THEN m_ptr ELSE arg[CHOOSE t \in Marshalling : TRUE],
  got <- ptr
ImplementsRegister == Register!Spec
=============================================================================
