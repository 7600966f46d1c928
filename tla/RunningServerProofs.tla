-------------------------- MODULE RunningServerProofs --------------------------
(***************************************************************************)
(* Proofs about RunningServer for any number of objects and locks.  The    *)
(* object count is exact although it is read without a lock, so that what  *)
(* a read of zero misses is what came after that read.                     *)
(***************************************************************************)
EXTENDS RunningServer, FiniteSetTheorems, TLAPS

(* The objects between ComClass() and the end of ~ComClass.                *)
Counted == {o \in Objs : stage[o] \notin {"free", "finalized"}}

CountInv ==
  /\ m_obj_cnt = Cardinality(Counted)
  /\ finalizer # None => stage[finalizer] = "garbage"

(* m_active is set on the way to handing out an object; Main goes on only  *)
(* after it was set.                                                       *)
Passed == {"ReadObjCount", "ReadLockCount", "Revoke", "Returned"}
ServedInv ==
  /\ \A o \in served : stage[o] \in {"held", "garbage", "finalized"}
  /\ m_active => \E o \in Objs : stage[o] = "active" \/ o \in served
  /\ main \in Passed => m_active

(* Once a read of zero has let Main go on, what is there came after it,    *)
(* and what was served before it is finalized.                             *)
LateInv ==
  /\ main \in Passed \ {"ReadObjCount"} =>
       /\ Counted \subseteq late
       /\ \E o \in served : stage[o] = "finalized"
  /\ main \in {"Revoke", "Returned"} /\ m_lock_cnt > 0 => lateLock

(* How each end of the process comes about.                                *)
Unreached ==
  ~registered /\ m_lock_cnt = 0 /\ \A o \in Objs : stage[o] = "free"
EndInv ==
  /\ main = "Register" => Unreached
  /\ process = "exited" => main = "Returned"
  /\ process = "failed" => main = "Register"
  /\ process = "crashed" => finalizer # None /\ thread[finalizer] = "faulted"

IndInv == TypeOK /\ CountInv /\ ServedInv /\ LateInv /\ EndInv

-----------------------------------------------------------------------------

LEMMA Cards ==
  ASSUME NEW S \in SUBSET Objs
  PROVE  /\ IsFiniteSet(S) /\ Cardinality(S) \in Nat
         /\ Cardinality(S) \in 0 .. Cardinality(Objs)
<1>1. IsFiniteSet(S) /\ Cardinality(S) <= Cardinality(Objs)
  BY RunningServerAssumption, FS_Subset
<1>2. Cardinality(S) \in Nat /\ Cardinality(Objs) \in Nat
  BY <1>1, RunningServerAssumption, FS_CardinalityType
<1> QED
  BY <1>1, <1>2

LEMMA InitInv == Init => IndInv
<1> SUFFICES ASSUME Init PROVE IndInv
  OBVIOUS
<1>1. Counted = {}
  BY DEF Init, Counted
<1>2. 0 \in 0 .. Cardinality(Objs) /\ 0 \in -MaxLocks .. MaxLocks
  BY Cards, FS_EmptySet, RunningServerAssumption
<1> QED
  BY <1>1, <1>2, FS_EmptySet DEF Init, IndInv, TypeOK, CountInv, ServedInv,
     LateInv, EndInv, Unreached, Passed

(* Main reads the flag and the counts one after the other.                 *)
LEMMA MainInv ==
  ASSUME IndInv, Main
  PROVE  IndInv'
<1> DEFINE Read == ReadActive \/ ReadObjCount \/ ReadLockCount \/ Sleep
<1> USE DEF At, Running, Passed, objVars, mainVars
<1>1. /\ Counted' = Counted
      /\ UNCHANGED <<m_active, stage, kind, thread, m_obj_cnt, m_lock_cnt, finalizer,
                     served>>
  BY DEF Main, RegisterClass, RegisterFails, ReadActive, ReadObjCount, ReadLockCount,
         Sleep, Revoke, Counted
<1>2. TypeOK'
  <2>1. main' \in {"Register", "ReadActive", "ReadObjCount", "ReadLockCount", "Sleep",
                   "Revoke", "Returned"}
        /\ registered' \in BOOLEAN /\ process' \in {"running", "failed"}
    BY DEF IndInv, TypeOK, Main, RegisterClass, RegisterFails, ReadActive, ReadObjCount,
           ReadLockCount, Sleep, Revoke
  <2>2. late' \subseteq Objs /\ lateLock' \in BOOLEAN
    BY DEF IndInv, TypeOK, Main, RegisterClass, RegisterFails, ReadActive, ReadObjCount,
           ReadLockCount, Sleep, Revoke
  <2> QED
    BY <1>1, <2>1, <2>2 DEF IndInv, TypeOK
<1>3. CountInv'
  BY <1>1 DEF IndInv, CountInv
<1>4. ServedInv'
  BY <1>1 DEF IndInv, ServedInv, Main, RegisterClass, RegisterFails, ReadActive,
              ReadObjCount, ReadLockCount, Sleep, Revoke
<1>5. LateInv'
  <2>1. CASE ReadObjCount
    <3>1. m_obj_cnt = 0 => Counted = {}
      BY Cards, FS_EmptySet DEF IndInv, CountInv, Counted
    <3>2. m_active
      BY <2>1 DEF ReadObjCount, IndInv, ServedInv
    <3>3. Counted = {} => \E o \in served : stage[o] = "finalized"
      BY <3>2 DEF IndInv, ServedInv, Counted
    <3> QED
      BY <1>1, <2>1, <3>1, <3>3 DEF ReadObjCount, LateInv
  <2>2. CASE ReadLockCount
    BY <1>1, <2>2 DEF ReadLockCount, Unlocked, LateInv, IndInv
  <2>3. CASE RegisterClass \/ RegisterFails \/ ReadActive \/ Sleep \/ Revoke
    BY <1>1, <2>3 DEF RegisterClass, RegisterFails, ReadActive, Sleep, Revoke, LateInv,
                      IndInv
  <2> QED
    BY <2>1, <2>2, <2>3 DEF Main
<1>6. EndInv'
  BY <1>1 DEF IndInv, EndInv, Unreached, Main, RegisterClass, RegisterFails, ReadActive,
              ReadObjCount, ReadLockCount, Sleep, Revoke
<1> QED
  BY <1>2, <1>3, <1>4, <1>5, <1>6 DEF IndInv

(* ComClass() counts the new object, which is new to Main, too.            *)
LEMMA ConstructInv ==
  ASSUME IndInv, NEW o \in Objs, CreateInstance(o) \/ GetNumberCruncher(o)
  PROVE  IndInv'
<1> USE DEF mainVars, Running
<1>1. TypeOK /\ CountInv /\ ServedInv /\ LateInv /\ EndInv
  BY DEF IndInv
<1>2. PICK s \in {"constructed", "held"}, k \in {"MyServerImpl", "NumberCruncher"} :
        /\ stage' = [stage EXCEPT ![o] = s] /\ kind' = [kind EXCEPT ![o] = k]
        /\ served' = IF s = "held" THEN served \cup {o} ELSE served
  BY DEF CreateInstance, GetNumberCruncher, Construct
<1>3. /\ stage[o] = "free" /\ process = "running"
      /\ m_obj_cnt' = m_obj_cnt + 1 /\ late' = late \cup {o}
      /\ UNCHANGED <<main, registered, m_active, thread, m_lock_cnt, finalizer,
                     lateLock, process>>
  BY DEF CreateInstance, GetNumberCruncher, Construct, CountUp
<1>4. Counted' = Counted \cup {o} /\ o \notin Counted /\ o \notin served
  BY <1>1, <1>2, <1>3 DEF Counted, TypeOK, ServedInv
<1>5. m_obj_cnt' = Cardinality(Counted')
  <2>1. Cardinality(Counted \cup {o}) = Cardinality(Counted) + 1
    BY <1>4, Cards, FS_AddElement DEF Counted
  <2> QED
    BY <1>1, <1>3, <1>4, <2>1 DEF CountInv
<1>6. TypeOK'
  <2>1. m_obj_cnt' \in 0 .. Cardinality(Objs)
    BY <1>5, Cards DEF Counted
  <2> QED
    BY <1>1, <1>2, <1>3, <2>1 DEF TypeOK
<1>7. CountInv'
  BY <1>1, <1>2, <1>3, <1>5 DEF CountInv, TypeOK
<1>8. ServedInv'
  <2>1. \A p \in Objs \ {o} : stage'[p] = stage[p] /\ (p \in served' <=> p \in served)
    BY <1>1, <1>2 DEF TypeOK
  <2>2. stage'[o] = s /\ (o \in served' => s = "held")
    BY <1>1, <1>2, <1>4 DEF TypeOK
  <2>3. served' \subseteq Objs
    BY <1>6 DEF TypeOK
  <2> QED
    BY <1>1, <1>3, <1>4, <2>1, <2>2, <2>3 DEF ServedInv, TypeOK
<1>9. LateInv'
  <2>1. \A p \in served : p \in served' /\ stage'[p] = stage[p]
    BY <1>1, <1>2, <1>4 DEF TypeOK
  <2> QED
    BY <1>1, <1>3, <1>4, <2>1 DEF LateInv
<1>10. EndInv'
  <2>1. main # "Register"
    <3>1. ~Unreached
      BY DEF CreateInstance, GetNumberCruncher, Unreached, Held
    <3> QED
      BY <1>1, <3>1 DEF EndInv
  <2> QED
    BY <1>1, <1>3, <2>1 DEF EndInv
<1> QED
  BY <1>6, <1>7, <1>8, <1>9, <1>10 DEF IndInv

(* The other steps of an object leave it counted.                          *)
Moves(o) ==
  \/ CreateThread(o) \/ Release(o) \/ Finalize(o) \/ TaskEnds(o) \/ TaskFaults(o)
  \/ FinalizerThrows(o)

LEMMA ObjectInv ==
  ASSUME IndInv, NEW o \in Objs, Moves(o)
  PROVE  IndInv'
<1> USE DEF mainVars, objVars, Running, Moves, CreateThread, StartTask, SetActive,
        Created, ActivationFails, Release, Finalize, TaskEnds, TaskFaults, FinalizerThrows
<1>1. TypeOK /\ CountInv /\ ServedInv /\ LateInv /\ EndInv /\ o # None
  BY RunningServerAssumption DEF IndInv
<1>2. /\ UNCHANGED <<main, registered, kind, m_obj_cnt, m_lock_cnt, late, lateLock>>
      /\ process = "running" /\ process' \in {"running", "crashed"}
  OBVIOUS
<1>3. \/ stage' = stage
      \/ /\ stage' = [stage EXCEPT ![o] = "started"] /\ stage[o] = "constructed"
      \/ /\ stage' = [stage EXCEPT ![o] = "active"] /\ stage[o] = "started"
      \/ /\ stage' = [stage EXCEPT ![o] = "held"] /\ stage[o] = "active"
      \/ /\ stage' = [stage EXCEPT ![o] = "garbage"] /\ stage[o] \in {"started", "held"}
  OBVIOUS
<1>4. \/ m_active' = m_active
      \/ m_active' = TRUE /\ stage' = [stage EXCEPT ![o] = "active"]
  OBVIOUS
<1>5. \/ served' = served /\ (stage[o] = "active" => stage' = stage)
      \/ served' = served \cup {o} /\ stage' = [stage EXCEPT ![o] = "held"]
  OBVIOUS
<1>6. /\ \/ thread' = thread
         \/ \E t \in {"running", "ended", "faulted"} :
              thread' = [thread EXCEPT ![o] = t] /\ process' = "running"
      /\ finalizer' = finalizer \/ (finalizer' = o /\ stage[o] = "garbage")
      /\ process' = "crashed" => finalizer = o /\ thread[o] = "faulted"
                                  /\ UNCHANGED <<finalizer, thread>>
  OBVIOUS
<1> HIDE DEF Moves
<1>7. Counted' = Counted
  BY <1>1, <1>3 DEF Counted, TypeOK
<1>8. TypeOK'
  <2>1. stage' \in [Objs -> {"free", "constructed", "started", "active", "held",
                            "garbage", "finalized"}]
    BY <1>1, <1>3 DEF TypeOK
  <2>2. thread' \in [Objs -> {"none", "running", "ended", "faulted"}]
    BY <1>1, <1>6 DEF TypeOK
  <2>3. m_active' \in BOOLEAN
    BY <1>1, <1>4 DEF TypeOK
  <2>4. served' \subseteq Objs /\ finalizer' \in Objs \cup {None}
    BY <1>1, <1>5, <1>6 DEF TypeOK
  <2> QED
    BY <1>1, <1>2, <2>1, <2>2, <2>3, <2>4 DEF TypeOK
<1>9. CountInv'
  <2>1. finalizer # None => stage'[finalizer] = "garbage"
    BY <1>1, <1>3 DEF CountInv, TypeOK
  <2>2. stage[o] = "garbage" => stage'[o] = "garbage"
    BY <1>1, <1>3 DEF TypeOK
  <2> QED
    BY <1>1, <1>2, <1>6, <1>7, <2>1, <2>2 DEF CountInv
<1>10. ServedInv'
  <2>1. \A p \in served' : stage'[p] \in {"held", "garbage", "finalized"}
    BY <1>1, <1>3, <1>5 DEF ServedInv, TypeOK
  <2>2. ASSUME NEW p \in Objs, stage[p] = "active" \/ p \in served
        PROVE  stage'[p] = "active" \/ p \in served'
    BY <1>1, <1>3, <1>5, <2>2 DEF TypeOK
  <2>3. m_active' => \E p \in Objs : stage'[p] = "active" \/ p \in served'
    BY <1>1, <1>4, <2>2 DEF ServedInv, TypeOK
  <2> QED
    BY <1>1, <1>2, <1>4, <2>1, <2>3 DEF ServedInv
<1>11. LateInv'
  <2>1. \A p \in served : p \in served' /\ (stage[p] = "finalized" => stage'[p] = "finalized")
    BY <1>1, <1>3, <1>5 DEF TypeOK
  <2> QED
    BY <1>1, <1>2, <1>7, <2>1 DEF LateInv
<1>12. EndInv'
  <2>1. CASE Unreached
    <3>1. Unreached'
      BY <1>1, <1>2, <1>3, <2>1 DEF Unreached
    <3> QED
      BY <1>1, <1>2, <1>6, <3>1 DEF EndInv
  <2>2. CASE ~Unreached
    BY <1>1, <1>2, <1>6, <2>2 DEF EndInv
  <2> QED
    BY <2>1, <2>2
<1> QED
  BY <1>8, <1>9, <1>10, <1>11, <1>12 DEF IndInv

(* ~ComClass counts off an object that was counted.                        *)
LEMMA FinalizedInv ==
  ASSUME IndInv, NEW o \in Objs, Finalized(o)
  PROVE  IndInv'
<1>1. TypeOK /\ CountInv /\ ServedInv /\ LateInv /\ EndInv /\ o # None
  BY RunningServerAssumption DEF IndInv
<1>2. /\ stage[o] = "garbage" /\ process = "running" /\ stage' = [stage EXCEPT ![o] = "finalized"]
      /\ m_obj_cnt' = m_obj_cnt - 1 /\ finalizer' = None
      /\ UNCHANGED <<main, registered, m_active, kind, thread, m_lock_cnt, late,
                     lateLock, served, process>>
  BY <1>1 DEF Finalized, CountOff, CountInv, mainVars, Running
<1>3. Counted' = Counted \ {o} /\ o \in Counted
  BY <1>1, <1>2 DEF Counted, TypeOK
<1>4. m_obj_cnt' = Cardinality(Counted')
  <2>1. Cardinality(Counted \ {o}) = Cardinality(Counted) - 1
    BY <1>3, Cards, FS_RemoveElement DEF Counted
  <2> QED
    BY <1>1, <1>2, <1>3, <2>1 DEF CountInv
<1>5. TypeOK'
  <2>1. m_obj_cnt' \in 0 .. Cardinality(Objs)
    BY <1>4, Cards DEF Counted
  <2> QED
    BY <1>1, <1>2, <2>1 DEF TypeOK
<1>6. CountInv'
  BY <1>2, <1>4 DEF CountInv
<1>7. ServedInv'
  <2>1. \A p \in Objs \ {o} : stage'[p] = stage[p]
    BY <1>1, <1>2 DEF TypeOK
  <2>2. stage'[o] = "finalized" /\ served \subseteq Objs
    BY <1>1, <1>2 DEF TypeOK
  <2> QED
    BY <1>1, <1>2, <2>1, <2>2 DEF ServedInv
<1>8. LateInv'
  <2>1. \A p \in served : stage[p] = "finalized" => stage'[p] = "finalized"
    BY <1>1, <1>2 DEF TypeOK
  <2> QED
    BY <1>1, <1>2, <1>3, <2>1 DEF LateInv
<1>9. EndInv'
  BY <1>1, <1>2 DEF EndInv, Unreached
<1> QED
  BY <1>5, <1>6, <1>7, <1>8, <1>9 DEF IndInv

LEMMA LockInv ==
  ASSUME IndInv, LockServer \/ UnlockServer
  PROVE  IndInv'
<1> USE DEF mainVars, objVars, Running
<1>1. /\ UNCHANGED <<mainVars, m_active, objVars, finalizer, late, served, process>>
      /\ lateLock' \in {lateLock, TRUE} /\ process = "running" /\ main # "Register"
  BY DEF LockServer, UnlockServer, IndInv, EndInv, Unreached
<1>2. m_lock_cnt' \in -MaxLocks .. MaxLocks
  BY RunningServerAssumption DEF LockServer, UnlockServer, IndInv, TypeOK
<1>3. LateInv'
  BY DEF LockServer, UnlockServer, IndInv, TypeOK, LateInv, Counted
<1>4. TypeOK'
  BY <1>1, <1>2 DEF IndInv, TypeOK
<1>5. CountInv' /\ ServedInv' /\ EndInv'
  BY <1>1 DEF IndInv, CountInv, Counted, ServedInv, EndInv
<1> QED
  BY <1>3, <1>4, <1>5 DEF IndInv

LEMMA NextInv == IndInv /\ [Next]_vars => IndInv'
<1> SUFFICES ASSUME IndInv, [Next]_vars PROVE IndInv'
  OBVIOUS
<1>1. ASSUME NEW o \in Objs,
             CreateInstance(o) \/ CreateThread(o) \/ GetNumberCruncher(o) \/ Release(o)
               \/ FinalizerThread(o) \/ TaskFaults(o)
      PROVE  IndInv'
  BY <1>1, ConstructInv, ObjectInv, FinalizedInv DEF FinalizerThread, Moves
<1>2. CASE Exit
  BY <1>2 DEF Exit, At, Running, mainVars, objVars, IndInv, TypeOK, CountInv, Counted,
     ServedInv, LateInv, EndInv, Unreached
<1>3. CASE Terminating \/ UNCHANGED vars
  BY <1>3 DEF Terminating, vars, mainVars, objVars, IndInv, TypeOK, CountInv, Counted,
     ServedInv, LateInv, EndInv, Unreached
<1> QED
  BY <1>1, <1>2, <1>3, MainInv, LockInv DEF Next

-----------------------------------------------------------------------------

(* The inductive invariant holds in every reachable state.                 *)
THEOREM Inductive == Spec => []IndInv
BY InitInv, NextInv, PTL DEF Spec

(* Every variable keeps its type: no interleaving of the RPC threads and   *)
(* the finalizer takes the object count below zero.                        *)
THEOREM TypeCorrect == Spec => []TypeOK
<1>1. IndInv => TypeOK
  BY DEF IndInv
<1> QED
  BY Inductive, <1>1, PTL

(* However the process ends, by its return from Main, a failed start or a  *)
(* crash: it takes an object or a lock away only from who got it after     *)
(* Main had read the count, or else the finalizer of an object that nobody *)
(* holds has waited for a task that faulted.                               *)
THEOREM MissesOnlyNewcomers == Spec => []EndMissesOnlyNewcomers
<1>1. ASSUME IndInv, process # "running" PROVE EndMissesOnlyNewcomers
  <2>1. process \in {"exited", "crashed", "failed"}
    BY <1>1 DEF IndInv, TypeOK
  <2>2. CASE process = "exited"
    BY <1>1, <2>2 DEF IndInv, EndInv, LateInv, Passed, Counted, Held,
       EndMissesOnlyNewcomers
  <2>3. CASE process = "crashed"
    BY <1>1, <2>3 DEF IndInv, EndInv, CountInv, EndMissesOnlyNewcomers
  <2>4. CASE process = "failed"
    BY <1>1, <2>4 DEF IndInv, EndInv, Unreached, Held, EndMissesOnlyNewcomers
  <2> QED
    BY <2>1, <2>2, <2>3, <2>4
<1>2. IndInv => EndMissesOnlyNewcomers
  BY <1>1 DEF EndMissesOnlyNewcomers
<1> QED
  BY Inductive, <1>2, PTL

(* A process that COM has started hands out an object, and finalizes it,   *)
(* before it returns from Main.                                            *)
THEOREM ServesFirst == Spec => []NoExitBeforeFirstClient
<1>1. IndInv => NoExitBeforeFirstClient
  BY DEF IndInv, EndInv, LateInv, Passed, NoExitBeforeFirstClient
<1> QED
  BY Inductive, <1>1, PTL
=============================================================================
