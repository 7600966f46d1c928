---------------------------- MODULE RunningServer ----------------------------
(***************************************************************************)
(* The lifetime of the process of MyExeServerCs when COM starts it with    *)
(* -Embedding.  Program.Main registers the class factory, polls m_active,  *)
(* the object count and the lock count without a lock until the process    *)
(* is unused, revokes the factory and returns.  RPC threads run            *)
(* BasicClassFactory.CreateInstance and .LockServer and GetNumberCruncher  *)
(* meanwhile, and the finalizer thread runs ~MyServerImpl, ~NumberCruncher *)
(* and ~ComClass of what no client holds any more.  The process ends when  *)
(* its foreground threads have: Main and the broadcast tasks of ComTask.   *)
(***************************************************************************)
EXTENDS Integers, FiniteSets

CONSTANTS
  Objs,      \* bound: the COM objects this process may create
  MaxLocks,  \* bound: how far LockServer takes the count from zero, up or down
  None       \* no object

ASSUME RunningServerAssumption ==
  IsFiniteSet(Objs) /\ MaxLocks \in Nat /\ None \notin Objs

VARIABLES
  main,        \* where Program.Main is
  registered,  \* the class factory can be reached
  m_active,    \* RunningServer.m_active
  stage,       \* of each object: how far it is created, held or finalized
  kind,        \* of each object: MyServerImpl or NumberCruncher
  thread,      \* of each object: the broadcast task of its ClientHandler
  m_obj_cnt,   \* ComClass.m_obj_cnt
  m_lock_cnt,  \* BasicClassFactoryBase.m_lock_cnt
  finalizer,   \* the object whose finalizer runs
  late,        \* history: the objects created since Main last read m_obj_cnt
  lateLock,    \* history: LockServer(true) since Main last read m_lock_cnt
  served,      \* history: the objects handed out to a client
  process

mainVars == <<main, registered>>
objVars  == <<stage, kind, thread, m_obj_cnt>>
vars == <<mainVars, m_active, objVars, m_lock_cnt, finalizer, late, lateLock,
          served, process>>

Init ==
  /\ main = "Register" /\ registered = FALSE
  /\ m_active = FALSE
  /\ stage = [o \in Objs |-> "free"]
  /\ kind = [o \in Objs |-> "NumberCruncher"]
  /\ thread = [o \in Objs |-> "none"]
  /\ m_obj_cnt = 0 /\ m_lock_cnt = 0
  /\ finalizer = None
  /\ late = {} /\ lateLock = FALSE /\ served = {}
  /\ process = "running"

Running == process = "running"
Held == {o \in Objs : stage[o] = "held"}
Creating == {o \in Objs : stage[o] \in {"constructed", "started", "active"}}

-----------------------------------------------------------------------------
(* Program.Main.                                                           *)

At(pc) == Running /\ main = pc

RegisterClass ==
  /\ At("Register")
  /\ registered' = TRUE
  /\ main' = "ReadActive"
  /\ UNCHANGED <<m_active, objVars, m_lock_cnt, finalizer, late, lateLock,
                 served, process>>

(* A failed call of COM throws out of Main before any client gets in.      *)
RegisterFails ==
  /\ At("Register")
  /\ process' = "failed"
  /\ UNCHANGED <<mainVars, m_active, objVars, m_lock_cnt, finalizer, late, lateLock,
                 served>>

(* The loop condition of WaitForRefCountsToReachZero, read by read.        *)
ReadActiveMutant ==
  /\ At("ReadActive")
  /\ main' = "ReadObjCount"
  /\ UNCHANGED <<registered, m_active, objVars, m_lock_cnt, finalizer, late,
                 lateLock, served, process>>
ReadActive ==
  /\ At("ReadActive")
  /\ main' = IF m_active THEN "ReadObjCount" ELSE "Sleep"
  /\ UNCHANGED <<registered, m_active, objVars, m_lock_cnt, finalizer, late,
                 lateLock, served, process>>

ReadObjCount ==
  /\ At("ReadObjCount")
  /\ main' = IF m_obj_cnt # 0 THEN "Sleep" ELSE "ReadLockCount"
  /\ late' = {}
  /\ UNCHANGED <<registered, m_active, objVars, m_lock_cnt, finalizer, lateLock,
                 served, process>>

UnlockedMutant == TRUE
Unlocked == m_lock_cnt = 0
ReadLockCount ==
  /\ At("ReadLockCount")
  /\ main' = IF Unlocked THEN "Revoke" ELSE "Sleep"
  /\ lateLock' = FALSE
  /\ UNCHANGED <<registered, m_active, objVars, m_lock_cnt, finalizer, late,
                 served, process>>

(* Thread.Sleep and GC.Collect; what is collected is finalized below.      *)
Sleep ==
  /\ At("Sleep")
  /\ main' = "ReadActive"
  /\ UNCHANGED <<registered, m_active, objVars, m_lock_cnt, finalizer, late,
                 lateLock, served, process>>

(* Dispose, and the return of Main.                                        *)
Revoke ==
  /\ At("Revoke")
  /\ registered' = FALSE
  /\ main' = "Returned"
  /\ UNCHANGED <<m_active, objVars, m_lock_cnt, finalizer, late, lateLock,
                 served, process>>

Main ==
  \/ RegisterClass \/ RegisterFails
  \/ ReadActive \/ ReadObjCount \/ ReadLockCount
  \/ Sleep \/ Revoke

(* The runtime ends the process after its last foreground thread.          *)
Exit ==
  /\ At("Returned") /\ \A o \in Objs : thread[o] # "running"
  /\ process' = "exited"
  /\ UNCHANGED <<mainVars, m_active, objVars, m_lock_cnt, finalizer, late,
                 lateLock, served>>

-----------------------------------------------------------------------------
(* The RPC threads.                                                        *)

(* ComClass(): the object is counted before the rest of it is constructed. *)
CountUpMutant == m_obj_cnt
CountUp == m_obj_cnt + 1
Construct(o, k) ==
  /\ stage[o] = "free"
  /\ kind' = [kind EXCEPT ![o] = k]
  /\ m_obj_cnt' = CountUp
  /\ late' = late \cup {o}

(* CreateInstance; asked for an interface the class does not have it       *)
(* throws before it creates anything, which is not a step.                 *)
CreateInstance(o) ==
  /\ Running /\ registered
  /\ Construct(o, "MyServerImpl")
  /\ stage' = [stage EXCEPT ![o] = "constructed"]
  /\ UNCHANGED <<mainVars, m_active, thread, m_lock_cnt, finalizer, lateLock,
                 served, process>>

(* MyServerImpl() creates the ClientHandler, whose task starts a thread.   *)
StartTask(o) ==
  /\ Running /\ stage[o] = "constructed"
  /\ stage' = [stage EXCEPT ![o] = "started"]
  /\ thread' = [thread EXCEPT ![o] = "running"]
  /\ UNCHANGED <<mainVars, m_active, kind, m_obj_cnt, m_lock_cnt, finalizer,
                 late, lateLock, served, process>>

SetActive(o) ==
  /\ Running /\ stage[o] = "started"
  /\ m_active' = TRUE
  /\ stage' = [stage EXCEPT ![o] = "active"]
  /\ UNCHANGED <<mainVars, kind, thread, m_obj_cnt, m_lock_cnt, finalizer, late,
                 lateLock, served, process>>

(* CreateInstance returns and the client has its first reference.          *)
Created(o) ==
  /\ Running /\ stage[o] = "active"
  /\ stage' = [stage EXCEPT ![o] = "held"]
  /\ served' = served \cup {o}
  /\ UNCHANGED <<mainVars, m_active, kind, thread, m_obj_cnt, m_lock_cnt, finalizer,
                 late, lateLock, process>>

(* GetObjectAsInterface throws: nobody ever gets the object, whose task    *)
(* runs until the finalizer closes it.                                     *)
ActivationFails(o) ==
  /\ Running /\ stage[o] = "started"
  /\ stage' = [stage EXCEPT ![o] = "garbage"]
  /\ UNCHANGED <<mainVars, m_active, kind, thread, m_obj_cnt, m_lock_cnt, finalizer,
                 late, lateLock, served, process>>

CreateThread(o) == StartTask(o) \/ SetActive(o) \/ Created(o) \/ ActivationFails(o)

(* GetNumberCruncher, called on an object that a client holds.             *)
GetNumberCruncher(o) ==
  /\ Running /\ \E s \in Held : kind[s] = "MyServerImpl"
  /\ Construct(o, "NumberCruncher")
  /\ stage' = [stage EXCEPT ![o] = "held"]
  /\ served' = served \cup {o}
  /\ UNCHANGED <<mainVars, m_active, thread, m_lock_cnt, finalizer, lateLock, process>>

(* The last Release of a client, or the end of its process.                *)
Release(o) ==
  /\ Running /\ stage[o] = "held"
  /\ stage' = [stage EXCEPT ![o] = "garbage"]
  /\ UNCHANGED <<mainVars, m_active, kind, thread, m_obj_cnt, m_lock_cnt,
                 finalizer, late, lateLock, served, process>>

LockServer ==
  /\ Running /\ registered /\ m_lock_cnt < MaxLocks
  /\ m_lock_cnt' = m_lock_cnt + 1
  /\ lateLock' = TRUE
  /\ UNCHANGED <<mainVars, m_active, objVars, finalizer, late, served, process>>

(* A client that has, or had, the factory; nothing checks its lock.        *)
UnlockServer ==
  /\ Running /\ main # "Register" /\ m_lock_cnt > -MaxLocks
  /\ m_lock_cnt' = m_lock_cnt - 1
  /\ UNCHANGED <<mainVars, m_active, objVars, finalizer, late, lateLock, served,
                 process>>

-----------------------------------------------------------------------------
(* The finalizer thread: ~MyServerImpl clears the handler's m_active and   *)
(* waits for the task, ~ComClass counts the object off.                    *)

Finalize(o) ==
  /\ Running /\ stage[o] = "garbage" /\ finalizer = None
  /\ finalizer' = o
  /\ UNCHANGED <<mainVars, m_active, objVars, m_lock_cnt, late, lateLock, served,
                 process>>

(* The task sees that it is closed, or an exception ends it at any time.   *)
TaskEnds(o) ==
  /\ Running /\ thread[o] = "running" /\ finalizer = o
  /\ thread' = [thread EXCEPT ![o] = "ended"]
  /\ UNCHANGED <<mainVars, m_active, stage, kind, m_obj_cnt, m_lock_cnt,
                 finalizer, late, lateLock, served, process>>

TaskFaults(o) ==
  /\ Running /\ thread[o] = "running"
  /\ thread' = [thread EXCEPT ![o] = "faulted"]
  /\ UNCHANGED <<mainVars, m_active, stage, kind, m_obj_cnt, m_lock_cnt,
                 finalizer, late, lateLock, served, process>>

CountOffMutant == m_obj_cnt
CountOff == m_obj_cnt - 1
Finalized(o) ==
  /\ Running /\ finalizer = o /\ thread[o] \in {"none", "ended"}
  /\ finalizer' = None
  /\ stage' = [stage EXCEPT ![o] = "finalized"]
  /\ m_obj_cnt' = CountOff
  /\ UNCHANGED <<mainVars, m_active, kind, thread, m_lock_cnt, late, lateLock,
                 served, process>>

(* Waiting for a faulted task throws in the finalizer.                     *)
FinalizerThrows(o) ==
  /\ Running /\ finalizer = o /\ thread[o] = "faulted"
  /\ process' = "crashed"
  /\ UNCHANGED <<mainVars, m_active, objVars, m_lock_cnt, finalizer, late,
                 lateLock, served>>

FinalizerThread(o) == Finalize(o) \/ TaskEnds(o) \/ Finalized(o) \/ FinalizerThrows(o)

-----------------------------------------------------------------------------

Terminating == ~Running /\ UNCHANGED vars

Next ==
  \/ Main \/ Exit
  \/ \E o \in Objs : \/ CreateInstance(o) \/ CreateThread(o)
                     \/ GetNumberCruncher(o) \/ Release(o)
                     \/ FinalizerThread(o) \/ TaskFaults(o)
  \/ LockServer \/ UnlockServer
  \/ Terminating

Spec == Init /\ [][Next]_vars

(* Main, the RPC threads and the finalizer thread are scheduled; what is   *)
(* garbage gets finalized while Main goes round its loop, which collects,  *)
(* and perhaps never after it.  No client has to release anything, and no  *)
(* task has to end: it may be in a call that a client does not answer.     *)
FairSpec ==
  /\ Spec
  /\ WF_vars(Main) /\ WF_vars(Exit)
  /\ \A o \in Objs :
       /\ WF_vars(CreateThread(o))
       /\ WF_vars(Finalize(o) /\ main \notin {"Revoke", "Returned"})
       /\ WF_vars(Finalized(o) \/ FinalizerThrows(o))

-----------------------------------------------------------------------------
(* Properties.                                                             *)

(* Every variable holds a value of its type; in particular the object      *)
(* count never goes below 0, the lock count only with an unmatched unlock. *)
TypeOK ==
  /\ main \in {"Register", "ReadActive", "ReadObjCount", "ReadLockCount", "Sleep",
               "Revoke", "Returned"}
  /\ registered \in BOOLEAN /\ m_active \in BOOLEAN
  /\ stage \in [Objs -> {"free", "constructed", "started", "active", "held",
                         "garbage", "finalized"}]
  /\ kind \in [Objs -> {"MyServerImpl", "NumberCruncher"}]
  /\ thread \in [Objs -> {"none", "running", "ended", "faulted"}]
  /\ m_obj_cnt \in 0 .. Cardinality(Objs)
  /\ m_lock_cnt \in -MaxLocks .. MaxLocks
  /\ finalizer \in Objs \cup {None}
  /\ late \subseteq Objs /\ lateLock \in BOOLEAN /\ served \subseteq Objs
  /\ process \in {"running", "exited", "crashed", "failed"}

(* Unless the finalizer of an object nobody holds brings the process down, *)
(* whose task an exception has ended, the only clients whose object the    *)
(* end of the process takes away, and the only locks it ignores, came      *)
(* after the read that let Main go on.                                     *)
EndMissesOnlyNewcomers ==
  process # "running" =>
    \/ Held \subseteq late /\ (m_lock_cnt > 0 => lateLock)
    \/ /\ process = "crashed" /\ finalizer # None
       /\ stage[finalizer] = "garbage" /\ thread[finalizer] = "faulted"

(* A process that COM started for a client does not return from Main       *)
(* before an object was handed out, used and finalized: Main cannot slip   *)
(* through between the construction of the first object, the setting of    *)
(* m_active behind it and the return of the reference.                     *)
NoExitBeforeFirstClient ==
  process = "exited" => \E o \in served : stage[o] = "finalized"

(* Once it has served somebody and nobody holds or gets an object or a     *)
(* lock any more, the process ends, unless the finalizer waits for ever    *)
(* for a task that is in a client's XmitMessage, or an object created too  *)
(* late for Main to see it, which nobody collects, keeps its task running. *)
WaitsForTask == finalizer # None /\ thread[finalizer] = "running"
KeptByLatecomer == main = "Returned" /\ \E o \in late : thread[o] = "running"
ExitsWhenUnused ==
  m_active /\ m_lock_cnt = 0 /\ Held = {} /\ Creating = {}
    ~> \/ process # "running" \/ m_lock_cnt # 0 \/ Held # {} \/ Creating # {}
       \/ []WaitsForTask \/ []KeptByLatecomer
=============================================================================
