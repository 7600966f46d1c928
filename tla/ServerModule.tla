---------------------------- MODULE ServerModule ----------------------------
(***************************************************************************)
(* How long the C++ servers stay: the processes MyExeServerWinRt and       *)
(* MyExeServerAtl, and the DLLs MyDllServerWinRt and MyDllServerAtl in the *)
(* process of their clients.  Every object counts in the module lock; so   *)
(* do a LockServer and a class factory, depending on the server.  An EXE   *)
(* ends after its count has dropped to zero; a DLL whose count is zero may *)
(* be unloaded by COM.                                                     *)
(***************************************************************************)
EXTENDS Naturals, FiniteSets

CONSTANTS
  Clients,     \* client processes of an EXE; threads in the process of a DLL
  ServerObjs,  \* the MyServerImpl objects a server may have at a time
  Crunchers,   \* the NumberCruncher objects
  Nobody       \* owner of an object that does not exist

Objects == ServerObjs \cup Crunchers

ASSUME ModuleAssumption ==
  /\ IsFiniteSet(Clients) /\ IsFiniteSet(ServerObjs) /\ IsFiniteSet(Crunchers)
  /\ ServerObjs \cap Crunchers = {} /\ Objects \cap Clients = {}
  /\ Nobody \notin Clients

VARIABLES
  host,      \* the server that is registered
  main,      \* where wmain is, or whether the DLL is loaded
  byHand,    \* the process was started without arguments, not by COM
  classes,   \* whether COM gives out the class factory of the process
  count,     \* the module lock
  notifier,  \* a count of zero is noticed
  exit,      \* _comExit, or ATL's WM_QUIT
  served,    \* history: this process has created an object
  factory,   \* the clients that hold the class factory
  creating,  \* the clients whose CreateInstance has not made its object yet
  lockers,   \* the clients that have called LockServer(TRUE)
  owner,     \* of each object the client that holds it
  late,      \* history: objects, and clients' locks, from after the decision
             \* to end the process or to unload the DLL
  lost       \* objects that were held, and clients that held a lock or a
             \* factory in a DLL, when their server went away

processVars == <<main, byHand, classes, notifier, exit, served>>
useVars     == <<factory, creating, lockers, owner, late, lost>>
vars        == <<host, processVars, count, useVars>>

Hosts == {"WinRtExe", "AtlExe", "WinRtDll", "AtlDll"}
Exe   == host \in {"WinRtExe", "AtlExe"}
Owned == {o \in Objects : owner[o] # Nobody}

Init ==
  /\ host \in Hosts
  /\ main = "absent" /\ byHand = FALSE /\ classes = "none"
  /\ notifier = FALSE /\ exit = FALSE /\ served = FALSE
  /\ count = 0
  /\ factory = {} /\ creating = {} /\ lockers = {}
  /\ owner = [o \in Objects |-> Nobody]
  /\ late = {} /\ lost = {}

(* A pointer into a DLL that is gone: nothing can be said of the process.  *)
Defined == Exe \/ lost = {}

(* The server goes, and with it what its clients hold.  Proxies of objects *)
(* stay with the clients until they release them.                          *)
Gone ==
  /\ main' = "absent" /\ byHand' = FALSE /\ classes' = "none"
  /\ notifier' = FALSE /\ exit' = FALSE /\ served' = FALSE
  /\ count' = 0
  /\ lost' = lost \cup Owned \cup lockers \cup (IF Exe THEN {} ELSE factory)
  /\ factory' = {} /\ creating' = {} /\ lockers' = {}
  /\ UNCHANGED <<host, owner, late>>

-----------------------------------------------------------------------------
(* wmain of the two EXE servers.                                           *)

(* By COM, or by hand without arguments.                                   *)
Launch ==
  /\ Exe /\ main = "absent"
  /\ main' = "Start" /\ byHand' \in BOOLEAN
  /\ UNCHANGED <<host, classes, count, notifier, exit, served, useVars>>

(* The event exists and is set by the notifier before there is a factory.  *)
SetNotifierMutant ==
  /\ host = "WinRtExe" /\ main = "Start"
  /\ main' = "Register"
  /\ UNCHANGED <<host, byHand, classes, count, notifier, exit, served, useVars>>
SetNotifier ==
  /\ host = "WinRtExe" /\ main = "Start"
  /\ notifier' = TRUE /\ main' = "Register"
  /\ UNCHANGED <<host, byHand, classes, count, exit, served, useVars>>

Artificial == host = "AtlExe" /\ byHand

AddArtificialReferenceMutant ==
  /\ host = "AtlExe" /\ main = "Start"
  /\ notifier' = TRUE /\ main' = "Register"
  /\ UNCHANGED <<host, byHand, classes, count, exit, served, useVars>>
(* "add an artificial reference to make the server outlive COM clients"    *)
AddArtificialReference ==
  /\ host = "AtlExe" /\ main = "Start"
  /\ count' = (IF byHand THEN 1 ELSE 0)
  /\ notifier' = TRUE /\ main' = "Register"
  /\ UNCHANGED <<host, byHand, classes, exit, served, useVars>>

(* COM, the event or the class object cannot be had: winrt throws out of   *)
(* wmain, that of ATL aborts or returns without a message loop.            *)
StartFails == main \in {"Start", "Register"} /\ Gone

RegisterServer ==
  /\ main = "Register"
  /\ classes' = "available" /\ main' = "Wait"
  /\ UNCHANGED <<host, byHand, count, notifier, exit, served, useVars>>

(* "wait until object count drops to zero"                                 *)
Wait ==
  /\ main = "Wait" /\ exit
  /\ main' = "Uninit"
  /\ UNCHANGED <<host, byHand, classes, count, notifier, exit, served, useVars>>

UninitApartment == main = "Uninit" /\ Gone

Wmain ==
  \/ SetNotifier \/ AddArtificialReference \/ StartFails
  \/ RegisterServer \/ Wait \/ UninitApartment

-----------------------------------------------------------------------------
(* COM unloads a DLL; meanwhile it gives out no factory of it.             *)

Unlocked == count = 0
DllCanUnloadNow ==
  /\ Defined /\ main = "Loaded" /\ Unlocked
  /\ main' = "Unloading"
  /\ UNCHANGED <<host, byHand, classes, count, notifier, exit, served, useVars>>

FreeLibrary == main = "Unloading" /\ Gone

-----------------------------------------------------------------------------
(* What clients do.                                                        *)

(* The last reference makes COM suspend the class objects of a process and *)
(* is reported to the notifier.                                            *)
Drop ==
  /\ count' = count - 1
  /\ IF Exe /\ count = 1
       THEN classes' = "suspended" /\ exit' = (exit \/ notifier)
       ELSE UNCHANGED <<classes, exit>>
  /\ UNCHANGED <<host, main, byHand, notifier, served>>

Deciding == classes = "suspended" \/ main = "Unloading"
LateIfDeciding(x) == late' = IF Deciding THEN late \cup {x} ELSE late

(* ATL's class object in a DLL, one for all clients, holds the module lock *)
(* once while any of them has it; no other class factory does.             *)
FactoryCountsMutant == FALSE
FactoryCounts == host = "AtlDll"

GetClassObject(c) ==
  /\ Defined /\ c \notin factory \cup lost
  /\ IF Exe THEN classes = "available" /\ UNCHANGED main
            ELSE main \in {"absent", "Loaded"} /\ main' = "Loaded"
  /\ factory' = factory \cup {c}
  /\ count' = IF FactoryCounts /\ factory = {} THEN count + 1 ELSE count
  /\ UNCHANGED <<host, byHand, classes, notifier, exit, served,
                 creating, lockers, owner, late, lost>>

ReleaseFactory(c) ==
  /\ Defined /\ c \in factory \ (creating \cup lockers)
  /\ factory' = factory \ {c}
  /\ IF FactoryCounts /\ factory = {c}
       THEN Drop ELSE UNCHANGED <<host, processVars, count>>
  /\ UNCHANGED <<creating, lockers, owner, late, lost>>

CreateInstance(c) ==
  /\ Defined /\ c \in factory \ creating
  /\ creating' = creating \cup {c}
  /\ UNCHANGED <<host, processVars, count, factory, lockers, owner, late, lost>>

(* CLASS_E_NOAGGREGATION, or there is no memory for the object.            *)
CreateInstanceFails(c) ==
  /\ Defined /\ c \in creating
  /\ creating' = creating \ {c}
  /\ UNCHANGED <<host, processVars, count, factory, lockers, owner, late, lost>>

(* The constructor of an object increments the module lock.                *)
Construct(c, o) ==
  /\ owner[o] = Nobody
  /\ owner' = [owner EXCEPT ![o] = c]
  /\ count' = count + 1 /\ served' = TRUE
  /\ LateIfDeciding(o)
  /\ UNCHANGED <<host, main, byHand, classes, notifier, exit, factory, lockers, lost>>

(* make<T>().as(iid); an interface that is not there has the same effect   *)
(* as a Release at once.                                                   *)
CreateServerObject(c, o) ==
  /\ Defined /\ c \in creating /\ o \in ServerObjs
  /\ Construct(c, o)
  /\ creating' = creating \ {c}

Holds(c, o) == owner[o] = c /\ o \notin lost

GetNumberCruncherMutant(c, o) ==
  /\ Defined /\ o \in Crunchers /\ owner[o] = Nobody
  /\ \E s \in ServerObjs : Holds(c, s)
  /\ owner' = [owner EXCEPT ![o] = c] /\ LateIfDeciding(o)
  /\ UNCHANGED <<host, processVars, count, factory, creating, lockers, lost>>
GetNumberCruncher(c, o) ==
  /\ Defined /\ o \in Crunchers
  /\ \E s \in ServerObjs : Holds(c, s)
  /\ Construct(c, o)
  /\ UNCHANGED creating

Release(c, o) ==
  /\ Defined /\ Holds(c, o)
  /\ owner' = [owner EXCEPT ![o] = Nobody] /\ late' = late \ {o}
  /\ Drop
  /\ UNCHANGED <<factory, creating, lockers, lost>>

(* A proxy whose process has ended is released without a call.             *)
ReleaseProxy(c, o) ==
  /\ Exe /\ owner[o] = c /\ o \in lost
  /\ owner' = [owner EXCEPT ![o] = Nobody]
  /\ late' = late \ {o} /\ lost' = lost \ {o}
  /\ UNCHANGED <<host, processVars, count, factory, creating, lockers>>

ForgetLock(c) ==
  /\ Exe /\ c \in lost
  /\ late' = late \ {c} /\ lost' = lost \ {c}
  /\ UNCHANGED <<host, processVars, count, factory, creating, lockers, owner>>

(* ClassFactory::LockServer of the WinRT DLL does nothing.                 *)
LockCounts == host # "WinRtDll"

LockServer(c) ==
  /\ Defined /\ c \in factory \ lockers
  /\ lockers' = lockers \cup {c} /\ LateIfDeciding(c)
  /\ count' = IF LockCounts THEN count + 1 ELSE count
  /\ UNCHANGED <<host, processVars, factory, creating, owner, lost>>

(* Clients keep to the contract of COM and undo only locks of their own:   *)
(* the lock is not told from the objects in the count, so that one unlock  *)
(* too many would end the server under the object of another client.       *)
UnlockServer(c) ==
  /\ Defined /\ c \in lockers
  /\ lockers' = lockers \ {c} /\ late' = late \ {c}
  /\ IF LockCounts THEN Drop ELSE UNCHANGED <<host, processVars, count>>
  /\ UNCHANGED <<factory, creating, owner, lost>>

(* Any client: it uses the interfaces in every order and releases what it  *)
(* got, or does not.                                                       *)
AnyClient(c) ==
  \/ GetClassObject(c) \/ ReleaseFactory(c)
  \/ CreateInstance(c) \/ CreateInstanceFails(c)
  \/ LockServer(c) \/ UnlockServer(c) \/ ForgetLock(c)
  \/ \E o \in Objects : \/ CreateServerObject(c, o) \/ GetNumberCruncher(c, o)
                        \/ Release(c, o) \/ ReleaseProxy(c, o)

-----------------------------------------------------------------------------
(* Properties.                                                             *)

(* Every variable holds a value of its type.                               *)
TypeOK ==
  /\ host \in Hosts
  /\ main \in {"absent", "Start", "Register", "Wait", "Uninit", "Loaded", "Unloading"}
  /\ classes \in {"none", "available", "suspended"}
  /\ {byHand, notifier, exit, served} \subseteq BOOLEAN
  /\ count \in 0 .. Cardinality(Objects) + Cardinality(Clients) + 1
  /\ factory \subseteq Clients /\ creating \subseteq factory /\ lockers \subseteq factory
  /\ owner \in [Objects -> Clients \cup {Nobody}]
  /\ late \subseteq Objects \cup Clients /\ lost \subseteq Objects \cup Clients

(* The module lock is the number of live objects and of locks that count,  *)
(* plus one for a class object that counts and is held, and one for the    *)
(* artificial reference.                                                   *)
CountIsExact ==
  count = Cardinality(Owned \ lost)
        + (IF LockCounts THEN Cardinality(lockers) ELSE 0)
        + (IF FactoryCounts /\ factory # {} THEN 1 ELSE 0)
        + (IF Artificial /\ main # "Start" THEN 1 ELSE 0)

(* A server takes away only what its clients got after the count was zero: *)
(* through a factory from before.  A DLL of ATL never takes anything; the  *)
(* DLL of WinRT also goes under a mere factory, or under a lock on it.     *)
LosesOnlyLatecomers ==
  lost \subseteq CASE host = "AtlDll"   -> {}
                   [] host = "WinRtDll" -> late \cup Clients
                   [] OTHER             -> late

(* A server that was started by hand with an artificial reference and has  *)
(* its class object registered waits for ever, whatever its clients do.    *)
OutlivesClients == [][Artificial /\ main = "Wait" => main' = "Wait"]_vars
=============================================================================
