----------------------------- MODULE MyClientCpp -----------------------------
(***************************************************************************)
(* main() of MyClientCpp/Main.cpp as one client Me of a ServerModule, next *)
(* to clients that do anything.  Each call may fail; what a call leaves in *)
(* a smart pointer is released on every way out of main, in the reverse    *)
(* order.  Meanwhile a server may call the subscribed callback object from *)
(* a thread of its own.                                                    *)
(***************************************************************************)
EXTENDS ServerModule

CONSTANTS
  Me,      \* the client process, or the thread of a DLL's process, with main()
  Null     \* an empty pointer

Others == Clients \ {Me}

ASSUME ClientAssumption == Me \in Clients /\ Null \notin Objects

VARIABLES
  pc,            \* where main is: "Dead" after abort() or a crash
  server, cruncher,
  callback,      \* main's reference to its MyClient object
  subscribed,    \* the server's reference to it
  xmit,          \* what the server object's thread does: "sleep", "round" (it
                 \* has tested m_active) or "call"
  result         \* what main returns

pointers   == <<server, cruncher, callback>>
remoteVars == <<subscribed, xmit>>
clientVars == <<pc, pointers, remoteVars, result>>
allVars    == <<vars, clientVars>>

ClientInit ==
  /\ Init
  /\ pc = "ComInitialize"
  /\ server = Null /\ cruncher = Null /\ callback = FALSE
  /\ subscribed = FALSE /\ xmit = "sleep" /\ result = 0

(* A process that aborts takes its DLLs with it; an EXE stays.             *)
Alive == Defined /\ (Exe \/ pc # "Dead")

Goto(from, to) == Alive /\ pc = from /\ pc' = to
(* `return 1`, through the destructors from `to` on.                       *)
Fail(from, to) == Goto(from, to) /\ result' = 1
Quiet == UNCHANGED <<pointers, remoteVars>>

-----------------------------------------------------------------------------
(* ComInitialize, CoInitializeSecurity, CoCreateInstance.                  *)

(* Without COM there are no IGlobalOptions either, and no options: abort().*)
ComInitialize ==
  /\ \/ Goto("ComInitialize", "CoInitializeSecurity")
     \/ Goto("ComInitialize", "Dead")
  /\ Quiet /\ UNCHANGED <<vars, result>>

CoInitializeSecurity ==
  /\ \/ Goto("CoInitializeSecurity", "GetClassObject") /\ UNCHANGED result
     \/ Fail("CoInitializeSecurity", "CoUninitialize")
  /\ Quiet /\ UNCHANGED vars

(* CoCreateInstance gets the class factory, calls it and releases it.      *)
ActivateGet ==
  /\ Goto("GetClassObject", "CreateInstance")
  /\ GetClassObject(Me)
  /\ Quiet /\ UNCHANGED result

ActivateCall ==
  /\ Goto("CreateInstance", "Construct")
  /\ CreateInstance(Me)
  /\ Quiet /\ UNCHANGED result

ActivateConstruct ==
  /\ Goto("Construct", "ReleaseFactory")
  /\ \E o \in ServerObjs : CreateServerObject(Me, o) /\ server' = o
  /\ UNCHANGED <<cruncher, callback, remoteVars, result>>

ActivateRelease ==
  /\ Goto("ReleaseFactory", IF server = Null THEN "CoUninitialize" ELSE "GetNumberCruncher")
  /\ \/ ReleaseFactory(Me)
     \/ Me \notin factory /\ UNCHANGED vars
  /\ Quiet /\ UNCHANGED result

(* No server in time; no object; or its process ends under the call.       *)
ActivateFails ==
  /\ \/ Fail("GetClassObject", "CoUninitialize") /\ UNCHANGED vars
     \/ Fail("CreateInstance", "CoUninitialize") /\ Me \notin factory /\ UNCHANGED vars
     \/ Fail("Construct", "ReleaseFactory") /\ CreateInstanceFails(Me)
     \/ Fail("Construct", "ReleaseFactory") /\ Me \notin creating /\ UNCHANGED vars
  /\ Quiet

-----------------------------------------------------------------------------
(* The try block.  Any call of the server may throw a _com_error, and does *)
(* if the server is gone.                                                  *)

CallGetNumberCruncher ==
  /\ \/ /\ Goto("GetNumberCruncher", "ComputePi") /\ server \notin lost
        /\ \E o \in Crunchers : GetNumberCruncher(Me, o) /\ cruncher' = o
        /\ UNCHANGED result
     \/ /\ Fail("GetNumberCruncher", "ReleaseServer")
        /\ UNCHANGED <<vars, cruncher>>
  /\ UNCHANGED <<server, callback, remoteVars>>

ComputePi ==
  /\ \/ /\ Goto("ComputePi", "CreateLocalInstance") /\ cruncher \notin lost
        /\ UNCHANGED result
     \/ Fail("ComputePi", "ReleaseCruncher")
  /\ Quiet /\ UNCHANGED vars

(* CreateLocalInstance<MyClient>, which aborts if it fails.                *)
CreateLocalInstance ==
  /\ \/ Goto("CreateLocalInstance", "Subscribe") /\ callback' = TRUE
     \/ Goto("CreateLocalInstance", "Dead") /\ UNCHANGED callback
  /\ UNCHANGED <<vars, server, cruncher, remoteVars, result>>

(* raw_Subscribe of the WinRT servers returns E_NOTIMPL.                   *)
Implemented == host \in {"AtlExe", "AtlDll"}

SubscribeThrowsToMutant == "ReleaseServer"
SubscribeThrowsTo == "ReleaseCallback"
Subscribe ==
  /\ \/ /\ Goto("Subscribe", "Sleep") /\ Implemented /\ server \notin lost
        /\ subscribed' = TRUE
        /\ UNCHANGED result
     \/ Fail("Subscribe", SubscribeThrowsTo) /\ UNCHANGED subscribed
  /\ UNCHANGED <<vars, pointers, xmit>>

Sleep ==
  /\ Goto("Sleep", "ReleaseCallback")
  /\ Quiet /\ UNCHANGED <<vars, result>>

-----------------------------------------------------------------------------
(* The destructors, from the last one constructed to the first.            *)

ReleaseCallback ==
  /\ Goto("ReleaseCallback", "ReleaseCruncher")
  /\ callback' = FALSE
  /\ UNCHANGED <<vars, server, cruncher, remoteVars, result>>

ReleasePointer(o) == Release(Me, o) \/ ReleaseProxy(Me, o)

ReleaseCruncherMutant ==
  /\ Goto("ReleaseCruncher", "ReleaseServer")
  /\ cruncher' = Null
  /\ UNCHANGED <<vars, server, callback, remoteVars, result>>
ReleaseCruncher ==
  /\ Goto("ReleaseCruncher", "ReleaseServer")
  /\ ReleasePointer(cruncher)
  /\ cruncher' = Null
  /\ UNCHANGED <<server, callback, remoteVars, result>>

(* The last Release is the destructor of the server object.  It comes      *)
(* after the module lock was decremented (ATL does that first), stops the  *)
(* thread and waits for it, while the caller waits for the destructor.     *)
ReleaseServer ==
  /\ \/ Goto("ReleaseServer", "Join") /\ Release(Me, server)
     \/ Goto("ReleaseServer", "CoUninitialize") /\ ReleaseProxy(Me, server)
  /\ server' = Null
  /\ UNCHANGED <<cruncher, callback, remoteVars, result>>

Join ==
  /\ Goto("Join", "CoUninitialize")
  /\ xmit = "sleep" /\ subscribed' = FALSE
  /\ UNCHANGED <<vars, pointers, xmit, result>>

(* ~ComInitialize: COM disconnects the callback from its callers.          *)
CoUninitialize ==
  /\ Goto("CoUninitialize", "Returned")
  /\ subscribed' = FALSE
  /\ UNCHANGED <<vars, pointers, xmit, result>>

Main ==
  \/ ComInitialize \/ CoInitializeSecurity
  \/ ActivateGet \/ ActivateCall \/ ActivateConstruct \/ ActivateRelease
  \/ ActivateFails
  \/ CallGetNumberCruncher \/ ComputePi \/ CreateLocalInstance \/ Subscribe \/ Sleep
  \/ ReleaseCallback \/ ReleaseCruncher
  \/ ReleaseServer \/ Join \/ CoUninitialize

-----------------------------------------------------------------------------
(* The server's thread, the end of the client by force, and the others.    *)

Ended == pc \in {"Returned", "Dead"}

(* while (m_active): the destructor stops it.                              *)
WhileMutant ==
  /\ Alive /\ ~Ended /\ subscribed /\ xmit = "sleep"
  /\ xmit' = "round"
  /\ UNCHANGED <<vars, pc, pointers, subscribed, result>>
While ==
  /\ Alive /\ ~Ended /\ pc # "Join" /\ subscribed /\ xmit = "sleep"
  /\ xmit' = "round"
  /\ UNCHANGED <<vars, pc, pointers, subscribed, result>>

(* raw_XmitMessage prints the message; its array stays the caller's.       *)
XmitMessage ==
  /\ Alive /\ xmit = "round"
  /\ xmit' = IF subscribed /\ ~Ended THEN "call" ELSE "sleep"
  /\ UNCHANGED <<vars, pc, pointers, subscribed, result>>

XmitReturns ==
  /\ Alive /\ xmit = "call"
  /\ xmit' = "sleep"
  /\ UNCHANGED <<vars, pc, pointers, subscribed, result>>

Crash ==
  /\ Exe /\ ~Ended
  /\ pc' = "Dead"
  /\ Quiet /\ UNCHANGED <<vars, result>>

(* COM releases what a dead client held: "fast stub rundown".  A call that *)
(* is still in the server ends first.                                      *)
Rundown ==
  /\ Exe /\ pc = "Dead"
  /\ \/ \E o \in ServerObjs : CreateServerObject(Me, o)
     \/ ReleaseFactory(Me)
     \/ \E o \in Objects : ReleasePointer(o)
  /\ UNCHANGED clientVars

OtherClient(c) == Alive /\ AnyClient(c) /\ UNCHANGED clientVars

(* A process that ends takes its reference to the callback with it.        *)
ServerStep ==
  /\ Alive /\ Wmain
  /\ subscribed' = (subscribed /\ main' # "absent")
  /\ UNCHANGED <<pc, pointers, xmit, result>>

(* COM unloads a DLL of a multi-threaded apartment only when it has been   *)
(* unused for ten minutes: no thread is in a destructor any more.          *)
Environment ==
  /\ Alive /\ (Launch \/ (pc # "Join" /\ DllCanUnloadNow) \/ FreeLibrary)
  /\ UNCHANGED clientVars

Terminating == (Ended \/ ~Alive) /\ UNCHANGED allVars

Next ==
  \/ Main \/ While \/ XmitMessage \/ XmitReturns \/ Crash \/ Rundown
  \/ \E c \in Others : OtherClient(c)
  \/ ServerStep \/ Environment \/ Terminating

Spec == ClientInit /\ [][Next]_allVars

(* Threads run, a call ends, and COM cleans up after a dead client.  The   *)
(* others need not do anything, nor need COM unload a DLL.                 *)
FairSpec ==
  /\ Spec
  /\ WF_allVars(Main) /\ WF_allVars(XmitMessage \/ XmitReturns)
  /\ WF_allVars(Rundown) /\ WF_allVars(ServerStep)

-----------------------------------------------------------------------------
(* Properties.                                                             *)

(* Every variable holds a value of its type, and main's pointers are what  *)
(* COM counts as held by it while main runs.                               *)
ClientTypeOK ==
  /\ TypeOK
  /\ {callback, subscribed} \subseteq BOOLEAN /\ xmit \in {"sleep", "round", "call"}
  /\ server \in ServerObjs \cup {Null} /\ cruncher \in Crunchers \cup {Null}
  /\ result \in {0, 1}
  /\ Alive /\ pc # "Dead" =>
       {o \in Objects : owner[o] = Me} = {server, cruncher} \ {Null}

(* On every way to ~ComInitialize, after whichever call has failed, all    *)
(* interface pointers of main are released before COM is left.             *)
NothingHeldAtUninitialize ==
  pc \in {"CoUninitialize", "Returned"} =>
    /\ server = Null /\ cruncher = Null /\ ~callback
    /\ Alive => Me \notin factory \cup creating \cup {owner[o] : o \in Objects}

(* main always ends, also when its server goes away under it or is joined  *)
(* by its last Release.                                                    *)
ClientEnds == <>(Ended \/ ~Alive)

(* Once it has served somebody and the other clients use nothing, a server *)
(* process ends: whichever way this client goes, by return, abort or       *)
(* crash, what it held is released.                                        *)
OthersUse ==
  (factory \cup creating \cup lockers \cup {owner[o] : o \in Owned \ lost})
    \cap Others # {}
ServerEndsAfterClients ==
  Exe /\ served /\ ~Artificial /\ ~OthersUse ~> main = "absent" \/ OthersUse
=============================================================================
