---------------------------- MODULE Registration ----------------------------
(***************************************************************************)
(* Registration of the sample servers.  All of them write below the same   *)
(* CLSID, AppID and type library GUID, each with code of its own:          *)
(* ComSupport's ExeServer, AppID and TypeLib (C#), the .rgs scripts of the *)
(* ATL servers and WinRtUtils.hpp.  A command is a sequence of changes of  *)
(* the registry; it can be cut short between two of them, and a change     *)
(* that throws ends it.  UNREGISTER.bat deletes what may be left over and  *)
(* goes on when a deletion fails.                                          *)
(***************************************************************************)
EXTENDS Naturals, Sequences

CONSTANTS
  Servers,  \* the servers that are registered: names of ExeKind or DllKind
  MaxRuns,  \* bound: commands that are run
  None      \* no server

ExeServers == {"Cs", "AtlExe", "WinRtExe"}
DllServers == {"AtlDll", "WinRtDll"}

ASSUME RegistrationAssumption ==
  /\ Servers \subseteq ExeServers \cup DllServers
  /\ MaxRuns \in Nat
  /\ None \notin Servers

(* Keys and values: CLSID\{clsid} with its value AppID and its subkeys,    *)
(* AppID\{appid}, and the registration of the type library.                *)
SubKeys == {"LocalServer32", "InprocServer32", "TypeLib"}
ClsidTree == {"CLSID", "CLSID.AppID"} \cup SubKeys
Entries == ClsidTree \cup {"AppID", "TypeLibrary"}

VARIABLES
  registry,  \* of each entry: the server that wrote it, or None
  server, command, todo,  \* the command that runs: whose, which, its changes
  result,    \* of the last command: "none", "running", "done", "thrown", "cut"
  runs,      \* commands run so far
  writers,   \* history: the servers that ran a command since the script last
             \* ran without a failure
  cutShort   \* history: a command was cut short, or a deletion of the script
             \* failed, since the script last began

jobVars == <<server, command, todo, result, runs>>
vars == <<registry, jobVars, writers, cutShort>>

Init ==
  /\ registry = [e \in Entries |-> None]
  /\ server = None /\ command = "none" /\ todo = <<>>
  /\ result = "none" /\ runs = 0
  /\ writers = {} /\ cutShort = FALSE

-----------------------------------------------------------------------------
(* The commands, as sequences of changes <<change, entry>>.                *)

ModuleKey(s) == IF s \in ExeServers THEN "LocalServer32" ELSE "InprocServer32"

(* The C# server: the classes TypeLib, ExeServer and AppID.                *)
TypeLibRegister == << <<"Set", "TypeLibrary">> >>
TypeLibUnregister == << <<"Delete", "TypeLibrary">> >>

ExeServerRegister ==
  << <<"Set", "CLSID">>, <<"Set", "LocalServer32">>, <<"Set", "TypeLib">> >>

ExeServerUnregisterMutant ==
  << <<"DeleteSubKey", "LocalServer32">>, <<"DeleteSubKey", "CLSID">>,
     <<"DeleteSubKey", "TypeLib">> >>
ExeServerUnregister ==
  << <<"DeleteSubKey", "LocalServer32">>, <<"DeleteSubKey", "TypeLib">>,
     <<"DeleteSubKey", "CLSID">> >>

AppIDRegister == << <<"Set", "CLSID.AppID">>, <<"Set", "AppID">> >>
AppIDUnregister ==
  << <<"DeleteValue", "CLSID.AppID">>, <<"DeleteSubKey", "AppID">> >>

CsRegister == TypeLibRegister \o ExeServerRegister \o AppIDRegister
CsUnregister == AppIDUnregister \o ExeServerUnregister \o TypeLibUnregister

(* ForceRemove in an .rgs script deletes a key before it is written.       *)
AtlRegister(s) ==
  << <<"ForceRemove", "AppID">>,
     <<"ForceRemove", "CLSID">>, <<"Set", "CLSID.AppID">>,
     <<"Set", ModuleKey(s)>>, <<"Set", "TypeLib">>,
     <<"Set", "TypeLibrary">> >>

AtlUnregister ==
  << <<"Delete", "TypeLibrary">>, <<"DeleteTree", "CLSID">>,
     <<"DeleteTree", "AppID">> >>

(* The WinRT servers: RegisterTypeLibrary, then RegisterComClass.          *)
WinRtRegister(s) ==
  TypeLibRegister \o << <<"Set", ModuleKey(s)>>, <<"Set", "TypeLib">> >>
WinRtUnregister == TypeLibUnregister \o << <<"DeleteTree", "CLSID">> >>

RegisterSteps(s) ==
  CASE s = "Cs" -> CsRegister
    [] s \in {"AtlExe", "AtlDll"} -> AtlRegister(s)
    [] s \in {"WinRtExe", "WinRtDll"} -> WinRtRegister(s)

UnregisterSteps(s) ==
  CASE s = "Cs" -> CsUnregister
    [] s \in {"AtlExe", "AtlDll"} -> AtlUnregister
    [] s \in {"WinRtExe", "WinRtDll"} -> WinRtUnregister

UnregisterBatStepsMutant ==
  << <<"Delete", "TypeLibrary">>, <<"DeleteTree", "AppID">> >>
UnregisterBatSteps ==
  << <<"Delete", "TypeLibrary">>, <<"DeleteTree", "CLSID">>,
     <<"DeleteTree", "AppID">> >>

-----------------------------------------------------------------------------
(* The changes.                                                            *)

Present(e) == registry[e] # None
TreeMutant(e) == {e}
Tree(e) == IF e = "CLSID" THEN ClsidTree ELSE {e}
Without(es) == [e \in Entries |-> IF e \in es THEN None ELSE registry[e]]

(* Writing below CLSID\{clsid} creates that key if it is missing.          *)
With(r, e) ==
  [f \in Entries |->
     IF f = e \/ (f = "CLSID" /\ e \in ClsidTree /\ r[f] = None)
       THEN server ELSE r[f]]

(* DeleteValue throws if the key is there without the value; the code      *)
(* skips it when there is no key.  DeleteSubKey throws on a key that has   *)
(* subkeys and ignores a missing one.                                      *)
Throws(change, e) ==
  \/ change = "DeleteValue" /\ Present("CLSID") /\ ~Present(e)
  \/ change = "DeleteSubKey" /\ e = "CLSID" /\ \E k \in SubKeys : Present(k)

(* A key goes with its values.                                             *)
Changed(change, e) ==
  CASE change = "Set"          -> With(registry, e)
    [] change = "ForceRemove"  -> With(Without(Tree(e)), e)
    [] change = "DeleteTree"   -> Without(Tree(e))
    [] change = "DeleteSubKey" -> Without(IF e = "CLSID" THEN {e, "CLSID.AppID"}
                                                         ELSE {e})
    [] OTHER                   -> Without({e})

-----------------------------------------------------------------------------

Start(s, c, steps) ==
  /\ result # "running" /\ runs < MaxRuns
  /\ server' = s /\ command' = c /\ todo' = steps
  /\ result' = "running" /\ runs' = runs + 1
  /\ writers' = writers \cup {s}
  /\ UNCHANGED <<registry, cutShort>>

Register(s) == Start(s, "register", RegisterSteps(s))
Unregister(s) == Start(s, "unregister", UnregisterSteps(s))

Change ==
  /\ result = "running" /\ command # "bat" /\ ~Throws(Head(todo)[1], Head(todo)[2])
  /\ registry' = Changed(Head(todo)[1], Head(todo)[2])
  /\ todo' = Tail(todo)
  /\ result' = IF Tail(todo) = <<>> THEN "done" ELSE "running"
  /\ UNCHANGED <<server, command, runs, writers, cutShort>>

Throw ==
  /\ result = "running" /\ command # "bat" /\ Throws(Head(todo)[1], Head(todo)[2])
  /\ result' = "thrown" /\ todo' = <<>>
  /\ UNCHANGED <<registry, server, command, runs, writers, cutShort>>

(* The process is killed or is denied access.                              *)
CutShort ==
  /\ result = "running"
  /\ result' = "cut" /\ todo' = <<>> /\ cutShort' = TRUE
  /\ UNCHANGED <<registry, server, command, runs, writers>>

(* UNREGISTER.bat deletes whole keys, one "reg delete" after the other.    *)
UnregisterBat ==
  /\ result # "running" /\ runs < MaxRuns
  /\ server' = None /\ command' = "bat" /\ todo' = UnregisterBatSteps
  /\ result' = "running" /\ runs' = runs + 1 /\ cutShort' = FALSE
  /\ UNCHANGED <<registry, writers>>

(* A deletion that fails is not noticed.                                   *)
RegDelete ==
  /\ result = "running" /\ command = "bat"
  /\ \/ registry' = Changed(Head(todo)[1], Head(todo)[2]) /\ cutShort' = cutShort
     \/ registry' = registry /\ cutShort' = TRUE
  /\ todo' = Tail(todo)
  /\ result' = IF Tail(todo) = <<>> THEN "done" ELSE "running"
  /\ writers' = IF Tail(todo) = <<>> /\ ~cutShort' THEN {} ELSE writers
  /\ UNCHANGED <<server, command, runs>>

Terminating == result # "running" /\ runs = MaxRuns /\ UNCHANGED vars

Next ==
  \/ \E s \in Servers : Register(s) \/ Unregister(s)
  \/ Change \/ Throw \/ CutShort \/ UnregisterBat \/ RegDelete
  \/ Terminating

Spec == Init /\ [][Next]_vars

-----------------------------------------------------------------------------
(* Properties.                                                             *)

Empty == \A e \in Entries : ~Present(e)

(* Every variable holds a value of its type, and no key is without its     *)
(* parent key.                                                             *)
TypeOK ==
  /\ registry \in [Entries -> Servers \cup {None}]
  /\ (\E e \in ClsidTree : Present(e)) => Present("CLSID")
  /\ server \in Servers \cup {None}
  /\ command \in {"none", "register", "unregister", "bat"}
  /\ result \in {"none", "running", "done", "thrown", "cut"}
  /\ result = "running" <=> todo # <<>>
  /\ runs \in 0 .. MaxRuns
  /\ writers \subseteq Servers /\ cutShort \in BOOLEAN

(* A server that is alone on the machine cleans up after itself: its       *)
(* /unregserver never throws and leaves nothing behind, however often and  *)
(* in which order it was registered and unregistered.                      *)
LoneServerCleansUp ==
  command = "unregister" /\ result \in {"done", "thrown"}
      /\ writers = {server} /\ ~cutShort =>
    result = "done" /\ Empty

(* The server that a client gets who, as the clients here, leaves the      *)
(* choice to COM: a DLL comes before an EXE of the same class.             *)
Activated ==
  IF Present("InprocServer32") THEN registry["InprocServer32"]
                               ELSE registry["LocalServer32"]

(* Whatever other servers and aborted commands left, a registration that   *)
(* is complete never throws, the class's type library is its server's, and *)
(* clients activate its server, with one exception: Cs and WinRtExe do not *)
(* remove what they do not write, so that a DLL server whose registration  *)
(* came before, and no UNREGISTER.bat without a failure between the two,   *)
(* is activated instead of them.                                           *)
RegisteredIsFound ==
  command = "register" /\ result \in {"done", "thrown"} =>
    /\ result = "done"
    /\ registry["TypeLib"] = server /\ registry["TypeLibrary"] = server
    /\ \/ Activated = server
       \/ server \in {"Cs", "WinRtExe"} /\ Activated \in writers \cap DllServers
=============================================================================
