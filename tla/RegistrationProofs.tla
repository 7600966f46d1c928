--------------------------- MODULE RegistrationProofs ---------------------------
(***************************************************************************)
(* Proofs about Registration for any set of the sample servers and any     *)
(* number of commands, complete, thrown or cut short, and runs of the      *)
(* script.  The invariants relate the registry to what the running command *)
(* still has to change.                                                    *)
(***************************************************************************)
EXTENDS Registration, SequenceTheorems, TLAPS

(* The changes that occur in a command, and what one of them deletes.      *)
Writes  == {"Set"} \X Entries
Clears  == {"ForceRemove"} \X {"AppID", "CLSID"}
Deletes == ({"DeleteTree"} \X {"CLSID", "AppID"})
             \cup ({"DeleteSubKey"} \X (SubKeys \cup {"CLSID", "AppID"}))
             \cup {<<"DeleteValue", "CLSID.AppID">>, <<"Delete", "TypeLibrary">>}

BatDeletes == {<<"Delete", "TypeLibrary">>, <<"DeleteTree", "CLSID">>,
               <<"DeleteTree", "AppID">>}

Removes(step) ==
  CASE step[1] = "DeleteTree"   -> Tree(step[2])
    [] step[1] = "DeleteSubKey" -> IF step[2] = "CLSID" THEN {"CLSID", "CLSID.AppID"}
                                                        ELSE {step[2]}
    [] OTHER                    -> {step[2]}

(* The changes that a running command still has to make.                   *)
JobInv ==
  /\ todo \in Seq(Writes \cup Clears \cup Deletes)
  /\ command # "bat" /\ writers # {} => server \in writers
  /\ result = "running" => \/ writers # {} /\ command \in {"register", "unregister"}
                           \/ command = "bat"
  /\ command = "register" => todo \in Seq(Writes \cup Clears) /\ server \in Servers
  /\ command = "unregister" => todo \in Seq(Deletes)
  /\ command = "bat" => todo \in Seq(BatDeletes) /\ server = None

RemovesAll(t) ==
  \A e \in Entries : Present(e) => \E k \in 1 .. Len(t) : e \in Removes(t[k])

(* The script has all that is there still to delete, unless it has failed. *)
BatInv ==
  command = "bat" =>
    /\ result # "thrown"
    /\ ~cutShort => RemovesAll(todo) /\ (result # "running" => writers = {})

(* The entries a client needs to find server s: each is written, or will   *)
(* be, and nothing is cleared after that.                                  *)
Needed(s) == {ModuleKey(s), "TypeLib", "TypeLibrary"}
OnlyWrites(t, from) == \A j \in from .. Len(t) : t[j] \in Writes
WillSet(t, e) ==
  \E k \in 1 .. Len(t) : t[k] = <<"Set", e>> /\ OnlyWrites(t, k)
RegisterInv ==
  command = "register" /\ result \in {"running", "done", "thrown"} =>
    /\ result # "thrown"
    /\ \A e \in Needed(server) :
         \/ registry[e] = server /\ OnlyWrites(todo, 1)
         \/ WillSet(todo, e)

(* Who wrote what is there: an InprocServer32 is of a DLL server, and the  *)
(* EXE server of ATL clears it away before it writes.                      *)
ModuleInv ==
  /\ \A e \in Entries : Present(e) => registry[e] \in writers
  /\ Present("InprocServer32") => registry["InprocServer32"] \in DllServers
  /\ command = "register" =>
       /\ \A k \in 1 .. Len(todo) : todo[k][2] = "InprocServer32" => server \in DllServers
       /\ server = "AtlExe" /\ Present("InprocServer32") /\ result \in {"running", "done"} =>
            \E k \in 1 .. Len(todo) : todo[k] = <<"ForceRemove", "CLSID">>

(* The invariants of a server that is alone.  What is there is its own;    *)
(* its /unregserver deletes all of that, each subkey before the key; and   *)
(* the C# server finds the value AppID wherever it finds the key.          *)
Lone == writers = {server} /\ ~cutShort

Own(s) ==
  CASE s = "Cs"                   -> Entries \ {"InprocServer32"}
    [] s \in {"AtlExe", "AtlDll"} -> Entries
    [] OTHER                      -> Entries \ {"AppID"}
OwnInv ==
  /\ \A e \in Entries : Present(e) => e \in Own(server)
  /\ command = "register" => \A k \in 1 .. Len(todo) : todo[k][2] \in Own(server)

SubKeysFirst(t) ==
  \A j \in 1 .. Len(t) : t[j] = <<"DeleteSubKey", "CLSID">> =>
    \A e \in SubKeys : Present(e) => \E k \in 1 .. j - 1 : t[k] = <<"DeleteSubKey", e>>
AppIDThere == Present("CLSID") => Present("CLSID.AppID")
ValueFirst(t) ==
  \A j \in 1 .. Len(t) : t[j] = <<"DeleteValue", "CLSID.AppID">> => j = 1 /\ AppIDThere
UnregisterInv ==
  command = "unregister" => RemovesAll(todo) /\ SubKeysFirst(todo) /\ ValueFirst(todo)

OutsideClsid(t, from) == \A j \in from .. Len(t) : t[j][2] \notin ClsidTree
WillSetAppID(t) ==
  \E k \in 1 .. Len(t) : t[k] = <<"Set", "CLSID.AppID">> /\ OutsideClsid(t, k + 1)
AppIDInv ==
  server = "Cs" =>
    \/ AppIDThere /\ OutsideClsid(todo, 1)
    \/ WillSetAppID(todo)
    \/ result = "running" /\ command = "unregister"

LoneInv ==
  /\ writers = {} => Empty
  /\ Lone => result # "thrown" /\ OwnInv /\ UnregisterInv /\ AppIDInv

IndInv == TypeOK /\ JobInv /\ BatInv /\ RegisterInv /\ ModuleInv /\ LoneInv

-----------------------------------------------------------------------------
(* The commands, change by change.                                         *)

LEMMA CsRegisterIs ==
  /\ Len(CsRegister) = 6 /\ CsRegister \in Seq(Writes)
  /\ CsRegister[1] = <<"Set", "TypeLibrary">> /\ CsRegister[2] = <<"Set", "CLSID">>
  /\ CsRegister[3] = <<"Set", "LocalServer32">> /\ CsRegister[4] = <<"Set", "TypeLib">>
  /\ CsRegister[5] = <<"Set", "CLSID.AppID">> /\ CsRegister[6] = <<"Set", "AppID">>
BY SMTT(30) DEF CsRegister, TypeLibRegister, ExeServerRegister, AppIDRegister, Writes,
   Entries, ClsidTree, SubKeys

LEMMA CsUnregisterIs ==
  /\ Len(CsUnregister) = 6 /\ CsUnregister \in Seq(Deletes)
  /\ CsUnregister[1] = <<"DeleteValue", "CLSID.AppID">>
  /\ CsUnregister[2] = <<"DeleteSubKey", "AppID">>
  /\ CsUnregister[3] = <<"DeleteSubKey", "LocalServer32">>
  /\ CsUnregister[4] = <<"DeleteSubKey", "TypeLib">>
  /\ CsUnregister[5] = <<"DeleteSubKey", "CLSID">>
  /\ CsUnregister[6] = <<"Delete", "TypeLibrary">>
BY SMTT(30) DEF CsUnregister, TypeLibUnregister, ExeServerUnregister, AppIDUnregister,
   Deletes, SubKeys

LEMMA AtlRegisterIs ==
  ASSUME NEW s \in ExeServers \cup DllServers
  PROVE  /\ Len(AtlRegister(s)) = 6 /\ AtlRegister(s) \in Seq(Writes \cup Clears)
         /\ AtlRegister(s)[1] = <<"ForceRemove", "AppID">>
         /\ AtlRegister(s)[2] = <<"ForceRemove", "CLSID">>
         /\ AtlRegister(s)[3] = <<"Set", "CLSID.AppID">>
         /\ AtlRegister(s)[4] = <<"Set", ModuleKey(s)>>
         /\ AtlRegister(s)[5] = <<"Set", "TypeLib">>
         /\ AtlRegister(s)[6] = <<"Set", "TypeLibrary">>
         /\ OnlyWrites(AtlRegister(s), 4)
<1>1. ModuleKey(s) \in Entries
  BY DEF ModuleKey, Entries, ClsidTree, SubKeys
<1> QED
  BY <1>1, SMTT(30) DEF AtlRegister, OnlyWrites, Writes, Clears, Entries, ClsidTree,
     SubKeys

LEMMA AtlUnregisterIs ==
  /\ Len(AtlUnregister) = 3 /\ AtlUnregister \in Seq(Deletes)
  /\ AtlUnregister[1] = <<"Delete", "TypeLibrary">>
  /\ AtlUnregister[2] = <<"DeleteTree", "CLSID">>
  /\ AtlUnregister[3] = <<"DeleteTree", "AppID">>
BY DEF AtlUnregister, Deletes

LEMMA WinRtRegisterIs ==
  ASSUME NEW s \in ExeServers \cup DllServers
  PROVE  /\ Len(WinRtRegister(s)) = 3 /\ WinRtRegister(s) \in Seq(Writes)
         /\ WinRtRegister(s)[1] = <<"Set", "TypeLibrary">>
         /\ WinRtRegister(s)[2] = <<"Set", ModuleKey(s)>>
         /\ WinRtRegister(s)[3] = <<"Set", "TypeLib">>
<1>1. ModuleKey(s) \in Entries
  BY DEF ModuleKey, Entries, ClsidTree, SubKeys
<1> QED
  BY <1>1, SMTT(30) DEF WinRtRegister, TypeLibRegister, Writes, Entries, ClsidTree, SubKeys

LEMMA WinRtUnregisterIs ==
  /\ Len(WinRtUnregister) = 2 /\ WinRtUnregister \in Seq(Deletes)
  /\ WinRtUnregister[1] = <<"Delete", "TypeLibrary">>
  /\ WinRtUnregister[2] = <<"DeleteTree", "CLSID">>
BY SMTT(30) DEF WinRtUnregister, TypeLibUnregister, Deletes

(* What the proofs need of a registration: it may clear keys first, then   *)
(* writes all a client needs, and writes nothing but its own.              *)
LEMMA RegisterTable ==
  ASSUME NEW s \in ExeServers \cup DllServers, NEW t, t = RegisterSteps(s)
  PROVE  /\ t \in Seq(Writes \cup Clears) /\ t # <<>>
         /\ \A e \in Needed(s) : WillSet(t, e)
         /\ \A k \in 1 .. Len(t) : t[k][2] \in Own(s)
         /\ s = "Cs" => WillSetAppID(t)
         /\ \A k \in 1 .. Len(t) : t[k][2] = "InprocServer32" => s \in DllServers
         /\ s = "AtlExe" => \E k \in 1 .. Len(t) : t[k] = <<"ForceRemove", "CLSID">>
<1>1. CASE s = "Cs"
  <2>1. t = CsRegister
    BY <1>1 DEF RegisterSteps
  <2>2. /\ Len(t) = 6 /\ t \in Seq(Writes)
        /\ t[1] = <<"Set", "TypeLibrary">> /\ t[2] = <<"Set", "CLSID">>
        /\ t[3] = <<"Set", "LocalServer32">> /\ t[4] = <<"Set", "TypeLib">>
        /\ t[5] = <<"Set", "CLSID.AppID">> /\ t[6] = <<"Set", "AppID">>
    BY <2>1, CsRegisterIs
  <2>3. /\ \A k \in 1 .. 6 : k \in {1, 2, 3, 4, 5, 6}
        /\ \A k \in {1, 2, 3, 4, 5, 6} : \A j \in k .. 6 : j \in 1 .. 6
        /\ \A j \in 6 .. 6 : j = 6
    OBVIOUS
  <2>4. \A j \in 1 .. 6 : t[j] \in Writes
    BY <2>2, ElementOfSeq
  <2>5. t \in Seq(Writes \cup Clears) /\ t # <<>>
    BY <2>2
  <2>6. \A k \in {1, 2, 3, 4, 5, 6} : OnlyWrites(t, k)
    BY <2>2, <2>3, <2>4 DEF OnlyWrites
  <2>7. Needed(s) = {"LocalServer32", "TypeLib", "TypeLibrary"}
    BY <1>1 DEF Needed, ModuleKey, ExeServers
  <2>8. \A e \in Needed(s) : WillSet(t, e)
    <3>1. 1 \in 1 .. 6 /\ 3 \in 1 .. 6 /\ 4 \in 1 .. 6
      OBVIOUS
    <3> QED
      BY <2>2, <2>6, <2>7, <3>1 DEF WillSet
  <2>9. \A k \in 1 .. 6 : t[k][2] \in Own(s)
    BY <1>1, <2>2, <2>3 DEF Own, Entries, ClsidTree, SubKeys
  <2>10. WillSetAppID(t)
    <3>1. 5 \in 1 .. 6 /\ 5 + 1 = 6 /\ "AppID" \notin ClsidTree
      BY DEF ClsidTree, SubKeys
    <3>2. OutsideClsid(t, 6)
      BY <2>2, <2>3, <3>1 DEF OutsideClsid
    <3> QED
      BY <2>2, <3>1, <3>2 DEF WillSetAppID
  <2>11. \A k \in 1 .. 6 : t[k][2] # "InprocServer32"
    BY <2>2, <2>3
  <2> QED
    BY <1>1, <2>2, <2>5, <2>8, <2>9, <2>10, <2>11
<1>2. CASE s \in {"AtlExe", "AtlDll"}
  <2>1. t = AtlRegister(s) /\ s # "Cs"
    BY <1>2 DEF RegisterSteps
  <2>2. /\ Len(t) = 6 /\ t \in Seq(Writes \cup Clears)
        /\ t[1] = <<"ForceRemove", "AppID">> /\ t[2] = <<"ForceRemove", "CLSID">>
        /\ t[3] = <<"Set", "CLSID.AppID">> /\ t[4] = <<"Set", ModuleKey(s)>>
        /\ t[5] = <<"Set", "TypeLib">> /\ t[6] = <<"Set", "TypeLibrary">>
        /\ OnlyWrites(t, 4)
    BY <2>1, AtlRegisterIs
  <2>3. OnlyWrites(t, 5) /\ OnlyWrites(t, 6)
    BY <2>2 DEF OnlyWrites
  <2>4. 4 \in 1 .. 6 /\ 5 \in 1 .. 6 /\ 6 \in 1 .. 6
    OBVIOUS
  <2>5. \A e \in Needed(s) : WillSet(t, e)
    BY <2>2, <2>3, <2>4 DEF WillSet, Needed
  <2>6. \A k \in 1 .. 6 : t[k] \in Writes \cup Clears
    BY <2>2, ElementOfSeq
  <2>7. \A k \in 1 .. 6 : t[k][2] \in Own(s)
    BY <1>2, <2>6 DEF Own, Writes, Clears, Entries, ClsidTree, SubKeys
  <2>8. \A k \in 1 .. 6 : t[k][2] = "InprocServer32" => s \in DllServers
    <3>1. \A k \in 1 .. 6 : k \in {1, 2, 3, 4, 5, 6}
      OBVIOUS
    <3>2. ModuleKey(s) = "InprocServer32" => s \in DllServers
      BY <1>2 DEF ModuleKey, ExeServers, DllServers
    <3> QED
      BY <2>2, <3>1, <3>2
  <2>9. 2 \in 1 .. 6
    OBVIOUS
  <2> QED
    BY <2>1, <2>2, <2>5, <2>7, <2>8, <2>9
<1>3. CASE s \in {"WinRtExe", "WinRtDll"}
  <2>1. t = WinRtRegister(s) /\ s # "Cs"
    BY <1>3 DEF RegisterSteps
  <2>2. /\ Len(t) = 3 /\ t \in Seq(Writes) /\ t[1] = <<"Set", "TypeLibrary">>
        /\ t[2] = <<"Set", ModuleKey(s)>> /\ t[3] = <<"Set", "TypeLib">>
    BY <2>1, WinRtRegisterIs
  <2>3. /\ \A k \in 1 .. 3 : k \in {1, 2, 3}
        /\ \A k \in {1, 2, 3} : \A j \in k .. 3 : j \in 1 .. 3
        /\ 1 \in 1 .. 3 /\ 2 \in 1 .. 3 /\ 3 \in 1 .. 3
    OBVIOUS
  <2>4. \A j \in 1 .. 3 : t[j] \in Writes
    BY <2>2, ElementOfSeq
  <2>5. t \in Seq(Writes \cup Clears) /\ t # <<>>
    BY <2>2
  <2>6. \A k \in {1, 2, 3} : OnlyWrites(t, k)
    BY <2>2, <2>3, <2>4 DEF OnlyWrites
  <2>7. \A e \in Needed(s) : WillSet(t, e)
    BY <2>2, <2>3, <2>6 DEF WillSet, Needed
  <2>8. \A k \in 1 .. 3 : t[k][2] \in Own(s)
    BY <1>3, <2>2, <2>3 DEF Own, ModuleKey, Entries, ClsidTree, SubKeys
  <2>9. \A k \in 1 .. 3 : t[k][2] = "InprocServer32" => s \in DllServers
    <3>1. ModuleKey(s) = "InprocServer32" => s \in DllServers
      BY <1>3 DEF ModuleKey, ExeServers, DllServers
    <3> QED
      BY <2>2, <2>3, <3>1
  <2> QED
    BY <1>3, <2>1, <2>2, <2>5, <2>7, <2>8, <2>9
<1> QED
  BY <1>1, <1>2, <1>3 DEF ExeServers, DllServers

(* What they need of an unregistration, of a machine where nothing is but  *)
(* what the server owns.                                                   *)
LEMMA UnregisterTable ==
  ASSUME NEW s \in ExeServers \cup DllServers, NEW t, t = UnregisterSteps(s)
  PROVE  /\ t \in Seq(Deletes) /\ t # <<>>
         /\ (\A e \in Entries : Present(e) => e \in Own(s)) =>
              RemovesAll(t) /\ SubKeysFirst(t)
         /\ (s = "Cs" => AppIDThere) => ValueFirst(t)
<1>1. CASE s = "Cs"
  <2>1. t = CsUnregister
    BY <1>1 DEF UnregisterSteps
  <2>2. /\ Len(t) = 6 /\ t \in Seq(Deletes)
        /\ t[1] = <<"DeleteValue", "CLSID.AppID">> /\ t[2] = <<"DeleteSubKey", "AppID">>
        /\ t[3] = <<"DeleteSubKey", "LocalServer32">>
        /\ t[4] = <<"DeleteSubKey", "TypeLib">> /\ t[5] = <<"DeleteSubKey", "CLSID">>
        /\ t[6] = <<"Delete", "TypeLibrary">>
    BY <2>1, CsUnregisterIs
  <2>3. /\ \A k \in 1 .. 6 : k \in {1, 2, 3, 4, 5, 6}
        /\ \A k \in {1, 2, 3, 4, 5, 6} : k \in 1 .. 6
        /\ 3 \in 1 .. 5 - 1 /\ 4 \in 1 .. 5 - 1
    OBVIOUS
  <2>4. t # <<>>
    BY <2>2
  <2>5. ASSUME \A e \in Entries : Present(e) => e \in Own(s)
        PROVE  RemovesAll(t)
    <3>1. /\ Removes(t[1]) = {"CLSID.AppID"} /\ Removes(t[2]) = {"AppID"}
          /\ Removes(t[3]) = {"LocalServer32"} /\ Removes(t[4]) = {"TypeLib"}
          /\ "CLSID" \in Removes(t[5]) /\ Removes(t[6]) = {"TypeLibrary"}
      BY <2>2 DEF Removes
    <3>2. \A e \in Own(s) : \E k \in {1, 2, 3, 4, 5, 6} : e \in Removes(t[k])
      BY <1>1, <3>1 DEF Own, Entries, ClsidTree, SubKeys
    <3> QED
      BY <2>2, <2>3, <2>5, <3>2 DEF RemovesAll
  <2>6. ASSUME \A e \in Entries : Present(e) => e \in Own(s)
        PROVE  SubKeysFirst(t)
    <3>1. \A e \in SubKeys : Present(e) => e \in {"LocalServer32", "TypeLib"}
      BY <1>1, <2>6 DEF Own, Entries, ClsidTree, SubKeys
    <3>2. \A j \in 1 .. Len(t) : t[j] = <<"DeleteSubKey", "CLSID">> => j = 5
      BY <2>2, <2>3
    <3> QED
      BY <2>2, <2>3, <3>1, <3>2 DEF SubKeysFirst
  <2>7. ASSUME AppIDThere
        PROVE  ValueFirst(t)
    BY <2>2, <2>3, <2>7 DEF ValueFirst
  <2> QED
    BY <1>1, <2>2, <2>4, <2>5, <2>6, <2>7
<1>2. CASE s \in {"AtlExe", "AtlDll"}
  <2>1. t = AtlUnregister
    BY <1>2 DEF UnregisterSteps
  <2>2. /\ Len(t) = 3 /\ t \in Seq(Deletes) /\ t[1] = <<"Delete", "TypeLibrary">>
        /\ t[2] = <<"DeleteTree", "CLSID">> /\ t[3] = <<"DeleteTree", "AppID">>
    BY <2>1, AtlUnregisterIs
  <2>3. /\ \A k \in 1 .. 3 : k \in {1, 2, 3}
        /\ \A k \in {1, 2, 3} : k \in 1 .. 3
    OBVIOUS
  <2>4. \A e \in Entries : \E k \in {1, 2, 3} : e \in Removes(t[k])
    BY <2>2 DEF Removes, Tree, Entries
  <2>5. RemovesAll(t)
    BY <2>2, <2>3, <2>4 DEF RemovesAll
  <2>6. SubKeysFirst(t) /\ ValueFirst(t) /\ t # <<>>
    BY <2>2, <2>3 DEF SubKeysFirst, ValueFirst
  <2> QED
    BY <2>2, <2>5, <2>6
<1>3. CASE s \in {"WinRtExe", "WinRtDll"}
  <2>1. t = WinRtUnregister
    BY <1>3 DEF UnregisterSteps
  <2>2. /\ Len(t) = 2 /\ t \in Seq(Deletes) /\ t[1] = <<"Delete", "TypeLibrary">>
        /\ t[2] = <<"DeleteTree", "CLSID">>
    BY <2>1, WinRtUnregisterIs
  <2>3. (\A k \in 1 .. 2 : k \in {1, 2}) /\ \A k \in {1, 2} : k \in 1 .. 2
    OBVIOUS
  <2>4. \A e \in Own(s) : \E k \in {1, 2} : e \in Removes(t[k])
    BY <1>3, <2>2 DEF Own, Removes, Tree, Entries
  <2>5. (\A e \in Entries : Present(e) => e \in Own(s)) => RemovesAll(t)
    BY <2>2, <2>3, <2>4 DEF RemovesAll
  <2>6. SubKeysFirst(t) /\ ValueFirst(t) /\ t # <<>>
    BY <2>2, <2>3 DEF SubKeysFirst, ValueFirst
  <2> QED
    BY <2>2, <2>5, <2>6
<1> QED
  BY <1>1, <1>2, <1>3 DEF ExeServers, DllServers

-----------------------------------------------------------------------------
(* One change.                                                             *)

LEMMA HeadTail ==
  ASSUME NEW S, NEW t \in Seq(S), t # <<>>
  PROVE  /\ Len(t) \in Nat \ {0} /\ 1 \in 1 .. Len(t)
         /\ Head(t) = t[1] /\ t[1] \in S
         /\ Tail(t) \in Seq(S) /\ Len(Tail(t)) = Len(t) - 1
         /\ \A k \in 1 .. Len(Tail(t)) : k + 1 \in 1 .. Len(t) /\ Tail(t)[k] = t[k + 1]
<1>1. /\ Head(t) \in S /\ Tail(t) \in Seq(S) /\ Len(Tail(t)) = Len(t) - 1
      /\ \A i \in 1 .. Len(Tail(t)) : Tail(t)[i] = t[i + 1]
  BY HeadTailProperties
<1>2. Len(t) \in Nat \ {0}
  BY EmptySeq, LenProperties
<1>3. Head(t) = t[1]
  OBVIOUS
<1>4. 1 \in 1 .. Len(t) /\ \A k \in 1 .. Len(t) - 1 : k + 1 \in 1 .. Len(t)
  BY <1>2
<1> QED
  BY <1>1, <1>2, <1>3, <1>4

LEMMA WritesIs ==
  ASSUME TypeOK, server \in Servers, NEW e \in Entries, registry' = With(registry, e)
  PROVE  \A f \in Entries :
           /\ f = e \/ registry[f] = server => registry'[f] = server
           /\ Present(f) \/ (f = "CLSID" /\ e \in ClsidTree) => registry'[f] # None
           /\ registry'[f] # None =>
                Present(f) \/ f = e \/ (f = "CLSID" /\ e \in ClsidTree)
           /\ registry'[f] \in Servers \cup {None}
           /\ registry'[f] = registry[f]
                \/ (registry'[f] = server /\ (f = e \/ f = "CLSID"))
<1>1. server # None
  BY RegistrationAssumption
<1>2. /\ \A f \in Entries : registry[f] \in Servers \cup {None}
      /\ "CLSID" \in Entries
  BY DEF TypeOK, Entries, ClsidTree
<1> SUFFICES ASSUME NEW f \in Entries
             PROVE  registry'[f] =
                      IF f = e \/ (f = "CLSID" /\ e \in ClsidTree /\ registry[f] = None)
                        THEN server ELSE registry[f]
  BY <1>1, <1>2 DEF Present
<1> QED
  BY DEF With

LEMMA ClearsIs ==
  ASSUME TypeOK, server \in Servers, NEW e \in {"AppID", "CLSID"},
         registry' = With(Without(Tree(e)), e)
  PROVE  \A f \in Entries :
           /\ f = e => registry'[f] # None
           /\ f \notin Tree(e) => registry'[f] = registry[f]
           /\ f \in Tree(e) => registry'[f] = IF f = e THEN server ELSE None
           /\ registry'[f] # None => Present(f) \/ f = e
           /\ registry'[f] \in Servers \cup {None}
<1>1. e \in Entries /\ e \in Tree(e) /\ (e \in ClsidTree => e = "CLSID")
  BY DEF Entries, ClsidTree, SubKeys, Tree
<1> QED
  BY <1>1, RegistrationAssumption DEF With, Without, Present, TypeOK

LEMMA DeletesIs ==
  ASSUME NEW step \in Deletes
  PROVE  Changed(step[1], step[2]) = Without(Removes(step))
<1>1. CASE step \in {"DeleteTree"} \X {"CLSID", "AppID"}
  BY <1>1 DEF Changed, Removes
<1>2. CASE step \in {"DeleteSubKey"} \X (SubKeys \cup {"CLSID", "AppID"})
  BY <1>2 DEF Changed, Removes
<1>3. CASE step \in {<<"DeleteValue", "CLSID.AppID">>, <<"Delete", "TypeLibrary">>}
  BY <1>3 DEF Changed, Removes
<1> QED
  BY <1>1, <1>2, <1>3 DEF Deletes

(* What a change does to the command and to the registry.                  *)
LEMMA ChangeIs ==
  ASSUME TypeOK, JobInv, Change
  PROVE  /\ todo # <<>> /\ server \in Servers /\ 1 \in 1 .. Len(todo)
         /\ todo' = Tail(todo) /\ Len(todo') = Len(todo) - 1 /\ Len(todo) \in Nat
         /\ \A k \in 1 .. Len(todo') : k + 1 \in 1 .. Len(todo) /\ todo'[k] = todo[k + 1]
         /\ command = "register" => todo[1] \in Writes \cup Clears
         /\ command = "unregister" => todo[1] \in Deletes
         /\ command \in {"register", "unregister"}
         /\ todo[1] \in Writes => registry' = With(registry, todo[1][2])
         /\ todo[1] \in Clears => registry' = With(Without(Tree(todo[1][2])), todo[1][2])
         /\ todo[1] \in Deletes => registry' = Without(Removes(todo[1]))
         /\ result' \in {"running", "done"} /\ (result' = "running" <=> todo' # <<>>)
         /\ ~Throws(todo[1][1], todo[1][2])
<1>1. /\ result = "running" /\ todo # <<>> /\ server \in Servers
      /\ command \in {"register", "unregister"}
  BY RegistrationAssumption DEF Change, TypeOK, JobInv
<1>2. /\ Len(todo) \in Nat \ {0} /\ 1 \in 1 .. Len(todo) /\ Head(todo) = todo[1]
      /\ Len(Tail(todo)) = Len(todo) - 1
      /\ \A k \in 1 .. Len(Tail(todo)) :
           k + 1 \in 1 .. Len(todo) /\ Tail(todo)[k] = todo[k + 1]
  BY <1>1, HeadTail DEF JobInv
<1>3. /\ command = "register" => todo[1] \in Writes \cup Clears
      /\ command = "unregister" => todo[1] \in Deletes
  BY <1>1, HeadTail DEF JobInv
<1>4. /\ registry' = Changed(todo[1][1], todo[1][2]) /\ todo' = Tail(todo)
      /\ ~Throws(todo[1][1], todo[1][2])
      /\ result' = IF Tail(todo) = <<>> THEN "done" ELSE "running"
  BY <1>2 DEF Change
<1>5. todo[1] \in Writes => registry' = With(registry, todo[1][2])
  BY <1>4 DEF Writes, Changed
<1>6. todo[1] \in Clears => registry' = With(Without(Tree(todo[1][2])), todo[1][2])
  BY <1>4 DEF Clears, Changed
<1>7. todo[1] \in Deletes => registry' = Without(Removes(todo[1]))
  BY <1>4, DeletesIs
<1> QED
  BY <1>1, <1>2, <1>3, <1>4, <1>5, <1>6, <1>7

(* What is to be written is still to be, or was written by the change.     *)
LEMMA RestWrites ==
  ASSUME NEW t, NEW u, Len(t) \in Nat, Len(u) = Len(t) - 1,
         \A k \in 1 .. Len(u) : k + 1 \in 1 .. Len(t) /\ u[k] = t[k + 1]
  PROVE  /\ OnlyWrites(t, 1) => OnlyWrites(u, 1)
         /\ OutsideClsid(t, 1) => OutsideClsid(u, 1)
         /\ \A e : WillSet(t, e) =>
              WillSet(u, e) \/ (t[1] = <<"Set", e>> /\ OnlyWrites(u, 1))
         /\ WillSetAppID(t) =>
              \/ WillSetAppID(u)
              \/ t[1] = <<"Set", "CLSID.AppID">> /\ OutsideClsid(u, 1)
<1> DEFINE n == Len(t)
           m == Len(u)
<1>1. n \in Nat /\ m = n - 1 /\ \A k \in 1 .. m : k + 1 \in 1 .. n /\ u[k] = t[k + 1]
  OBVIOUS
<1> HIDE DEF n, m
<1>2. \A k \in 1 .. n : k = 1 \/ (k - 1 \in 1 .. m /\ k - 1 + 1 = k)
  BY <1>1
<1>3. \A k \in 1 .. n : \A j \in k - 1 .. m :
        k # 1 => j + 1 \in k .. n /\ j \in 1 .. m
  BY <1>1
<1>4. \A k \in 1 .. n : \A j \in k - 1 + 1 .. m :
        k # 1 => j + 1 \in k + 1 .. n /\ j \in 1 .. m
  BY <1>1
<1>5. \A j \in 1 .. m : j + 1 \in 1 .. n /\ j + 1 \in 2 .. n /\ j + 1 \in 1 + 1 .. n
  BY <1>1
<1>6. OnlyWrites(t, 1) => OnlyWrites(u, 1)
  BY <1>1, <1>5 DEF OnlyWrites, n, m
<1>7. OutsideClsid(t, 1) => OutsideClsid(u, 1)
  BY <1>1, <1>5 DEF OutsideClsid, n, m
<1>8. ASSUME NEW e, WillSet(t, e)
      PROVE  WillSet(u, e) \/ (t[1] = <<"Set", e>> /\ OnlyWrites(u, 1))
  <2>1. PICK k \in 1 .. n : t[k] = <<"Set", e>> /\ \A j \in k .. n : t[j] \in Writes
    BY <1>8 DEF WillSet, OnlyWrites, n
  <2>2. CASE k = 1
    BY <1>1, <1>5, <2>1, <2>2 DEF OnlyWrites, m
  <2>3. CASE k # 1
    <3>1. k - 1 \in 1 .. m /\ u[k - 1] = <<"Set", e>>
      BY <1>1, <1>2, <2>1, <2>3
    <3>2. \A j \in k - 1 .. m : u[j] \in Writes
      BY <1>1, <1>3, <2>1, <2>3
    <3> QED
      BY <3>1, <3>2 DEF WillSet, OnlyWrites, m
  <2> QED
    BY <2>2, <2>3
<1>9. ASSUME WillSetAppID(t)
      PROVE  \/ WillSetAppID(u)
             \/ t[1] = <<"Set", "CLSID.AppID">> /\ OutsideClsid(u, 1)
  <2>1. PICK k \in 1 .. n : /\ t[k] = <<"Set", "CLSID.AppID">>
                            /\ \A j \in k + 1 .. n : t[j][2] \notin ClsidTree
    BY <1>9 DEF WillSetAppID, OutsideClsid, n
  <2>2. CASE k = 1
    BY <1>1, <1>5, <2>1, <2>2 DEF OutsideClsid, m
  <2>3. CASE k # 1
    <3>1. k - 1 \in 1 .. m /\ u[k - 1] = <<"Set", "CLSID.AppID">>
      BY <1>1, <1>2, <2>1, <2>3
    <3>2. \A j \in k - 1 + 1 .. m : u[j][2] \notin ClsidTree
      BY <1>1, <1>4, <2>1, <2>3
    <3> QED
      BY <3>1, <3>2 DEF WillSetAppID, OutsideClsid, m
  <2> QED
    BY <2>2, <2>3
<1> QED
  BY <1>6, <1>7, <1>8, <1>9

-----------------------------------------------------------------------------
(* The steps.                                                              *)

LEMMA InitInv == Init => IndInv
<1> SUFFICES ASSUME Init PROVE IndInv
  OBVIOUS
<1>1. Empty /\ todo \in Seq(Writes \cup Clears \cup Deletes) /\ writers = {}
  BY DEF Init, Empty, Present
<1>2. TypeOK
  <2>1. /\ registry \in [Entries -> Servers \cup {None}]
        /\ \A e \in ClsidTree : ~Present(e)
    BY DEF Init, Present, Entries
  <2>2. 0 \in 0 .. MaxRuns
    BY RegistrationAssumption
  <2> QED
    BY <2>1, <2>2 DEF Init, TypeOK
<1>3. ModuleInv
  <2>1. "InprocServer32" \in Entries
    BY DEF Entries, ClsidTree, SubKeys
  <2> QED
    BY <1>1, <2>1 DEF Init, ModuleInv, Empty
<1> QED
  BY <1>1, <1>2, <1>3 DEF Init, IndInv, JobInv, BatInv, RegisterInv, LoneInv, Lone

(* What a lone server meets when it starts a command.                      *)
LEMMA LoneStart ==
  ASSUME IndInv, NEW s \in Servers, result # "running", writers \cup {s} = {s}, ~cutShort
  PROVE  /\ \A e \in Entries : Present(e) => e \in Own(s)
         /\ s = "Cs" => AppIDThere
<1>1. CASE writers = {}
  <2>1. Empty /\ "CLSID" \in Entries
    BY <1>1 DEF IndInv, LoneInv, Entries, ClsidTree
  <2> QED
    BY <2>1 DEF Empty, AppIDThere
<1>2. CASE writers # {}
  <2>1. Lone /\ server = s /\ todo = <<>>
    BY <1>2 DEF IndInv, JobInv, BatInv, Lone, TypeOK
  <2>2. OwnInv /\ AppIDInv /\ ~WillSetAppID(todo)
    <3>1. Len(todo) = 0 /\ \A k \in 1 .. 0 : FALSE
      BY <2>1
    <3> QED
      BY <2>1, <3>1 DEF IndInv, LoneInv, WillSetAppID
  <2> QED
    BY <2>1, <2>2 DEF OwnInv, AppIDInv
<1> QED
  BY <1>1, <1>2

LEMMA StartInv ==
  ASSUME IndInv, NEW s \in Servers, Register(s) \/ Unregister(s)
  PROVE  IndInv'
<1>1. /\ TypeOK /\ JobInv /\ s \in ExeServers \cup DllServers
      /\ result # "running" /\ runs < MaxRuns
      /\ server' = s /\ result' = "running" /\ runs' = runs + 1
      /\ writers' = writers \cup {s} /\ registry' = registry /\ cutShort' = cutShort
  BY RegistrationAssumption DEF IndInv, Register, Unregister, Start
<1>2. \/ command' = "register" /\ todo' = RegisterSteps(s)
      \/ command' = "unregister" /\ todo' = UnregisterSteps(s)
  BY DEF Register, Unregister, Start
<1>3. command' = "register" =>
        /\ todo' \in Seq(Writes \cup Clears) /\ todo' # <<>>
        /\ \A e \in Needed(s) : WillSet(todo', e)
        /\ \A k \in 1 .. Len(todo') : todo'[k][2] \in Own(s)
        /\ s = "Cs" => WillSetAppID(todo')
        /\ \A k \in 1 .. Len(todo') : todo'[k][2] = "InprocServer32" => s \in DllServers
        /\ s = "AtlExe" => \E k \in 1 .. Len(todo') : todo'[k] = <<"ForceRemove", "CLSID">>
  BY <1>1, <1>2, RegisterTable
<1>4. command' = "unregister" => todo' \in Seq(Deletes) /\ todo' # <<>>
  BY <1>1, <1>2, UnregisterTable
<1>5. TypeOK'
  <2>1. runs + 1 \in 0 .. MaxRuns
    BY <1>1, RegistrationAssumption DEF TypeOK
  <2> QED
    BY <1>1, <1>2, <1>3, <1>4, <2>1 DEF TypeOK, Present
<1>6. JobInv' /\ BatInv'
  <2>1. todo' \in Seq(Writes \cup Clears \cup Deletes)
    BY <1>2, <1>3, <1>4
  <2> QED
    BY <1>1, <1>2, <1>3, <1>4, <2>1 DEF JobInv, BatInv
<1>7. RegisterInv'
  BY <1>1, <1>3 DEF RegisterInv, WillSet, OnlyWrites
<1>8. ASSUME Lone'
      PROVE  (OwnInv /\ UnregisterInv /\ AppIDInv)'
  <2>1. writers \cup {s} = {s} /\ ~cutShort
    BY <1>1, <1>8 DEF Lone
  <2>2. /\ \A e \in Entries : Present(e) => e \in Own(s)
        /\ s = "Cs" => AppIDThere
    BY <1>1, <2>1, LoneStart
  <2>3. OwnInv'
    BY <1>1, <1>2, <1>3, <2>2 DEF OwnInv, Present
  <2>4. UnregisterInv'
    <3>1. command' = "unregister" =>
            RemovesAll(todo') /\ SubKeysFirst(todo') /\ ValueFirst(todo')
      BY <1>1, <1>2, <2>2, UnregisterTable
    <3> QED
      BY <1>1, <3>1 DEF UnregisterInv, RemovesAll, SubKeysFirst, ValueFirst, AppIDThere,
         Present
  <2>5. AppIDInv'
    BY <1>1, <1>2, <1>3 DEF AppIDInv, WillSetAppID, OutsideClsid
  <2> QED
    BY <2>3, <2>4, <2>5
<1>9. LoneInv'
  BY <1>1, <1>8 DEF LoneInv
<1>10. ModuleInv'
  BY <1>1, <1>2, <1>3 DEF IndInv, ModuleInv, Present
<1> QED
  BY <1>5, <1>6, <1>7, <1>9, <1>10 DEF IndInv

(* A change keeps the keys under their parent keys: DeleteSubKey would     *)
(* throw rather than take a key from its subkeys.                          *)
LEMMA ChangeTypes ==
  ASSUME TypeOK, JobInv, Change
  PROVE  TypeOK'
<1> DEFINE step == todo[1]
           e == step[2]
<1>1. /\ server \in Servers /\ result' \in {"running", "done"}
      /\ (result' = "running" <=> todo' # <<>>) /\ step \in Writes \cup Clears \cup Deletes
      /\ step \in Writes => registry' = With(registry, e)
      /\ step \in Clears => registry' = With(Without(Tree(e)), e)
      /\ step \in Deletes => registry' = Without(Removes(step))
      /\ ~Throws(step[1], e)
  BY ChangeIs
<1> HIDE DEF step
<1>2. /\ registry \in [Entries -> Servers \cup {None}]
      /\ ClsidTree \subseteq Entries /\ "CLSID" \in ClsidTree
      /\ (\E f \in ClsidTree : Present(f)) => Present("CLSID")
  BY DEF TypeOK, Entries, ClsidTree
<1>3. /\ registry' \in [Entries -> Servers \cup {None}]
      /\ (\E f \in ClsidTree : registry'[f] # None) => registry'["CLSID"] # None
  <2>1. CASE step \in Writes
    <3>1. e \in Entries /\ registry' = With(registry, e)
      BY <1>1, <2>1 DEF Writes
    <3>2. \A f \in Entries :
            /\ Present(f) \/ (f = "CLSID" /\ e \in ClsidTree) => registry'[f] # None
            /\ registry'[f] # None =>
                 Present(f) \/ f = e \/ (f = "CLSID" /\ e \in ClsidTree)
            /\ registry'[f] \in Servers \cup {None}
      BY <1>1, <3>1, WritesIs
    <3>3. registry' = [f \in Entries |-> registry'[f]]
      BY <3>1 DEF With
    <3>4. (\E f \in ClsidTree : registry'[f] # None) => registry'["CLSID"] # None
      BY <1>2, <3>2
    <3> QED
      BY <3>2, <3>3, <3>4
  <2>2. CASE step \in Clears
    <3>1. e \in {"AppID", "CLSID"} /\ registry' = With(Without(Tree(e)), e)
      BY <1>1, <2>2 DEF Clears
    <3>2. \A f \in Entries :
            /\ f = e => registry'[f] # None
            /\ f \notin Tree(e) => registry'[f] = registry[f]
            /\ registry'[f] # None => Present(f) \/ f = e
            /\ registry'[f] \in Servers \cup {None}
      BY <1>1, <3>1, ClearsIs
    <3>3. registry' = [f \in Entries |-> registry'[f]]
      BY <3>1 DEF With
    <3>4. e # "CLSID" => e \notin ClsidTree /\ "CLSID" \notin Tree(e)
      BY <3>1 DEF Tree, ClsidTree, SubKeys
    <3>5. (\E f \in ClsidTree : registry'[f] # None) => registry'["CLSID"] # None
      BY <1>2, <3>2, <3>4 DEF Present
    <3> QED
      BY <3>2, <3>3, <3>5
  <2>3. CASE step \in Deletes
    <3>1. registry' = [f \in Entries |-> IF f \in Removes(step) THEN None ELSE registry[f]]
      BY <1>1, <2>3 DEF Without
    <3>2. registry' \in [Entries -> Servers \cup {None}]
      BY <1>2, <3>1
    <3>3. \A f \in ClsidTree : registry'[f] # None <=> Present(f) /\ f \notin Removes(step)
      BY <1>2, <3>1 DEF Present
    <3>4. "CLSID" \in Removes(step) => \A f \in ClsidTree : Present(f) => f \in Removes(step)
      <4>1. CASE step = <<"DeleteSubKey", "CLSID">>
        BY <1>1, <4>1 DEF Removes, Throws, ClsidTree
      <4>2. CASE step = <<"DeleteTree", "CLSID">>
        BY <4>2 DEF Removes, Tree
      <4>3. CASE step \notin {<<"DeleteSubKey", "CLSID">>, <<"DeleteTree", "CLSID">>}
        <5>1. "CLSID" \notin SubKeys
          BY DEF SubKeys
        <5> QED
          BY <2>3, <4>3, <5>1 DEF Deletes, Removes, Tree
      <4> QED
        BY <4>1, <4>2, <4>3
    <3>5. (\E f \in ClsidTree : registry'[f] # None) => registry'["CLSID"] # None
      BY <1>2, <3>3, <3>4
    <3> QED
      BY <3>2, <3>5
  <2> QED
    BY <1>1, <2>1, <2>2, <2>3
<1> QED
  BY <1>1, <1>3 DEF TypeOK, Change, Present

(* A registration does not throw, and points all a client needs to its     *)
(* server.                                                                 *)
LEMMA ChangeRegisters ==
  ASSUME TypeOK, JobInv, RegisterInv, Change
  PROVE  RegisterInv'
<1> SUFFICES ASSUME command = "register"
             PROVE  \A e \in Needed(server) :
                      \/ registry'[e] = server /\ OnlyWrites(todo', 1)
                      \/ WillSet(todo', e)
  BY ChangeIs DEF RegisterInv, Change, OnlyWrites, WillSet
<1>1. /\ server \in Servers /\ 1 \in 1 .. Len(todo)
      /\ Len(todo') = Len(todo) - 1 /\ Len(todo) \in Nat
      /\ \A k \in 1 .. Len(todo') : k + 1 \in 1 .. Len(todo) /\ todo'[k] = todo[k + 1]
      /\ todo[1] \in Writes => registry' = With(registry, todo[1][2])
  BY ChangeIs
<1>2. TAKE e \in Needed(server)
<1>3. e \in Entries
  BY <1>2 DEF Needed, ModuleKey, Entries, ClsidTree, SubKeys
<1>4. /\ OnlyWrites(todo, 1) => OnlyWrites(todo', 1)
      /\ WillSet(todo, e) =>
           WillSet(todo', e) \/ (todo[1] = <<"Set", e>> /\ OnlyWrites(todo', 1))
  BY <1>1, RestWrites
<1>5. ASSUME todo[1] \in Writes, registry[e] = server \/ e = todo[1][2]
      PROVE  registry'[e] = server
  <2>1. todo[1][2] \in Entries /\ registry' = With(registry, todo[1][2])
    BY <1>1, <1>5 DEF Writes
  <2> QED
    BY <1>1, <1>3, <1>5, <2>1, WritesIs
<1>6. CASE registry[e] = server /\ OnlyWrites(todo, 1)
  BY <1>1, <1>4, <1>5, <1>6 DEF OnlyWrites
<1>7. CASE WillSet(todo, e)
  BY <1>3, <1>4, <1>5, <1>7 DEF Writes
<1> QED
  BY <1>2, <1>6, <1>7 DEF RegisterInv, Change

(* What is there was written by who ran a command, an InprocServer32 by a  *)
(* DLL server.                                                             *)
LEMMA ChangeModule ==
  ASSUME TypeOK, JobInv, ModuleInv, Change
  PROVE  ModuleInv'
<1> DEFINE step == todo[1]
           I == "InprocServer32"
<1>1. /\ server \in Servers /\ Len(todo) \in Nat /\ 1 \in 1 .. Len(todo)
      /\ Len(todo') = Len(todo) - 1
      /\ \A k \in 1 .. Len(todo') : k + 1 \in 1 .. Len(todo) /\ todo'[k] = todo[k + 1]
      /\ command \in {"register", "unregister"}
      /\ command = "register" => step \in Writes \cup Clears
      /\ command = "unregister" => step \in Deletes
      /\ step \in Writes => registry' = With(registry, step[2])
      /\ step \in Clears => registry' = With(Without(Tree(step[2])), step[2])
      /\ step \in Deletes => registry' = Without(Removes(step))
  BY ChangeIs
<1> HIDE DEF step
<1>2. /\ server' = server /\ command' = command /\ writers' = writers
      /\ result = "running" /\ server \in writers
  BY <1>1 DEF Change, JobInv
<1>3. I \in Entries /\ I \in ClsidTree /\ I \notin {"CLSID", "AppID"}
  BY DEF Entries, ClsidTree, SubKeys
<1>4. /\ \A f \in Entries : registry'[f] \in {None, server, registry[f]}
      /\ registry'[I] \in {None, registry[I]} \/ (command = "register" /\ step[2] = I)
      /\ step = <<"ForceRemove", "CLSID">> => registry'[I] = None
  <2>1. CASE step \in Writes
    <3>1. step[2] \in Entries /\ step[1] = "Set" /\ command = "register"
      BY <1>1, <2>1 DEF Writes, Deletes
    <3>2. \A f \in Entries : \/ registry'[f] = registry[f]
                             \/ registry'[f] = server /\ (f = step[2] \/ f = "CLSID")
      BY <1>1, <2>1, <3>1, WritesIs
    <3>3. step # <<"ForceRemove", "CLSID">>
      BY <3>1
    <3> QED
      BY <1>3, <3>1, <3>2, <3>3
  <2>2. CASE step \in Clears
    <3>1. step[2] \in {"AppID", "CLSID"}
      BY <2>2 DEF Clears
    <3>2. \A f \in Entries : registry'[f] \in {None, server, registry[f]}
      BY <1>1, <2>2, <3>1, ClearsIs
    <3>3. registry'[I] \in {None, registry[I]}
      BY <1>1, <1>3, <2>2, <3>1, ClearsIs
    <3>4. step = <<"ForceRemove", "CLSID">> => registry'[I] = None
      <4>1. step = <<"ForceRemove", "CLSID">> => step[2] = "CLSID" /\ I \in Tree(step[2])
        BY <1>3 DEF Tree
      <4> QED
        BY <1>1, <1>3, <2>2, <3>1, <4>1, ClearsIs
    <3> QED
      BY <3>2, <3>3, <3>4
  <2>3. CASE step \in Deletes
    <3>1. step # <<"ForceRemove", "CLSID">>
      BY <2>3 DEF Deletes
    <3> QED
      BY <1>1, <1>3, <2>3, <3>1 DEF Without
  <2> QED
    BY <1>1, <2>1, <2>2, <2>3
<1>5. \A f \in Entries : Present(f)' => registry'[f] \in writers'
  BY <1>2, <1>4 DEF ModuleInv, Present
<1>6. command = "register" /\ step[2] = I => server \in DllServers
  BY <1>1 DEF ModuleInv, step
<1>7. Present(I)' => registry'[I] \in DllServers
  BY <1>3, <1>4, <1>6 DEF ModuleInv, Present
<1>8. ASSUME command = "register"
      PROVE  \A k \in 1 .. Len(todo') : todo'[k][2] = I => server \in DllServers
  BY <1>1, <1>8 DEF ModuleInv
<1>9. ASSUME command = "register", server = "AtlExe", Present(I)'
      PROVE  \E k \in 1 .. Len(todo') : todo'[k] = <<"ForceRemove", "CLSID">>
  <2>1. Present(I)
    BY <1>4, <1>6, <1>9 DEF Present, DllServers
  <2>2. PICK k \in 1 .. Len(todo) : todo[k] = <<"ForceRemove", "CLSID">>
    BY <1>2, <1>9, <2>1 DEF ModuleInv
  <2>3. k # 1
    BY <1>4, <1>9, <2>2 DEF step, Present
  <2>4. k - 1 \in 1 .. Len(todo') /\ k - 1 + 1 = k
    BY <1>1, <2>3
  <2> QED
    BY <1>1, <2>2, <2>4
<1> QED
  BY <1>2, <1>5, <1>7, <1>8, <1>9 DEF ModuleInv

(* What a lone server leaves to be deleted.                                *)
LEMMA ChangeLone ==
  ASSUME TypeOK, JobInv, LoneInv, Lone, Change
  PROVE  OwnInv' /\ UnregisterInv' /\ AppIDInv'
<1> DEFINE step == todo[1]
           e == step[2]
<1>1. /\ todo # <<>> /\ server \in Servers /\ 1 \in 1 .. Len(todo)
      /\ Len(todo') = Len(todo) - 1 /\ Len(todo) \in Nat
      /\ \A k \in 1 .. Len(todo') : k + 1 \in 1 .. Len(todo) /\ todo'[k] = todo[k + 1]
      /\ result' \in {"running", "done"} /\ (result' = "running" <=> todo' # <<>>)
  BY ChangeIs
<1>2. /\ command \in {"register", "unregister"}
      /\ command = "register" => step \in Writes \cup Clears
      /\ command = "unregister" => step \in Deletes
      /\ step \in Writes => registry' = With(registry, e)
      /\ step \in Clears => registry' = With(Without(Tree(e)), e)
      /\ step \in Deletes => registry' = Without(Removes(step))
  BY ChangeIs
<1> HIDE DEF step
<1>3. /\ server' = server /\ command' = command /\ OwnInv /\ UnregisterInv /\ AppIDInv
      /\ result = "running"
  BY DEF LoneInv, Change
<1>4. \A k \in 1 .. Len(todo) : k = 1 \/ (k - 1 \in 1 .. Len(todo') /\ k - 1 + 1 = k)
  BY <1>1
<1>5. CASE command = "register"
  <2>1. step \in Writes \cup Clears /\ e \in Own(server) /\ "CLSID" \in Own(server)
        /\ e \in Entries
    BY <1>1, <1>2, <1>3, <1>5 DEF OwnInv, step, Own, Entries, ClsidTree, SubKeys, Writes,
       Clears
  <2>2. \A f \in Entries : registry'[f] # None =>
          Present(f) \/ f = e \/ (f = "CLSID" /\ e \in ClsidTree)
    <3>1. CASE step \in Writes
      BY <1>1, <1>2, <2>1, <3>1, WritesIs
    <3>2. CASE step \in Clears
      <4>1. e \in {"AppID", "CLSID"}
        BY <3>2 DEF Clears
      <4> QED
        BY <1>1, <1>2, <3>2, <4>1, ClearsIs
    <3> QED
      BY <2>1, <3>1, <3>2
  <2>3. OwnInv'
    <3>1. \A f \in Entries : registry'[f] # None => f \in Own(server)
      BY <1>3, <2>1, <2>2 DEF OwnInv
    <3>2. \A k \in 1 .. Len(todo') : todo'[k][2] \in Own(server)
      BY <1>1, <1>3, <1>5 DEF OwnInv
    <3> QED
      BY <1>3, <3>1, <3>2 DEF OwnInv, Present
  <2>4. ASSUME server = "Cs"
        PROVE  \/ (registry'["CLSID"] # None => registry'["CLSID.AppID"] # None)
                    /\ OutsideClsid(todo', 1)
               \/ WillSetAppID(todo')
    <3>1. /\ OutsideClsid(todo, 1) => OutsideClsid(todo', 1)
          /\ WillSetAppID(todo) =>
               \/ WillSetAppID(todo')
               \/ step = <<"Set", "CLSID.AppID">> /\ OutsideClsid(todo', 1)
      BY <1>1, RestWrites DEF step
    <3>2. "CLSID" \in Entries /\ "CLSID.AppID" \in Entries /\ "CLSID" \in ClsidTree
      BY DEF Entries, ClsidTree
    <3>3. CASE AppIDThere /\ OutsideClsid(todo, 1)
      <4>1. e \notin ClsidTree
        BY <1>1, <3>3 DEF OutsideClsid, step
      <4>2. registry'["CLSID"] # None => Present("CLSID")
        BY <2>2, <3>2, <4>1
      <4>3. Present("CLSID.AppID") => registry'["CLSID.AppID"] # None
        <5>1. CASE step \in Writes
          BY <1>1, <1>2, <2>1, <3>2, <5>1, WritesIs
        <5>2. CASE step \in Clears
          <6>1. e = "AppID" /\ "CLSID.AppID" \notin Tree(e)
            BY <3>2, <4>1, <5>2 DEF Clears, Tree
          <6>2. registry'["CLSID.AppID"] = registry["CLSID.AppID"]
            BY <1>1, <1>2, <3>2, <5>2, <6>1, ClearsIs
          <6> QED
            BY <6>2 DEF Present
        <5> QED
          BY <2>1, <5>1, <5>2
      <4> QED
        BY <3>1, <3>3, <4>2, <4>3 DEF AppIDThere
    <3>4. CASE WillSetAppID(todo)
      <4>1. CASE step = <<"Set", "CLSID.AppID">> /\ OutsideClsid(todo', 1)
        <5>1. step \in Writes /\ e = "CLSID.AppID"
          BY <3>2, <4>1 DEF Writes
        <5>2. registry'["CLSID.AppID"] = server /\ server # None
          BY <1>1, <1>2, <3>2, <5>1, WritesIs, RegistrationAssumption
        <5> QED
          BY <4>1, <5>2
      <4> QED
        BY <3>1, <3>4, <4>1
    <3> QED
      BY <1>3, <1>5, <2>4, <3>3, <3>4 DEF AppIDInv
  <2>5. AppIDInv'
    BY <1>3, <2>4 DEF AppIDInv, AppIDThere, Present, OutsideClsid, WillSetAppID
  <2> QED
    BY <1>3, <1>5, <2>3, <2>5 DEF UnregisterInv
<1>6. CASE command = "unregister"
  <2>1. /\ step \in Deletes /\ RemovesAll(todo) /\ SubKeysFirst(todo) /\ ValueFirst(todo)
        /\ \A f \in Entries : registry'[f] # None => Present(f) /\ f \notin Removes(step)
    BY <1>2, <1>3, <1>6 DEF UnregisterInv, Without, Present
  <2>2. OwnInv'
    BY <1>3, <1>6, <2>1 DEF OwnInv, Present
  <2>3. RemovesAll(todo)'
    <3>1. ASSUME NEW f \in Entries, registry'[f] # None
          PROVE  \E k \in 1 .. Len(todo') : f \in Removes(todo'[k])
      <4>1. PICK k \in 1 .. Len(todo) : f \in Removes(todo[k])
        BY <2>1, <3>1 DEF RemovesAll
      <4>2. k # 1
        BY <2>1, <3>1, <4>1 DEF step
      <4>3. k - 1 \in 1 .. Len(todo') /\ todo'[k - 1] = todo[k]
        BY <1>1, <1>4, <4>1, <4>2
      <4> QED
        BY <4>1, <4>3
    <3> QED
      BY <3>1 DEF RemovesAll, Present
  <2>4. SubKeysFirst(todo)'
    <3>1. ASSUME NEW j \in 1 .. Len(todo'), todo'[j] = <<"DeleteSubKey", "CLSID">>,
                 NEW f \in SubKeys, registry'[f] # None
          PROVE  \E k \in 1 .. j - 1 : todo'[k] = <<"DeleteSubKey", f>>
      <4>1. f \in Entries /\ j + 1 \in 1 .. Len(todo)
            /\ todo[j + 1] = <<"DeleteSubKey", "CLSID">>
        BY <1>1, <3>1 DEF Entries, ClsidTree
      <4>2. Present(f) /\ f \notin Removes(step)
        BY <2>1, <3>1, <4>1
      <4> DEFINE i == j + 1
      <4>3. PICK k \in 1 .. i - 1 : todo[k] = <<"DeleteSubKey", f>>
        <5>1. i \in 1 .. Len(todo) /\ todo[i] = <<"DeleteSubKey", "CLSID">>
          BY <4>1
        <5> HIDE DEF i
        <5> QED
          BY <2>1, <3>1, <4>2, <5>1 DEF SubKeysFirst
      <4>4. k # 1
        <5>1. f # "CLSID"
          BY <3>1 DEF SubKeys
        <5> QED
          BY <4>2, <4>3, <5>1 DEF Removes, step
      <4>5. k - 1 \in 1 .. j - 1 /\ k - 1 \in 1 .. Len(todo') /\ k - 1 + 1 = k
        BY <1>1, <3>1, <4>3, <4>4
      <4>6. todo'[k - 1] = todo[k]
        BY <1>1, <4>5
      <4> QED
        BY <4>3, <4>5, <4>6
    <3> QED
      BY <3>1 DEF SubKeysFirst, Present
  <2>5. ValueFirst(todo)'
    <3>1. ASSUME NEW j \in 1 .. Len(todo'), todo'[j] = <<"DeleteValue", "CLSID.AppID">>
          PROVE  FALSE
      <4>1. j + 1 \in 1 .. Len(todo) /\ todo[j + 1] = <<"DeleteValue", "CLSID.AppID">>
            /\ j + 1 # 1
        BY <1>1, <3>1
      <4> QED
        BY <2>1, <4>1 DEF ValueFirst
    <3> QED
      BY <3>1 DEF ValueFirst
  <2>6. AppIDInv'
    <3>1. CASE todo' # <<>>
      BY <1>1, <1>3, <1>6, <3>1 DEF AppIDInv
    <3>2. CASE todo' = <<>>
      <4>1. \A k \in 1 .. Len(todo') : FALSE
        BY <3>2
      <4>2. "CLSID" \in Entries /\ registry'["CLSID"] = None
        BY <2>3, <4>1 DEF RemovesAll, Present, Entries, ClsidTree
      <4> QED
        BY <4>1, <4>2 DEF AppIDInv, AppIDThere, OutsideClsid, Present
    <3> QED
      BY <3>1, <3>2
  <2> QED
    BY <1>3, <2>2, <2>3, <2>4, <2>5, <2>6 DEF UnregisterInv
<1> QED
  BY <1>2, <1>5, <1>6

LEMMA ChangeInv ==
  ASSUME IndInv, Change
  PROVE  IndInv'
<1>1. TypeOK /\ JobInv /\ RegisterInv /\ ModuleInv /\ LoneInv
  BY DEF IndInv
<1>2. /\ server' = server /\ command' = command /\ writers' = writers
      /\ cutShort' = cutShort /\ result = "running" /\ todo' = Tail(todo)
      /\ command \in {"register", "unregister"}
      /\ result' \in {"running", "done"}
  BY <1>1, ChangeIs DEF Change
<1>3. TypeOK' /\ RegisterInv' /\ ModuleInv'
  BY <1>1, ChangeTypes, ChangeRegisters, ChangeModule
<1>4. JobInv'
  <2>1. \A S : todo \in Seq(S) => Tail(todo) \in Seq(S)
    BY <1>1, <1>2, HeadTail DEF TypeOK
  <2> QED
    BY <1>1, <1>2, <2>1 DEF JobInv
<1>5. BatInv'
  BY <1>2 DEF BatInv
<1>6. LoneInv'
  <2>1. writers # {}
    BY <1>1, <1>2 DEF JobInv
  <2>2. ASSUME Lone'
        PROVE  OwnInv' /\ UnregisterInv' /\ AppIDInv'
    BY <1>1, <1>2, <2>2, ChangeLone DEF Lone
  <2> QED
    BY <1>2, <2>1, <2>2 DEF LoneInv
<1> QED
  BY <1>3, <1>4, <1>5, <1>6 DEF IndInv

(* Neither a registration throws nor a server that is alone.               *)
LEMMA ThrowInv ==
  ASSUME IndInv, Throw
  PROVE  IndInv'
<1>1. /\ TypeOK /\ JobInv /\ RegisterInv /\ LoneInv /\ result = "running" /\ todo # <<>>
      /\ result' = "thrown" /\ todo' = <<>> /\ registry' = registry /\ server' = server
      /\ command' = command /\ runs' = runs /\ writers' = writers
      /\ cutShort' = cutShort
  BY DEF IndInv, Throw, TypeOK
<1>2. /\ 1 \in 1 .. Len(todo) /\ Throws(todo[1][1], todo[1][2])
      /\ command = "register" => todo[1] \in Writes \cup Clears
      /\ command = "unregister" => todo[1] \in Deletes
      /\ writers # {} /\ command \in {"register", "unregister"}
  <2>1. /\ 1 \in 1 .. Len(todo) /\ Head(todo) = todo[1]
        /\ \A S : todo \in Seq(S) => todo[1] \in S
    BY <1>1, HeadTail DEF JobInv
  <2> QED
    BY <1>1, <2>1 DEF JobInv, Throw
<1>3. command = "unregister"
  BY <1>2 DEF Throws, Writes, Clears
<1>4. ~Lone
  <2>1. SUFFICES ASSUME Lone PROVE FALSE
    OBVIOUS
  <2>2. SubKeysFirst(todo) /\ ValueFirst(todo)
    BY <1>1, <1>3, <2>1 DEF LoneInv, UnregisterInv
  <2>3. CASE todo[1] = <<"DeleteValue", "CLSID.AppID">>
    BY <1>2, <2>2, <2>3 DEF ValueFirst, AppIDThere, Throws
  <2>4. CASE todo[1] = <<"DeleteSubKey", "CLSID">>
    <3>1. \A k \in 1 .. 1 - 1 : FALSE
      OBVIOUS
    <3>2. \A e \in SubKeys : ~Present(e)
      BY <1>2, <2>2, <2>4, <3>1 DEF SubKeysFirst
    <3> QED
      BY <2>4, <1>2, <3>2 DEF Throws
  <2> QED
    BY <1>2, <1>3, <2>3, <2>4 DEF Throws, Deletes
<1>5. TypeOK' /\ JobInv' /\ BatInv' /\ RegisterInv' /\ ModuleInv'
  BY <1>1, <1>2, <1>3 DEF IndInv, TypeOK, JobInv, BatInv, RegisterInv, ModuleInv, Present
<1>6. LoneInv'
  BY <1>1, <1>2, <1>4 DEF LoneInv, Lone
<1> QED
  BY <1>5, <1>6 DEF IndInv

LEMMA CutShortInv ==
  ASSUME IndInv, CutShort
  PROVE  IndInv'
<1>1. /\ TypeOK /\ JobInv /\ ModuleInv /\ LoneInv /\ result = "running"
      /\ result' = "cut" /\ todo' = <<>>
      /\ cutShort' = TRUE /\ registry' = registry /\ server' = server
      /\ command' = command /\ runs' = runs /\ writers' = writers
  BY DEF IndInv, CutShort
<1>2. TypeOK' /\ JobInv'
  BY <1>1 DEF TypeOK, JobInv, Present
<1>3. ModuleInv'
  <2>1. \A k \in 1 .. Len(todo') : FALSE
    BY <1>1
  <2> QED
    BY <1>1, <2>1 DEF ModuleInv, Present
<1>4. LoneInv'
  BY <1>1 DEF LoneInv, Lone, Empty, Present
<1> QED
  BY <1>1, <1>2, <1>3, <1>4 DEF IndInv, BatInv, RegisterInv

(* The script has a deletion for every entry that there can be.            *)
LEMMA UnregisterBatInv ==
  ASSUME IndInv, UnregisterBat
  PROVE  IndInv'
<1>1. /\ TypeOK /\ JobInv /\ ModuleInv /\ LoneInv /\ result # "running"
      /\ runs < MaxRuns /\ registry' = registry /\ writers' = writers
      /\ server' = None /\ command' = "bat" /\ result' = "running" /\ runs' = runs + 1
      /\ cutShort' = FALSE /\ todo' = UnregisterBatSteps
  BY DEF IndInv, UnregisterBat
<1>2. /\ Len(todo') = 3 /\ todo' \in Seq(BatDeletes) /\ todo' # <<>>
      /\ todo'[1] = <<"Delete", "TypeLibrary">> /\ todo'[2] = <<"DeleteTree", "CLSID">>
      /\ todo'[3] = <<"DeleteTree", "AppID">>
  BY <1>1 DEF UnregisterBatSteps, BatDeletes
<1>3. RemovesAll(todo)'
  <2>1. 1 \in 1 .. 3 /\ 2 \in 1 .. 3 /\ 3 \in 1 .. 3
    OBVIOUS
  <2>2. /\ Removes(todo'[1]) = {"TypeLibrary"} /\ Removes(todo'[2]) = ClsidTree
        /\ Removes(todo'[3]) = {"AppID"}
    BY <1>2 DEF Removes, Tree
  <2>3. \A e \in Entries : \E k \in 1 .. Len(todo') : e \in Removes(todo'[k])
    BY <1>2, <2>1, <2>2 DEF Entries
  <2> QED
    BY <2>3 DEF RemovesAll
<1>4. TypeOK'
  <2>1. runs + 1 \in 0 .. MaxRuns
    BY <1>1, RegistrationAssumption DEF TypeOK
  <2> QED
    BY <1>1, <1>2, <2>1 DEF TypeOK, Present
<1>5. todo' \in Seq(Writes \cup Clears \cup Deletes)
  <2>1. BatDeletes \subseteq Writes \cup Clears \cup Deletes
    BY DEF BatDeletes, Deletes
  <2> QED
    BY <1>2, <2>1
<1>6. ModuleInv'
  BY <1>1 DEF ModuleInv, Present
<1>7. LoneInv'
  BY <1>1, RegistrationAssumption DEF LoneInv, Lone, Empty, Present, TypeOK
<1> QED
  BY <1>1, <1>2, <1>3, <1>4, <1>5, <1>6, <1>7 DEF IndInv, JobInv, BatInv, RegisterInv

LEMMA RegDeleteInv ==
  ASSUME IndInv, RegDelete
  PROVE  IndInv'
<1> DEFINE step == todo[1]
<1>1. /\ TypeOK /\ JobInv /\ BatInv /\ ModuleInv /\ LoneInv
      /\ result = "running" /\ command = "bat" /\ todo # <<>> /\ todo \in Seq(BatDeletes)
      /\ todo' = Tail(todo) /\ result' = IF todo' = <<>> THEN "done" ELSE "running"
      /\ server = None /\ UNCHANGED <<server, command, runs>>
  BY DEF IndInv, TypeOK, JobInv, RegDelete
<1>2. /\ Len(todo) \in Nat \ {0} /\ 1 \in 1 .. Len(todo) /\ Head(todo) = step
      /\ step \in BatDeletes /\ todo' \in Seq(BatDeletes)
      /\ todo' \in Seq(Writes \cup Clears \cup Deletes)
      /\ Len(todo') = Len(todo) - 1
      /\ \A k \in 1 .. Len(todo') : k + 1 \in 1 .. Len(todo) /\ todo'[k] = todo[k + 1]
  BY <1>1, HeadTail DEF JobInv
<1> HIDE DEF step
<1>3. step \in Deletes /\ Changed(step[1], step[2]) = Without(Removes(step))
  <2>1. BatDeletes \subseteq Deletes
    BY DEF BatDeletes, Deletes
  <2> QED
    BY <1>2, <2>1, DeletesIs
<1>4. /\ \/ registry' = Without(Removes(step)) /\ cutShort' = cutShort
         \/ registry' = registry /\ cutShort' = TRUE
      /\ writers' = IF todo' = <<>> /\ ~cutShort' THEN {} ELSE writers
  BY <1>1, <1>2, <1>3 DEF RegDelete
<1>5. /\ registry' \in [Entries -> Servers \cup {None}]
      /\ \A f \in Entries : registry'[f] \in {None, registry[f]}
  BY <1>1, <1>4 DEF Without, TypeOK
<1>6. ASSUME registry' = Without(Removes(step)), RemovesAll(todo)
      PROVE  RemovesAll(todo)'
  <2>1. ASSUME NEW f \in Entries, registry'[f] # None
        PROVE  \E k \in 1 .. Len(todo') : f \in Removes(todo'[k])
    <3>1. Present(f) /\ f \notin Removes(step)
      BY <1>6, <2>1 DEF Without, Present
    <3>2. PICK k \in 1 .. Len(todo) : f \in Removes(todo[k])
      BY <1>6, <2>1, <3>1 DEF RemovesAll
    <3>3. k # 1
      BY <3>1, <3>2 DEF step
    <3>4. k - 1 \in 1 .. Len(todo') /\ k - 1 + 1 = k
      BY <1>2, <3>2, <3>3
    <3> QED
      BY <1>2, <3>2, <3>4
  <2> QED
    BY <2>1 DEF RemovesAll, Present
<1>7. BatInv'
  BY <1>1, <1>4, <1>6 DEF BatInv
<1>8. todo' = <<>> /\ ~cutShort' => Empty'
  <2>1. todo' = <<>> => \A k \in 1 .. Len(todo') : FALSE
    OBVIOUS
  <2> QED
    BY <1>1, <1>7, <2>1 DEF BatInv, RemovesAll, Empty
<1>9. TypeOK'
  <2>1. (\E f \in ClsidTree : registry'[f] # None) => registry'["CLSID"] # None
    <3>1. "CLSID" \in Removes(step) => ClsidTree \subseteq Removes(step)
      BY <1>2 DEF BatDeletes, Removes, Tree
    <3>2. ClsidTree \subseteq Entries /\ "CLSID" \in ClsidTree
      BY DEF Entries, ClsidTree
    <3> QED
      BY <1>1, <1>4, <3>1, <3>2 DEF TypeOK, Present, Without
  <2> QED
    BY <1>1, <1>4, <1>5, <2>1 DEF TypeOK, Present
<1>10. JobInv' /\ RegisterInv'
  BY <1>1, <1>2 DEF JobInv, RegisterInv
<1>11. ModuleInv'
  <2>1. writers' = writers \/ Empty'
    BY <1>4, <1>8
  <2>2. "InprocServer32" \in Entries
    BY DEF Entries, ClsidTree, SubKeys
  <2> QED
    BY <1>1, <1>5, <2>1, <2>2 DEF ModuleInv, Present, Empty
<1>12. LoneInv'
  <2>1. ~Lone'
    BY <1>1, <1>9, RegistrationAssumption DEF Lone, TypeOK
  <2>2. writers' = {} => Empty'
    BY <1>1, <1>4, <1>5, <1>8 DEF LoneInv, Empty, Present
  <2> QED
    BY <2>1, <2>2 DEF LoneInv
<1> QED
  BY <1>7, <1>9, <1>10, <1>11, <1>12 DEF IndInv

LEMMA NextInv == IndInv /\ [Next]_vars => IndInv'
<1> SUFFICES ASSUME IndInv, [Next]_vars PROVE IndInv'
  OBVIOUS
<1>1. ASSUME NEW s \in Servers, Register(s) \/ Unregister(s) PROVE IndInv'
  BY <1>1, StartInv
<1>2. CASE Change
  BY <1>2, ChangeInv
<1>3. CASE Throw
  BY <1>3, ThrowInv
<1>4. CASE CutShort
  BY <1>4, CutShortInv
<1>5. CASE UnregisterBat
  BY <1>5, UnregisterBatInv
<1>6. CASE UNCHANGED vars
  <2> USE DEF vars, jobVars
  <2>2. TypeOK' /\ JobInv' /\ BatInv' /\ ModuleInv'
    BY <1>6 DEF IndInv, TypeOK, JobInv, BatInv, ModuleInv, RemovesAll, Present
  <2>3. RegisterInv'
    BY <1>6 DEF IndInv, RegisterInv, OnlyWrites, WillSet
  <2>4. LoneInv'
    BY <1>6 DEF IndInv, LoneInv, Lone, OwnInv, UnregisterInv, AppIDInv, RemovesAll,
       SubKeysFirst, ValueFirst, AppIDThere, WillSetAppID, OutsideClsid, Empty, Present
  <2> QED
    BY <2>2, <2>3, <2>4 DEF IndInv
<1>7. CASE RegDelete
  BY <1>7, RegDeleteInv
<1> QED
  BY <1>1, <1>2, <1>3, <1>4, <1>5, <1>6, <1>7 DEF Next, Terminating

-----------------------------------------------------------------------------
(* The theorems.                                                           *)

(* The invariant holds in every state of every behaviour.                  *)
THEOREM Inductive == Spec => []IndInv
<1>1. Init => IndInv
  BY InitInv
<1>2. IndInv /\ [Next]_vars => IndInv'
  BY NextInv
<1> QED
  BY <1>1, <1>2, PTL DEF Spec

(* The registry is well formed: whatever the commands delete, no key is    *)
(* ever without its parent key.                                            *)
THEOREM TypeCorrect == Spec => []TypeOK
<1>1. IndInv => TypeOK
  BY DEF IndInv
<1> QED
  BY <1>1, Inductive, PTL

(* A registration that ran to its end makes its server the one that a      *)
(* client activates who leaves the choice to COM, whatever any mixture of  *)
(* the others, aborted commands and a script whose deletions fail left in  *)
(* the registry; only for the two servers that do not remove the class     *)
(* first, a DLL server that is still registered goes before them.          *)
THEOREM Found == Spec => []RegisteredIsFound
<1>1. IndInv => RegisteredIsFound
  <2> SUFFICES ASSUME IndInv, command = "register", result \in {"done", "thrown"}
               PROVE  /\ result = "done"
                      /\ registry["TypeLib"] = server /\ registry["TypeLibrary"] = server
                      /\ \/ Activated = server
                         \/ /\ server \in {"Cs", "WinRtExe"}
                            /\ Activated \in writers \cap DllServers
    BY DEF RegisteredIsFound
  <2>1. /\ todo = <<>> /\ result = "done"
        /\ \A e \in Needed(server) : registry[e] = server \/ WillSet(todo, e)
    BY DEF IndInv, TypeOK, RegisterInv
  <2>2. \A k \in 1 .. Len(todo) : FALSE
    BY <2>1
  <2>3. \A e \in Needed(server) : registry[e] = server
    BY <2>1, <2>2 DEF WillSet
  <2>4. "InprocServer32" \in Entries
    BY DEF Entries, ClsidTree, SubKeys
  <2>5. CASE server \in DllServers
    <3>1. registry["InprocServer32"] = server /\ server # None
      BY <2>3, <2>5, RegistrationAssumption DEF Needed, ModuleKey, ExeServers, DllServers,
         IndInv, JobInv
    <3> QED
      BY <2>1, <2>3, <3>1 DEF Activated, Present, Needed
  <2>6. CASE server \notin DllServers
    <3>1. server \in ExeServers
      <4>1. server # None
        BY RegistrationAssumption DEF IndInv, JobInv
      <4> QED
        BY <2>6, <4>1, RegistrationAssumption DEF IndInv, TypeOK
    <3>2. ~Present("InprocServer32") => Activated = server
      BY <2>3, <3>1 DEF Activated, Needed, ModuleKey
    <3>3. Present("InprocServer32") =>
            Activated \in writers \cap DllServers /\ server # "AtlExe"
      BY <2>1, <2>2, <2>4 DEF IndInv, ModuleInv, Activated
    <3> QED
      BY <2>1, <2>3, <3>1, <3>2, <3>3 DEF Needed, ExeServers
  <2> QED
    BY <2>5, <2>6
<1> QED
  BY <1>1, Inductive, PTL

(* The /unregserver of a server that is alone on the machine never throws  *)
(* and leaves nothing, whatever the server ran before to the end.          *)
THEOREM LoneCleans == Spec => []LoneServerCleansUp
<1>1. IndInv => LoneServerCleansUp
  <2> SUFFICES ASSUME IndInv, command = "unregister", result \in {"done", "thrown"}, Lone
               PROVE  result = "done" /\ Empty
    BY DEF LoneServerCleansUp, Lone
  <2>1. todo = <<>> /\ result # "thrown" /\ RemovesAll(todo)
    BY DEF IndInv, TypeOK, LoneInv, UnregisterInv
  <2>2. \A k \in 1 .. Len(todo) : FALSE
    BY <2>1
  <2> QED
    BY <2>1, <2>2 DEF RemovesAll, Empty
<1> QED
  BY <1>1, Inductive, PTL

=============================================================================
