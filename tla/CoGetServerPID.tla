--------------------------- MODULE CoGetServerPID ---------------------------
(***************************************************************************)
(* Which process serves an interface pointer: support/CoGetServerPID.hpp   *)
(* marshals the proxy and reads the process ID (PID) from the bytes; if it *)
(* was too large for its 16 bits, support/PIDFromOXID.hpp asks the OXID    *)
(* resolver for the server's TCP port and looks it up in the TCP table.    *)
(* Each Windows call may fail.  Meanwhile processes open and close         *)
(* sockets, and the server may end.                                        *)
(*                                                                         *)
(* A `short` has two bytes of Byte values each.                            *)
(***************************************************************************)
EXTENDS Integers, FiniteSets, SequencesExt

CONSTANTS
  Byte,       \* the number of values of a byte: 256
  Pids,       \* the PIDs the server may have
  OtherPid,   \* the PID of all other processes
  MaxSockets  \* bound: sockets of other processes at a time

Short == 0 .. Byte * Byte - 1
Clamped == Byte * Byte - 1       \* 0xFFFF
Ports == Short \ {0}

ASSUME PidAssumption ==
  Byte \in Nat \ {0, 1} /\ Pids \subseteq Nat /\ OtherPid \in Nat \ Pids
  /\ MaxSockets \in Nat

VARIABLES
  obj,       \* what the caller has: "null", "local" (no proxy) or "proxy"
  family,    \* which of the two lookups the caller uses
  Server,    \* the server's PID
  alive,     \* the server runs
  endpoint,  \* the port it listens on, 0 if none
  sockets,   \* sockets of other processes
  pc, hr,    \* where the caller is, and the last result
  header,    \* the marshalled bytes
  objref,    \* ipid.pid of the object reference that was read
  bindings,  \* COMServerStringBindings
  port, size,\* the port found; the size of the table when it was asked for
  table,     \* what GetTcpTable2 returned
  pid,       \* the answer
  held       \* what was acquired and is not freed by a destructor

envVars  == <<obj, family, Server, alive, endpoint, sockets>>
dataVars == <<header, objref, bindings, port, size, table, pid>>
vars     == <<envVars, pc, hr, dataVars, held>>

NoPid == -1

Init ==
  /\ obj \in {"null", "local", "proxy"} /\ family \in {"IPv4", "IPv6"}
  /\ Server \in Pids /\ alive = TRUE /\ endpoint = 0 /\ sockets = {}
  /\ pc = "QueryInterface" /\ hr = "S_OK"
  /\ header = "none" /\ objref = NoPid /\ bindings = <<>>
  /\ port = 0 /\ size = 0 /\ table = {} /\ pid = NoPid /\ held = {}

Goto(from, to) == pc = from /\ pc' = to /\ hr' = "S_OK" /\ UNCHANGED envVars
Fail(from, to, error) == pc = from /\ pc' = to /\ hr' = error /\ UNCHANGED envVars

-----------------------------------------------------------------------------
(* GetServerSTDOBJREF.                                                     *)

QueryInterface ==
  /\ \/ obj = "null"  /\ Fail("QueryInterface", "Done", "E_INVALIDARG")
     \/ obj = "local" /\ Fail("QueryInterface", "Done", "E_NOINTERFACE")
     \/ obj = "proxy" /\ Goto("QueryInterface", "CreateStream")
  /\ UNCHANGED <<dataVars, held>>

CreateStream ==
  /\ \/ Goto("CreateStream", "Marshal")
     \/ Fail("CreateStream", "Done", "error")
  /\ UNCHANGED <<dataVars, held>>

(* The stream then holds a reference to the object.                        *)
Marshal ==
  /\ \/ /\ Goto("Marshal", "Map")
        /\ header' \in {"standard", "other", "short"}
        /\ held' = held \cup {"marshal data"}
     \/ /\ Fail("Marshal", "Done", "error")
        /\ UNCHANGED <<header, held>>
  /\ UNCHANGED <<objref, bindings, port, size, table, pid>>

(* The PID field of an IPID is a short, "clamped on overflow".              *)
ClampedPidMutant(p) == p
ClampedPid(p) == IF p < Clamped THEN p ELSE Clamped

(* Memory that is too short for a header stays locked.                     *)
Map ==
  /\ \/ /\ Goto("Map", "ReleaseMarshalData") /\ header = "standard"
        /\ objref' = ClampedPid(Server)
        /\ UNCHANGED held
     \/ /\ Fail("Map", "ReleaseMarshalData", "RPC_E_INVALID_OBJREF")
        /\ held' = IF header = "short" THEN held \cup {"lock"} ELSE held
        /\ UNCHANGED objref
     \/ /\ Fail("Map", "ReleaseMarshalData", "error")
        /\ UNCHANGED <<objref, held>>
  /\ UNCHANGED <<header, bindings, port, size, table, pid>>

(* Rewinding the stream and giving the reference back may fail, which      *)
(* nobody checks: it is then left to COM's own clean-up.                   *)
ReleaseMarshalDataMutant ==
  /\ pc = "ReleaseMarshalData"
  /\ pc' = IF hr = "S_OK" THEN "UseObjref" ELSE "Done"
  /\ held' = IF hr = "S_OK" THEN held \ {"marshal data"} ELSE held
  /\ UNCHANGED <<envVars, hr, dataVars>>
ReleaseMarshalData ==
  /\ pc = "ReleaseMarshalData"
  /\ pc' = IF hr = "S_OK" THEN "UseObjref" ELSE "Done"
  /\ held' \in {held \ {"marshal data"},
               (held \ {"marshal data"}) \cup {"left to COM"}}
  /\ UNCHANGED <<envVars, hr, dataVars>>

(* The caller takes the PID, or goes on with the OXID if it was clamped.   *)
IsPidValid(p) == p # Clamped
UseObjref ==
  /\ \/ Goto("UseObjref", "Done") /\ IsPidValid(objref) /\ pid' = objref
     \/ Goto("UseObjref", "Compose") /\ ~IsPidValid(objref) /\ UNCHANGED pid
  /\ UNCHANGED <<header, objref, bindings, port, size, table, held>>

-----------------------------------------------------------------------------
(* GetTcpPortFromOXID.  A failure returns without freeing anything.        *)

Call(from, to, free, acquired) ==
  /\ \/ Goto(from, to) /\ held' = (held \ free) \cup acquired
     \/ Fail(from, "Done", "E_FAIL") /\ UNCHANGED held
  /\ UNCHANGED dataVars

RpcStringBindingCompose == Call("Compose", "FromString", {}, {"string"})
RpcBindingFromStringBinding == Call("FromString", "SetAuthInfo", {"string"}, {"binding"})
RpcBindingSetAuthInfoEx == Call("SetAuthInfo", "ResolveOxid", {}, {})

(* String bindings are network addresses with the endpoint in brackets; a  *)
(* character is a port number, a bracket or text.                          *)
OpenBracket == Byte * Byte
CloseBracket == Byte * Byte + 1
Text == Byte * Byte + 2
Binding(p) == <<Text, OpenBracket, p, CloseBracket, Text>>

Free(p) == \A s \in sockets : s.port = p => s.kind # "any"

(* "This will cause the COM server to start listening on the returned TCP  *)
(* port."  A server without TCP has no binding.                            *)
ResolveOxid ==
  /\ \/ /\ pc = "ResolveOxid" /\ alive
        /\ pc' = "Parse" /\ hr' = "S_OK"
        /\ \/ \E p \in {q \in Ports : Free(q)} :
                endpoint' = p /\ bindings' \in {Binding(p), Binding(p) \o Binding(p)}
           \/ endpoint' = 0 /\ bindings' = <<Text>>
        /\ held' = (held \ {"binding"}) \cup {"bindings"}
        /\ UNCHANGED <<obj, family, Server, alive, sockets>>
     \/ /\ Fail("ResolveOxid", "Done", "E_FAIL")
        /\ UNCHANGED <<bindings, held>>
  /\ UNCHANGED <<header, objref, port, size, table, pid>>

(* Positions count from 0; npos is -1, up to a multiple of 2^64.           *)
npos == -1
Find(s, x, from) ==
  IF from = npos THEN npos
  ELSE SelectInSubSeq(s, from + 1, Len(s), LAMBDA y : y = x) - 1
SubStr(s, from, n) ==
  SubSeq(s, from + 1, IF n < 0 THEN Len(s) ELSE from + n)
Wtoi(s) == IF s # <<>> /\ s[1] \in Short THEN s[1] ELSE 0

LocalPort(s) ==
  LET idx1 == Find(s, OpenBracket, 0)
      idx2 == Find(s, CloseBracket, idx1)
  IN  Wtoi(SubStr(s, idx1 + 1, idx2 - idx1 - 1))

Parse ==
  /\ Goto("Parse", "QuerySize")
  /\ port' = LocalPort(bindings)
  /\ UNCHANGED <<header, objref, bindings, size, table, pid, held>>

-----------------------------------------------------------------------------
(* GetProcessIDFromLocalIPv4Port and GetProcessIDFromLocalIPv6Port.        *)

Row(process, kind, p) == [pid |-> process, kind |-> kind, port |-> p]
Rows == sockets \cup
  (IF alive /\ endpoint # 0 THEN {Row(Server, "any", endpoint)} ELSE {})

QuerySize ==
  /\ \/ Goto("QuerySize", "QueryTable") /\ size' = Cardinality(Rows)
     \/ Fail("QuerySize", "Done", "E_FAIL") /\ UNCHANGED size
  /\ UNCHANGED <<header, objref, bindings, port, table, pid, held>>

(* The buffer has the size that was asked for.                             *)
QueryTable ==
  /\ \/ /\ Goto("QueryTable", "Search") /\ Cardinality(Rows) <= size
        /\ table' = Rows
     \/ Fail("QueryTable", "Done", "E_FAIL") /\ UNCHANGED table
  /\ UNCHANGED <<header, objref, bindings, port, size, pid, held>>

(* A port is big-endian in the lower half of a 32-bit field whose upper    *)
(* half may be anything.  ntohs takes a short, of a longer argument the    *)
(* lower half.                                                             *)
LowerHalf(x) == x % (Byte * Byte)
ntohs(x) == (LowerHalf(x) % Byte) * Byte + LowerHalf(x) \div Byte
dwPort(p, upper) == upper * Byte * Byte + ntohs(p)
PortOfMutant(field) == LowerHalf(field)
PortOf(field) == ntohs(LowerHalf(field))

ListensMutant(row) == row.kind \in {"any", "specific"}
(* In the state LISTEN, for any local address, without a remote one.       *)
Listens(row) == row.kind = "any"

Search ==
  LET Matches(upper) ==
        {row \in table : Listens(row) /\ PortOf(dwPort(row.port, upper)) = port}
  IN /\ \E upper \in Short :
          \/ /\ Goto("Search", "Done")
             /\ pid' \in {row.pid : row \in Matches(upper)}
          \/ /\ Fail("Search", "Done", "E_FAIL")
             /\ Matches(upper) = {}
             /\ UNCHANGED pid
     /\ UNCHANGED <<header, objref, bindings, port, size, table, held>>

GetProcessIDFromLocalIPv4Port ==
  family = "IPv4" /\ (QuerySize \/ QueryTable \/ Search)
GetProcessIDFromLocalIPv6Port ==
  family = "IPv6" /\ (QuerySize \/ QueryTable \/ Search)

-----------------------------------------------------------------------------
(* The other processes.  Two do not listen on a port for any address.      *)

Kinds == {"any", "specific", "connected"}
OpenSocket ==
  /\ pc # "Done" /\ Cardinality(sockets) < MaxSockets
  /\ \E kind \in Kinds, p \in Ports :
       /\ kind = "any" => ~(alive /\ endpoint = p)
       /\ sockets' = sockets \cup {Row(OtherPid, kind, p)}
  /\ UNCHANGED <<obj, family, Server, alive, endpoint, pc, hr, dataVars, held>>

CloseSocket ==
  /\ pc # "Done"
  /\ \E s \in sockets : sockets' = sockets \ {s}
  /\ UNCHANGED <<obj, family, Server, alive, endpoint, pc, hr, dataVars, held>>

ServerEnds ==
  /\ pc # "Done" /\ alive
  /\ alive' = FALSE
  /\ UNCHANGED <<obj, family, Server, endpoint, sockets, pc, hr, dataVars, held>>

Terminating == pc = "Done" /\ UNCHANGED vars

Next ==
  \/ QueryInterface \/ CreateStream \/ Marshal \/ Map \/ ReleaseMarshalData
  \/ UseObjref
  \/ RpcStringBindingCompose \/ RpcBindingFromStringBinding
  \/ RpcBindingSetAuthInfoEx \/ ResolveOxid \/ Parse
  \/ GetProcessIDFromLocalIPv4Port \/ GetProcessIDFromLocalIPv6Port
  \/ OpenSocket \/ CloseSocket \/ ServerEnds \/ Terminating

Spec == Init /\ [][Next]_vars

-----------------------------------------------------------------------------
(* Properties.                                                             *)

(* Every variable holds a value of its type; the port fits its 16 bits.    *)
TypeOK ==
  /\ pc \in {"QueryInterface", "CreateStream", "Marshal", "Map", "ReleaseMarshalData",
             "UseObjref", "Compose", "FromString", "SetAuthInfo", "ResolveOxid",
             "Parse", "QuerySize", "QueryTable", "Search", "Done"}
  /\ hr \in {"S_OK", "E_INVALIDARG", "E_NOINTERFACE", "RPC_E_INVALID_OBJREF",
             "error", "E_FAIL"}
  /\ header \in {"none", "standard", "other", "short"}
  /\ objref \in Short \cup {NoPid}
  /\ {port, endpoint} \subseteq Short
  /\ table \subseteq [pid : Pids \cup {OtherPid}, kind : Kinds, port : Ports]
  /\ pid \in Pids \cup {OtherPid, NoPid}
  /\ held \subseteq {"marshal data", "left to COM", "lock", "string", "binding",
                     "bindings"}

(* The PID is the server's, unless the server had ended by the time the    *)
(* TCP table was read and another process had taken its port.              *)
PidIsTheServers ==
  pid # NoPid /\ pid # Server =>
    ~alive /\ \A row \in table : row.pid # Server

(* Once the table could be read, a server that is in it, or listens on the *)
(* port it was given and so must be in it, is found: whatever else is in   *)
(* it and in the unused half of its fields, and however many sockets were  *)
(* opened since its size was asked for.                                    *)
Listening == alive /\ endpoint # 0
ListedIsFound ==
  pc = "Done" /\ table # {} /\ (Listening \/ \E row \in table : row.pid = Server) =>
    hr = "S_OK" /\ pid = Server

(* On every way out of GetServerSTDOBJREF the reference that the           *)
(* marshalled bytes hold is given back, if COM takes it.  Of the rest      *)
(* never more than one thing stays allocated, and after a success at most  *)
(* the array of string bindings.                                           *)
Kept == held \ {"left to COM"}
ResourcesGivenBack ==
  /\ pc \notin {"Map", "ReleaseMarshalData"} => "marshal data" \notin held
  /\ pc = "Done" => /\ Cardinality(Kept) <= 1
                    /\ hr = "S_OK" => Kept \subseteq {"bindings"}
=============================================================================
