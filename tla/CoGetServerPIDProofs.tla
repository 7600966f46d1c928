------------------------- MODULE CoGetServerPIDProofs -------------------------
(***************************************************************************)
(* Proofs about CoGetServerPID for bytes of any number of values, any PIDs *)
(* and any number of sockets.  What makes the answer right is that a port  *)
(* that listens for any address has one owner at a time, and that the port *)
(* survives the string bindings and the byte order of the TCP table.       *)
(***************************************************************************)
EXTENDS CoGetServerPID, FiniteSetTheorems, SequenceTheorems, TLAPS

(* The server owns the port it was given, as long as it runs.              *)
OwnerInv ==
  /\ Server \in Pids /\ alive \in BOOLEAN
  /\ sockets \subseteq [pid : {OtherPid}, kind : Kinds, port : Ports]
  /\ alive /\ endpoint # 0 => Free(endpoint)

ObjrefInv ==
  pc = "UseObjref" \/ (pc = "ReleaseMarshalData" /\ hr = "S_OK") =>
    objref = ClampedPid(Server)

PortInv ==
  /\ pc = "Parse" =>
       \/ endpoint \in Ports /\ bindings \in {Binding(endpoint),
                                              Binding(endpoint) \o Binding(endpoint)}
       \/ endpoint = 0 /\ bindings = <<Text>>
  /\ pc \in {"QuerySize", "QueryTable", "Search"} => port = endpoint

(* The table is from one moment: a server that is in it shares its port    *)
(* with no other that listens, and a server that still runs is in it.      *)
TableInv ==
  /\ pc \notin {"Search", "Done"} => table = {}
  /\ \A row \in table : row.pid = Server =>
       /\ row = Row(Server, "any", endpoint) /\ endpoint # 0
       /\ \A r \in table : r.kind = "any" /\ r.port = endpoint => r.pid = Server
  /\ pc = "Search" /\ alive /\ endpoint # 0 => Row(Server, "any", endpoint) \in table

PidInv == pc # "Done" => pid = NoPid

(* What is held is due to where the caller is: each step of the resolution *)
(* frees one thing and acquires the next.                                  *)
HeldInv ==
  /\ pc \in {"QueryInterface", "CreateStream", "Marshal", "UseObjref", "Compose"} =>
       Kept = {}
  /\ pc = "Map" => Kept = {"marshal data"}
  /\ pc = "ReleaseMarshalData" =>
       Kept = {"marshal data"} \/ (Kept = {"marshal data", "lock"} /\ hr # "S_OK")
  /\ pc = "FromString" => Kept = {"string"}
  /\ pc \in {"SetAuthInfo", "ResolveOxid"} => Kept = {"binding"}
  /\ pc \in {"Parse", "QuerySize", "QueryTable", "Search"} => Kept = {"bindings"}
  /\ pc = "Done" =>
       \/ Kept = {} \/ Kept = {"bindings"}
       \/ hr # "S_OK" /\ Kept \in {{"lock"}, {"string"}, {"binding"}}

IndInv ==
  /\ TypeOK /\ OwnerInv /\ ObjrefInv /\ PortInv /\ TableInv /\ PidInv /\ HeldInv
  /\ PidIsTheServers /\ ListedIsFound

-----------------------------------------------------------------------------
(* The byte order.                                                         *)

LEMMA DivModIs ==
  ASSUME NEW b \in Nat, b > 0, NEW x \in Nat
  PROVE  \E q \in Nat, m \in 0 .. b - 1 : x = q * b + m
<1> DEFINE m == x % b
           q == x \div b
<1>1. m \in 0 .. b - 1 /\ q \in Int
  OBVIOUS
<1>2. q >= 0
  OBVIOUS
<1>3. m = x - q * b
  OBVIOUS
<1> HIDE DEF m, q
<1>4. q * b \in Int
  BY <1>1
<1>5. x = q * b + m
  BY <1>1, <1>3, <1>4
<1>6. q \in Nat
  BY <1>1, <1>2
<1> QED
  BY <1>1, <1>5, <1>6

LEMMA DivModUnique ==
  ASSUME NEW b \in Nat, b > 0, NEW q \in Nat, NEW r \in 0 .. b - 1
  PROVE  (q * b + r) % b = r /\ (q * b + r) \div b = q
OBVIOUS

(* A short is its own lower half.                                          *)
LEMMA LowerHalfIs == \A y \in Short : LowerHalf(y) = y
<1> SUFFICES ASSUME NEW y \in Short PROVE LowerHalf(y) = y
  OBVIOUS
<1> DEFINE b == Byte * Byte
<1>1. b \in Nat /\ b > 0 /\ y \in 0 .. b - 1
  BY PidAssumption DEF Short
<1> HIDE DEF b
<1>2. (0 * b + y) % b = y /\ 0 * b + y = y
  BY <1>1, DivModUnique
<1> QED
  BY <1>2 DEF LowerHalf, b

(* ntohs swaps the bytes of a short, so that twice is not at all.          *)
LEMMA NtohsIs ==
  ASSUME NEW x \in Short
  PROVE  ntohs(x) \in Short /\ ntohs(ntohs(x)) = x
<1>1. /\ Byte \in Nat /\ Byte > 0 /\ x \in Nat /\ x < Byte * Byte
      /\ \A y \in Short : LowerHalf(y) = y
  BY PidAssumption, LowerHalfIs DEF Short
<1>2. PICK high \in Nat, low \in 0 .. Byte - 1 : x = high * Byte + low
  BY <1>1, DivModIs
<1>3. ntohs(x) = low * Byte + high
  BY <1>1, <1>2, DivModUnique DEF ntohs
<1>4. high \in 0 .. Byte - 1
  <2>1. ASSUME high >= Byte PROVE FALSE
    <3>1. high * Byte >= Byte * Byte
      BY <1>1, <1>2, <2>1
    <3> QED
      BY <1>1, <1>2, <3>1
  <2> QED
    BY <1>1, <1>2, <2>1
<1>5. low * Byte + high \in Short
  <2>1. low * Byte <= (Byte - 1) * Byte
    BY <1>1, <1>2
  <2>2. low * Byte + high < Byte * Byte /\ low * Byte + high >= 0
    BY <1>1, <1>2, <1>4, <2>1
  <2> QED
    BY <1>1, <1>2, <1>4, <2>2 DEF Short
<1>6. (low * Byte + high) % Byte = high /\ (low * Byte + high) \div Byte = low
  BY <1>1, <1>2, <1>4, DivModUnique
<1> QED
  BY <1>1, <1>2, <1>3, <1>5, <1>6 DEF ntohs

(* The code reads back the port of a row, whatever is in the upper half of *)
(* its field.                                                              *)
LEMMA PortReadBack ==
  ASSUME NEW p \in Ports, NEW upper \in Short
  PROVE  PortOf(dwPort(p, upper)) = p
<1> DEFINE b == Byte * Byte
<1>1. b \in Nat /\ b > 0 /\ upper \in Nat /\ p \in Short
  <2>1. Byte \in Nat /\ Byte > 0
    BY PidAssumption
  <2> QED
    BY <2>1 DEF Short, Ports
<1>2. ntohs(p) \in 0 .. b - 1 /\ ntohs(ntohs(p)) = p
  BY <1>1, NtohsIs DEF Short
<1>3. upper * Byte * Byte = upper * b
  BY <1>1, PidAssumption
<1> HIDE DEF b
<1>4. (upper * b + ntohs(p)) % b = ntohs(p)
  BY <1>1, <1>2, DivModUnique
<1> QED
  BY <1>2, <1>3, <1>4 DEF PortOf, LowerHalf, dwPort, b

-----------------------------------------------------------------------------
(* The string bindings.                                                    *)

(* std::wstring::find is the first place where the character is.           *)
LEMMA FindIs ==
  ASSUME NEW s, Len(s) \in Nat, NEW x, NEW from \in Nat, NEW k \in from + 1 .. Len(s),
         s[k] = x, \A i \in from + 1 .. k - 1 : s[i] # x
  PROVE  Find(s, x, from) = k - 1
<1> DEFINE I == {i \in from + 1 .. Len(s) : s[i] = x}
<1>1. k \in I /\ \A i \in I : k <= i
  OBVIOUS
<1>2. k \in Nat /\ from # npos
  BY DEF npos
<1>3. I # {} /\ I \subseteq Int
  BY <1>1
<1>4. Find(s, x, from) = (IF I # {} THEN Min(I) ELSE 0) - 1
  BY <1>2 DEF Find, SelectInSubSeq
<1> HIDE DEF I
<1>5. Min(I) = k
  <2>1. Min(I) \in I /\ \A i \in I : Min(I) <= i
    BY <1>1, Zenon DEF Min
  <2>2. \A i, j \in Int : i <= j /\ j <= i => i = j
    OBVIOUS
  <2> QED
    BY <1>1, <1>3, <2>1, <2>2
<1> QED
  BY <1>3, <1>4, <1>5

(* The port that the resolver put into its bindings is read from them, and *)
(* 0 from a binding without one.                                           *)
LEMMA LocalPortIs ==
  /\ \A p \in Ports : \A s \in {Binding(p), Binding(p) \o Binding(p)} : LocalPort(s) = p
  /\ LocalPort(<<Text>>) = 0
<1> DEFINE w == Byte * Byte
<1>1. w \in Nat /\ Ports = (0 .. w - 1) \ {0} /\ Short = 0 .. w - 1
  BY PidAssumption DEF Ports, Short
<1>2. OpenBracket = w /\ CloseBracket = w + 1 /\ Text = w + 2
  BY DEF OpenBracket, CloseBracket, Text
<1> HIDE DEF w
<1>3. ASSUME NEW p \in Ports, NEW s \in {Binding(p), Binding(p) \o Binding(p)}
      PROVE  LocalPort(s) = p
  <2>1. /\ s \in Seq(Nat) /\ Len(s) \in Nat /\ Len(s) >= 5
        /\ s[1] = Text /\ s[2] = OpenBracket /\ s[3] = p /\ s[4] = CloseBracket
    <3> DEFINE a == Binding(p)
    <3>1. /\ a \in Seq(Nat) /\ Len(a) = 5
          /\ a[1] = Text /\ a[2] = OpenBracket /\ a[3] = p /\ a[4] = CloseBracket
      BY <1>1, <1>2, <1>3 DEF Binding
    <3>2. s = a \/ s = a \o a
      BY <1>3
    <3> HIDE DEF a
    <3>3. /\ a \o a \in Seq(Nat) /\ Len(a \o a) = Len(a) + Len(a)
          /\ \A i \in 1 .. Len(a) + Len(a) :
               (a \o a)[i] = IF i <= Len(a) THEN a[i] ELSE a[i - Len(a)]
      BY <3>1, ConcatProperties
    <3>4. \A i \in 1 .. 4 : (a \o a)[i] = a[i]
      BY <3>1, <3>3
    <3>5. CASE s = a
      <4>1. s \in Seq(Nat) /\ Len(s) = 5 /\ Len(s) \in Nat
        BY <3>1, <3>5
      <4>2. s[1] = Text /\ s[2] = OpenBracket /\ s[3] = p /\ s[4] = CloseBracket
        BY <3>1, <3>5, Zenon
      <4> QED
        BY <4>1, <4>2
    <3>6. CASE s = a \o a
      <4>1. \A i \in 1 .. 4 : s[i] = a[i]
        BY <3>4, <3>6
      <4>2. s \in Seq(Nat) /\ Len(s) = 10
        BY <3>1, <3>3, <3>6
      <4> QED
        BY <3>1, <4>1, <4>2
    <3> QED
      BY <3>2, <3>5, <3>6
  <2>2. Find(s, OpenBracket, 0) = 1
    <3>1. 2 \in 0 + 1 .. Len(s) /\ \A i \in 0 + 1 .. 2 - 1 : s[i] # OpenBracket
      BY <1>1, <1>2, <2>1
    <3> QED
      BY <2>1, <3>1, FindIs
  <2>3. Find(s, CloseBracket, 1) = 3
    <3>1. 4 \in 1 + 1 .. Len(s) /\ \A i \in 1 + 1 .. 4 - 1 : i = 2 \/ i = 3
      BY <2>1
    <3>2. s[2] # CloseBracket /\ s[3] # CloseBracket
      BY <1>1, <1>2, <2>1
    <3> QED
      BY <2>1, <3>1, <3>2, FindIs
  <2>4. LocalPort(s) = Wtoi(SubStr(s, 2, 1))
    BY <2>2, <2>3 DEF LocalPort
  <2>5. SubStr(s, 2, 1) = SubSeq(s, 3, 3)
    BY DEF SubStr
  <2>6. SubSeq(s, 3, 3) # <<>> /\ SubSeq(s, 3, 3)[1] = p
    <3>1. 3 \in Int /\ 3 \in 1 .. Len(s)
      BY <2>1
    <3>2. /\ Len(SubSeq(s, 3, 3)) = 1
          /\ \A i \in 1 .. 1 : SubSeq(s, 3, 3)[i] = s[3 + i - 1]
      BY <2>1, <3>1, SubSeqProperties
    <3> QED
      BY <2>1, <3>2
  <2> QED
    BY <1>1, <1>3, <2>4, <2>5, <2>6 DEF Wtoi
<1>4. LocalPort(<<Text>>) = 0
  <2> DEFINE s == <<Text>>
  <2>1. s \in Seq(Nat) /\ Len(s) = 1 /\ s[1] = Text /\ s # <<>>
    BY <1>1, <1>2
  <2>2. Find(s, OpenBracket, 0) = npos
    <3>1. \A i \in 0 + 1 .. 1 : s[i] # OpenBracket
      BY <1>1, <1>2, <2>1
    <3>2. {i \in 0 + 1 .. Len(s) : s[i] = OpenBracket} = {}
      BY <2>1, <3>1
    <3> QED
      BY <3>2 DEF Find, SelectInSubSeq, npos
  <2>3. Find(s, CloseBracket, npos) = npos
    BY DEF Find
  <2>4. LocalPort(s) = Wtoi(SubStr(s, 0, -1))
    <3> HIDE DEF s
    <3> QED
      BY <2>2, <2>3 DEF LocalPort, npos
  <2>5. SubStr(s, 0, -1) = SubSeq(s, 1, Len(s))
    BY DEF SubStr
  <2>6. SubSeq(s, 1, 1)[1] = Text
    <3>1. 1 \in 1 .. Len(s) /\ 1 \in Int
      BY <2>1
    <3>2. \A i \in 1 .. 1 : SubSeq(s, 1, 1)[i] = s[1 + i - 1]
      BY <2>1, <3>1, SubSeqProperties
    <3> QED
      BY <2>1, <3>2
  <2>7. Text \notin Short
    BY <1>1, <1>2
  <2> QED
    BY <2>1, <2>4, <2>5, <2>6, <2>7 DEF Wtoi
<1> QED
  BY <1>3, <1>4

-----------------------------------------------------------------------------
(* The steps.                                                              *)

LEMMA Constants ==
  /\ NoPid \notin Pids /\ NoPid # OtherPid /\ OtherPid \notin Pids
  /\ 0 \in Short /\ Ports \subseteq Short /\ 0 \notin Ports
  /\ \A p \in Pids : ClampedPid(p) \in Short
  /\ \A p \in Pids : IsPidValid(ClampedPid(p)) => ClampedPid(p) = p
<1> DEFINE w == Byte * Byte
<1>1. w \in Nat /\ w > 0 /\ Short = 0 .. w - 1 /\ Ports = (0 .. w - 1) \ {0}
      /\ Clamped = w - 1
  BY PidAssumption DEF Short, Ports, Clamped
<1> HIDE DEF w
<1>2. Pids \subseteq Nat /\ OtherPid \in Nat /\ OtherPid \notin Pids
  BY PidAssumption
<1>3. /\ \A p \in Pids : ClampedPid(p) \in Short
      /\ \A p \in Pids : IsPidValid(ClampedPid(p)) => ClampedPid(p) = p
  BY <1>1, <1>2 DEF ClampedPid, IsPidValid
<1> QED
  BY <1>1, <1>2, <1>3 DEF NoPid

LEMMA RowIs ==
  ASSUME NEW a, NEW k, NEW p, NEW b, NEW l, NEW q
  PROVE  /\ Row(a, k, p).pid = a /\ Row(a, k, p).kind = k /\ Row(a, k, p).port = p
         /\ Row(a, k, p) = Row(b, l, q) => a = b /\ k = l /\ p = q
BY DEF Row

LEMMA InitInv == Init => IndInv
<1> SUFFICES ASSUME Init PROVE IndInv
  OBVIOUS
<1>1. TypeOK /\ OwnerInv
  BY Constants DEF Init, TypeOK, OwnerInv
<1>2. ObjrefInv /\ PortInv /\ TableInv /\ PidInv /\ HeldInv
  BY DEF Init, ObjrefInv, PortInv, TableInv, PidInv, HeldInv, Kept
<1>3. PidIsTheServers /\ ListedIsFound
  BY DEF Init, PidIsTheServers, ListedIsFound
<1> QED
  BY <1>1, <1>2, <1>3 DEF IndInv

(* A step of the caller before it searches the table.                      *)
LEMMA BeforeSearch ==
  ASSUME IndInv, pc \notin {"Search", "Done"}, pc' # "Search", UNCHANGED envVars,
         table' = table, pid' \in {NoPid, Server}
  PROVE  OwnerInv' /\ TableInv' /\ PidIsTheServers' /\ ListedIsFound'
<1>1. /\ Server' = Server /\ alive' = alive /\ endpoint' = endpoint /\ sockets' = sockets
      /\ table' = {}
  BY DEF envVars, IndInv, TableInv
<1>2. OwnerInv'
  BY <1>1 DEF IndInv, OwnerInv, Free
<1>3. TableInv' /\ PidIsTheServers' /\ ListedIsFound'
  BY <1>1 DEF TableInv, PidIsTheServers, ListedIsFound
<1> QED
  BY <1>2, <1>3

LEMMA GetServerSTDOBJREFInv ==
  ASSUME IndInv,
         \/ QueryInterface \/ CreateStream \/ Marshal \/ Map \/ ReleaseMarshalData
         \/ UseObjref
  PROVE  IndInv'
<1> USE DEF Goto, Fail, dataVars, envVars
<1>1. TypeOK /\ OwnerInv /\ ObjrefInv /\ PidInv /\ HeldInv
  BY DEF IndInv
<1>2. CASE QueryInterface \/ CreateStream
  <2>1. TypeOK' /\ ObjrefInv' /\ PortInv' /\ PidInv' /\ HeldInv'
    BY <1>1, <1>2 DEF QueryInterface, CreateStream, TypeOK, ObjrefInv, PortInv, PidInv,
       HeldInv, Kept
  <2>2. OwnerInv' /\ TableInv' /\ PidIsTheServers' /\ ListedIsFound'
    BY <1>1, <1>2, BeforeSearch DEF QueryInterface, CreateStream, PidInv
  <2> QED
    BY <2>1, <2>2 DEF IndInv
<1>3. CASE Marshal
  <2>1. TypeOK' /\ ObjrefInv' /\ PortInv' /\ PidInv' /\ HeldInv'
    BY <1>1, <1>3 DEF Marshal, TypeOK, ObjrefInv, PortInv, PidInv, HeldInv, Kept
  <2>2. OwnerInv' /\ TableInv' /\ PidIsTheServers' /\ ListedIsFound'
    BY <1>1, <1>3, BeforeSearch DEF Marshal, PidInv
  <2> QED
    BY <2>1, <2>2 DEF IndInv
<1>4. CASE Map
  <2>1. TypeOK'
    BY <1>1, <1>4, Constants DEF Map, TypeOK, OwnerInv
  <2>2. ObjrefInv' /\ PortInv' /\ PidInv' /\ HeldInv'
    BY <1>1, <1>4 DEF Map, ObjrefInv, PortInv, PidInv, HeldInv, Kept
  <2>3. OwnerInv' /\ TableInv' /\ PidIsTheServers' /\ ListedIsFound'
    BY <1>1, <1>4, BeforeSearch DEF Map, PidInv
  <2> QED
    BY <2>1, <2>2, <2>3 DEF IndInv
<1>5. CASE ReleaseMarshalData
  <2>1. TypeOK' /\ ObjrefInv' /\ PortInv' /\ PidInv' /\ HeldInv'
    BY <1>1, <1>5 DEF ReleaseMarshalData, TypeOK, ObjrefInv, PortInv, PidInv, HeldInv, Kept
  <2>2. OwnerInv' /\ TableInv' /\ PidIsTheServers' /\ ListedIsFound'
    BY <1>1, <1>5, BeforeSearch DEF ReleaseMarshalData, PidInv
  <2> QED
    BY <2>1, <2>2 DEF IndInv
<1>6. CASE UseObjref
  <2>1. pid' \in {NoPid, Server} /\ Server \in Pids
    BY <1>1, <1>6, Constants DEF UseObjref, ObjrefInv, OwnerInv, PidInv
  <2>2. TypeOK' /\ ObjrefInv' /\ PortInv' /\ PidInv' /\ HeldInv'
    BY <1>1, <1>6, <2>1 DEF UseObjref, TypeOK, ObjrefInv, PortInv, PidInv, HeldInv, Kept
  <2>3. OwnerInv' /\ TableInv' /\ PidIsTheServers' /\ ListedIsFound'
    BY <1>6, <2>1, BeforeSearch DEF UseObjref
  <2> QED
    BY <2>2, <2>3 DEF IndInv
<1> QED
  BY <1>2, <1>3, <1>4, <1>5, <1>6

LEMMA CallInv ==
  ASSUME IndInv,
         \/ RpcStringBindingCompose \/ RpcBindingFromStringBinding
         \/ RpcBindingSetAuthInfoEx
  PROVE  IndInv'
<1> USE DEF Goto, Fail, dataVars, envVars, RpcStringBindingCompose,
        RpcBindingFromStringBinding, RpcBindingSetAuthInfoEx, Call
<1>1. TypeOK /\ PidInv /\ HeldInv
  BY DEF IndInv
<1>2. TypeOK' /\ ObjrefInv' /\ PortInv' /\ PidInv'
  BY <1>1 DEF TypeOK, ObjrefInv, PortInv, PidInv, HeldInv, Kept
<1>3. HeldInv'
  BY <1>1 DEF HeldInv, Kept
<1>4. OwnerInv' /\ TableInv' /\ PidIsTheServers' /\ ListedIsFound'
  BY <1>1, BeforeSearch DEF PidInv
<1> QED
  BY <1>2, <1>3, <1>4 DEF IndInv

(* The server opens a port that no other process listens on.               *)
LEMMA ResolveOxidInv ==
  ASSUME IndInv, ResolveOxid
  PROVE  IndInv'
<1> USE DEF Goto, Fail, dataVars, envVars
<1>1. TypeOK /\ OwnerInv /\ PidInv /\ HeldInv /\ table = {} /\ pid = NoPid
      /\ pc = "ResolveOxid"
  BY DEF IndInv, TableInv, PidInv, ResolveOxid
<1>2. CASE pc' = "Parse"
  <2>1. /\ hr' = "S_OK" /\ held' = (held \ {"binding"}) \cup {"bindings"}
        /\ \/ \E p \in {q \in Ports : Free(q)} :
                endpoint' = p /\ bindings' \in {Binding(p), Binding(p) \o Binding(p)}
           \/ endpoint' = 0 /\ bindings' = <<Text>>
        /\ Server' = Server /\ alive' = alive /\ sockets' = sockets
        /\ UNCHANGED <<header, objref, port, size, table, pid>>
    BY <1>1, <1>2 DEF ResolveOxid
  <2>2. endpoint' \in Short /\ (endpoint' # 0 => Free(endpoint'))
    BY <2>1, Constants
  <2>3. TypeOK'
    <3>1. held' \subseteq {"marshal data", "left to COM", "lock", "string", "binding",
                           "bindings"}
      BY <1>1, <2>1 DEF TypeOK
    <3>2. {port', endpoint'} \subseteq Short
      BY <1>1, <2>1, <2>2 DEF TypeOK
    <3> QED
      BY <1>1, <1>2, <2>1, <3>1, <3>2 DEF TypeOK
  <2>4. OwnerInv'
    BY <1>1, <2>1, <2>2 DEF OwnerInv, Free
  <2>5. ObjrefInv' /\ PortInv' /\ PidInv' /\ HeldInv'
    BY <1>1, <1>2, <2>1 DEF ObjrefInv, PortInv, PidInv, HeldInv, Kept
  <2>6. TableInv' /\ PidIsTheServers' /\ ListedIsFound'
    BY <1>1, <1>2, <2>1 DEF TableInv, PidIsTheServers, ListedIsFound
  <2> QED
    BY <2>3, <2>4, <2>5, <2>6 DEF IndInv
<1>3. CASE pc' # "Parse"
  <2>1. Fail("ResolveOxid", "Done", "E_FAIL") /\ UNCHANGED <<dataVars, held>>
    BY <1>3 DEF ResolveOxid
  <2>2. TypeOK' /\ ObjrefInv' /\ PortInv' /\ PidInv' /\ HeldInv'
    BY <1>1, <2>1 DEF TypeOK, ObjrefInv, PortInv, PidInv, HeldInv, Kept
  <2>3. OwnerInv' /\ TableInv' /\ PidIsTheServers' /\ ListedIsFound'
    BY <1>1, <2>1, BeforeSearch
  <2> QED
    BY <2>2, <2>3 DEF IndInv
<1> QED
  BY <1>2, <1>3

LEMMA ParseInv ==
  ASSUME IndInv, Parse
  PROVE  IndInv'
<1> USE DEF Goto, dataVars, envVars
<1>1. TypeOK /\ PortInv /\ PidInv /\ HeldInv
  BY DEF IndInv
<1>2. port' = endpoint
  BY <1>1, LocalPortIs DEF Parse, PortInv
<1>3. TypeOK' /\ ObjrefInv' /\ PortInv' /\ PidInv' /\ HeldInv'
  BY <1>1, <1>2 DEF Parse, TypeOK, ObjrefInv, PortInv, PidInv, HeldInv, Kept
<1>4. OwnerInv' /\ TableInv' /\ PidIsTheServers' /\ ListedIsFound'
  BY <1>1, BeforeSearch DEF Parse, PidInv
<1> QED
  BY <1>3, <1>4 DEF IndInv

LEMMA QuerySizeInv ==
  ASSUME IndInv, QuerySize
  PROVE  IndInv'
<1> USE DEF Goto, Fail, dataVars, envVars
<1>1. TypeOK /\ PortInv /\ PidInv /\ HeldInv
  BY DEF IndInv
<1>2. TypeOK' /\ ObjrefInv' /\ PortInv' /\ PidInv' /\ HeldInv'
  BY <1>1 DEF QuerySize, TypeOK, ObjrefInv, PortInv, PidInv, HeldInv, Kept
<1>3. OwnerInv' /\ TableInv' /\ PidIsTheServers' /\ ListedIsFound'
  BY <1>1, BeforeSearch DEF QuerySize, PidInv
<1> QED
  BY <1>2, <1>3 DEF IndInv

(* The rows of one moment: only the server listens on its port.            *)
LEMMA RowsIs ==
  ASSUME TypeOK, OwnerInv
  PROVE  /\ Rows \subseteq [pid : Pids \cup {OtherPid}, kind : Kinds, port : Ports]
         /\ \A row \in Rows : row.pid = Server =>
              /\ row = Row(Server, "any", endpoint) /\ endpoint # 0
              /\ \A r \in Rows : r.kind = "any" /\ r.port = endpoint => r.pid = Server
         /\ alive /\ endpoint # 0 => Row(Server, "any", endpoint) \in Rows
<1> DEFINE own == Row(Server, "any", endpoint)
<1>1. /\ \A row \in Rows : row \in sockets \/ (row = own /\ alive /\ endpoint # 0)
      /\ alive /\ endpoint # 0 => own \in Rows
  BY DEF Rows
<1>2. /\ \A row \in sockets : /\ row \in [pid : {OtherPid}, kind : Kinds, port : Ports]
                              /\ row.pid = OtherPid
      /\ Server \in Pids /\ Server # OtherPid
  BY Constants DEF OwnerInv
<1>3. endpoint # 0 => endpoint \in Ports
  BY DEF TypeOK, Ports
<1>4. /\ endpoint # 0 =>
           own \in [pid : Pids \cup {OtherPid}, kind : Kinds, port : Ports]
      /\ own.pid = Server
  BY <1>2, <1>3 DEF Row, Kinds
<1>5. ASSUME NEW row \in Rows
      PROVE  row \in [pid : Pids \cup {OtherPid}, kind : Kinds, port : Ports]
  BY <1>1, <1>2, <1>4, <1>5
<1>6. ASSUME NEW row \in Rows, row.pid = Server
      PROVE  /\ row = own /\ endpoint # 0
             /\ \A r \in Rows : r.kind = "any" /\ r.port = endpoint => r.pid = Server
  <2>1. row = own /\ alive /\ endpoint # 0
    BY <1>1, <1>2, <1>6
  <2>2. \A r \in sockets : r.port = endpoint => r.kind # "any"
    BY <2>1 DEF OwnerInv, Free
  <2> QED
    BY <1>1, <1>4, <2>1, <2>2
<1> QED
  BY <1>1, <1>5, <1>6

LEMMA QueryTableInv ==
  ASSUME IndInv, QueryTable
  PROVE  IndInv'
<1> USE DEF Goto, Fail, dataVars, envVars
<1>1. TypeOK /\ OwnerInv /\ PortInv /\ PidInv /\ HeldInv
  BY DEF IndInv
<1>2. CASE pc' = "Search"
  <2>1. /\ pc = "QueryTable" /\ hr' = "S_OK" /\ table' = Rows
        /\ UNCHANGED envVars /\ UNCHANGED <<header, objref, bindings, port, size, pid, held>>
    BY <1>2 DEF QueryTable
  <2>2. TypeOK'
    BY <1>1, <1>2, <2>1, RowsIs DEF TypeOK
  <2>3. OwnerInv' /\ ObjrefInv' /\ PortInv' /\ PidInv' /\ HeldInv'
    BY <1>1, <1>2, <2>1 DEF OwnerInv, Free, ObjrefInv, PortInv, PidInv, HeldInv, Kept
  <2>4. TableInv'
    BY <1>1, <1>2, <2>1, RowsIs DEF TableInv
  <2>5. PidIsTheServers' /\ ListedIsFound'
    BY <1>1, <1>2, <2>1 DEF PidInv, PidIsTheServers, ListedIsFound
  <2> QED
    BY <2>2, <2>3, <2>4, <2>5 DEF IndInv
<1>3. CASE pc' # "Search"
  <2>1. /\ pc = "QueryTable" /\ pc' = "Done" /\ hr' = "E_FAIL"
        /\ UNCHANGED <<envVars, dataVars, held>>
    BY <1>3 DEF QueryTable
  <2>2. TypeOK' /\ ObjrefInv' /\ PortInv' /\ PidInv' /\ HeldInv'
    BY <1>1, <2>1 DEF TypeOK, ObjrefInv, PortInv, PidInv, HeldInv, Kept
  <2>3. OwnerInv' /\ TableInv' /\ PidIsTheServers' /\ ListedIsFound'
    BY <1>1, <2>1, BeforeSearch DEF PidInv
  <2> QED
    BY <2>2, <2>3 DEF IndInv
<1> QED
  BY <1>2, <1>3

(* A row that matches has the server's port; so it is the server's row, if *)
(* the table has one.                                                      *)
LEMMA SearchInv ==
  ASSUME IndInv, Search
  PROVE  IndInv'
<1> USE DEF Goto, Fail, dataVars, envVars
<1> DEFINE Match(row, upper) ==
             Listens(row) /\ PortOf(dwPort(row.port, upper)) = port
<1>1. TypeOK /\ OwnerInv /\ PidInv /\ HeldInv /\ TableInv /\ port = endpoint
      /\ pc = "Search" /\ pc' = "Done" /\ pid = NoPid
  BY DEF IndInv, PortInv, PidInv, Search
<1>2. /\ UNCHANGED envVars /\ UNCHANGED <<header, objref, bindings, port, size, table, held>>
      /\ \/ /\ hr' = "S_OK"
            /\ \E upper \in Short, row \in table : Match(row, upper) /\ pid' = row.pid
         \/ /\ hr' = "E_FAIL" /\ pid' = pid
            /\ \E upper \in Short : \A row \in table : ~Match(row, upper)
  BY DEF Search
<1>3. \A row \in table : row.port \in Ports /\ row.pid \in Pids \cup {OtherPid}
  BY <1>1 DEF TypeOK
<1>4. \A row \in table : \A upper \in Short :
        Match(row, upper) <=> row.kind = "any" /\ row.port = endpoint
  BY <1>1, <1>3, PortReadBack DEF Listens
<1> HIDE DEF Match
<1>5. /\ TypeOK' /\ OwnerInv' /\ ObjrefInv' /\ PortInv' /\ PidInv' /\ HeldInv'
      /\ TableInv'
  <2>1. pid' \in Pids \cup {OtherPid, NoPid}
    BY <1>1, <1>2, <1>3
  <2>2. TypeOK' /\ OwnerInv'
    BY <1>1, <1>2, <2>1 DEF TypeOK, OwnerInv, Free
  <2>3. ObjrefInv' /\ PortInv' /\ PidInv' /\ HeldInv' /\ TableInv'
    BY <1>1, <1>2 DEF ObjrefInv, PortInv, PidInv, HeldInv, Kept, TableInv
  <2> QED
    BY <2>2, <2>3
<1>6. CASE hr' = "S_OK"
  <2>1. PICK row \in table : row.kind = "any" /\ row.port = endpoint /\ pid' = row.pid
    BY <1>2, <1>4, <1>6
  <2>2. (\E r \in table : r.pid = Server) => row.pid = Server
    BY <1>1, <2>1 DEF TableInv
  <2>3. alive => \E r \in table : r.pid = Server
    <3>1. endpoint # 0
      BY <1>3, <2>1, Constants
    <3> QED
      BY <1>1, <3>1 DEF TableInv, Row
  <2> QED
    BY <1>1, <1>2, <1>5, <1>6, <2>1, <2>2, <2>3 DEF IndInv, PidIsTheServers,
       ListedIsFound, Listening
<1>7. CASE hr' = "E_FAIL"
  <2>1. PICK upper \in Short : \A row \in table : ~Match(row, upper)
    BY <1>2, <1>7
  <2>2. ASSUME NEW row \in table, row.pid = Server PROVE FALSE
    <3>1. row.kind = "any" /\ row.port = endpoint
      BY <1>1, <2>2 DEF TableInv, Row
    <3> QED
      BY <1>4, <2>1, <3>1
  <2>3. ~Listening
    BY <1>1, <2>2 DEF TableInv, Listening, Row
  <2> QED
    BY <1>1, <1>2, <1>5, <1>7, <2>2, <2>3 DEF IndInv, PidIsTheServers, ListedIsFound,
       Listening
<1> QED
  BY <1>2, <1>6, <1>7

(* Other processes come and go, and the server may end.  No port is given  *)
(* to two listeners, and a table that was read does not change.            *)
LEMMA EnvironmentInv ==
  ASSUME IndInv, OpenSocket \/ CloseSocket \/ ServerEnds
  PROVE  IndInv'
<1> USE DEF dataVars
<1>1. /\ pc # "Done" /\ Server' = Server /\ endpoint' = endpoint
      /\ UNCHANGED <<obj, family, pc, hr, dataVars, held>>
      /\ TypeOK /\ OwnerInv
  BY DEF IndInv, OpenSocket, CloseSocket, ServerEnds
<1>2. alive' => alive
  BY DEF OpenSocket, CloseSocket, ServerEnds
<1>3. OwnerInv'
  <2>1. CASE OpenSocket
    <3>1. PICK kind \in Kinds, p \in Ports :
            /\ kind = "any" => ~(alive /\ endpoint = p)
            /\ sockets' = sockets \cup {Row(OtherPid, kind, p)} /\ alive' = alive
      BY <2>1 DEF OpenSocket
    <3>2. Row(OtherPid, kind, p) \in [pid : {OtherPid}, kind : Kinds, port : Ports]
      BY DEF Row
    <3>3. Row(OtherPid, kind, p).port = p /\ Row(OtherPid, kind, p).kind = kind
      BY DEF Row
    <3> QED
      BY <1>1, <3>1, <3>2, <3>3 DEF OwnerInv, Free
  <2>2. CASE CloseSocket
    BY <1>1, <2>2 DEF CloseSocket, OwnerInv, Free
  <2>3. CASE ServerEnds
    BY <1>1, <2>3 DEF ServerEnds, OwnerInv
  <2> QED
    BY <2>1, <2>2, <2>3
<1>4. TypeOK' /\ ObjrefInv' /\ PortInv' /\ PidInv' /\ HeldInv'
  <2>1. TypeOK'
    BY <1>1 DEF TypeOK
  <2>2. ObjrefInv' /\ PortInv' /\ PidInv' /\ HeldInv'
    BY <1>1 DEF IndInv, ObjrefInv, PortInv, PidInv, HeldInv, Kept
  <2> QED
    BY <2>1, <2>2
<1>5. TableInv'
  BY <1>1, <1>2 DEF IndInv, TableInv
<1>6. PidIsTheServers' /\ ListedIsFound'
  BY <1>1 DEF IndInv, PidInv, PidIsTheServers, ListedIsFound
<1> QED
  BY <1>3, <1>4, <1>5, <1>6 DEF IndInv

LEMMA NextInv == IndInv /\ [Next]_vars => IndInv'
<1> SUFFICES ASSUME IndInv, [Next]_vars PROVE IndInv'
  OBVIOUS
<1>1. CASE \/ QueryInterface \/ CreateStream \/ Marshal \/ Map \/ ReleaseMarshalData
           \/ UseObjref
  BY <1>1, GetServerSTDOBJREFInv
<1>2. CASE \/ RpcStringBindingCompose \/ RpcBindingFromStringBinding
           \/ RpcBindingSetAuthInfoEx
  BY <1>2, CallInv
<1>3. CASE ResolveOxid
  BY <1>3, ResolveOxidInv
<1>4. CASE Parse
  BY <1>4, ParseInv
<1>5. CASE GetProcessIDFromLocalIPv4Port \/ GetProcessIDFromLocalIPv6Port
  BY <1>5, QuerySizeInv, QueryTableInv, SearchInv DEF GetProcessIDFromLocalIPv4Port,
     GetProcessIDFromLocalIPv6Port
<1>6. CASE OpenSocket \/ CloseSocket \/ ServerEnds
  BY <1>6, EnvironmentInv
<1>7. CASE UNCHANGED vars
  <2> USE DEF vars, envVars, dataVars
  <2>1. TypeOK' /\ OwnerInv' /\ ObjrefInv' /\ PortInv' /\ PidInv' /\ HeldInv'
    <3>1. TypeOK /\ OwnerInv /\ ObjrefInv /\ PortInv /\ PidInv /\ HeldInv
      BY DEF IndInv
    <3>2. TypeOK'
      BY <1>7, <3>1 DEF TypeOK
    <3>3. OwnerInv'
      BY <1>7, <3>1 DEF OwnerInv, Free
    <3>4. ObjrefInv' /\ PortInv' /\ PidInv' /\ HeldInv'
      BY <1>7, <3>1 DEF ObjrefInv, PortInv, PidInv, HeldInv, Kept
    <3> QED
      BY <3>2, <3>3, <3>4
  <2>2. TableInv' /\ PidIsTheServers' /\ ListedIsFound'
    BY <1>7 DEF IndInv, TableInv, PidIsTheServers, ListedIsFound, Listening
  <2> QED
    BY <2>1, <2>2 DEF IndInv
<1> QED
  BY <1>1, <1>2, <1>3, <1>4, <1>5, <1>6, <1>7 DEF Next, Terminating

-----------------------------------------------------------------------------
(* The theorems.                                                           *)

(* The invariant holds in every state of every behaviour.                  *)
THEOREM Inductive == Spec => []IndInv
<1>1. Init => IndInv
  BY InitInv
<1>2. IndInv /\ [Next]_vars => IndInv'
  BY NextInv
<1> QED
  BY <1>1, <1>2, PTL DEF Spec

(* Every value has its type: the PID that is read from the bytes and the   *)
(* port that is read from the text fit 16 bits.                            *)
THEOREM TypeCorrect == Spec => []TypeOK
<1>1. IndInv => TypeOK
  BY DEF IndInv
<1> QED
  BY <1>1, Inductive, PTL

(* A PID that is not the server's is only found when the server had ended  *)
(* before the table was read.                                              *)
THEOREM RightProcess == Spec => []PidIsTheServers
<1>1. IndInv => PidIsTheServers
  BY DEF IndInv
<1> QED
  BY <1>1, Inductive, PTL

(* The search of the table does not miss a server that is in it.           *)
THEOREM Complete == Spec => []ListedIsFound
<1>1. IndInv => ListedIsFound
  BY DEF IndInv
<1> QED
  BY <1>1, Inductive, PTL

(* Every way out of GetServerSTDOBJREF gives the marshalled reference back, *)
(* if COM takes it, and at most one other resource is still allocated when *)
(* the caller returns.                                                     *)
THEOREM GivenBack == Spec => []ResourcesGivenBack
<1>1. IndInv => ResourcesGivenBack
  <2> SUFFICES ASSUME HeldInv, TypeOK PROVE ResourcesGivenBack
    BY DEF IndInv
  <2>1. pc = "Done" => \/ Kept = {} \/ Kept = {"bindings"} \/ Kept = {"lock"}
                       \/ Kept = {"string"} \/ Kept = {"binding"}
    BY DEF HeldInv
  <2>2. ASSUME pc = "Done"
        PROVE  Cardinality(Kept) <= 1 /\ (hr = "S_OK" => Kept \subseteq {"bindings"})
    <3>1. \A x : Cardinality({x}) = 1
      BY FS_Singleton
    <3>2. Cardinality({}) = 0
      BY FS_EmptySet
    <3>3. Cardinality(Kept) = 0 \/ Cardinality(Kept) = 1
      BY <2>1, <2>2, <3>1, <3>2, Zenon
    <3>4. hr = "S_OK" => Kept = {} \/ Kept = {"bindings"}
      BY <2>2 DEF HeldInv
    <3> QED
      BY <3>3, <3>4
  <2>3. ASSUME pc \notin {"Map", "ReleaseMarshalData"}
        PROVE  "marshal data" \notin held
    <3>1. \/ pc \in {"QueryInterface", "CreateStream", "Marshal", "UseObjref", "Compose"}
          \/ pc = "FromString" \/ pc \in {"SetAuthInfo", "ResolveOxid"}
          \/ pc \in {"Parse", "QuerySize", "QueryTable", "Search"} \/ pc = "Done"
      BY <2>3 DEF TypeOK
    <3>2. \/ Kept = {} \/ Kept = {"bindings"} \/ Kept = {"lock"} \/ Kept = {"string"}
          \/ Kept = {"binding"}
      <4>1. CASE pc = "Done"
        BY <2>1, <4>1
      <4>2. CASE pc # "Done"
        BY <3>1, <4>2 DEF HeldInv
      <4> QED
        BY <4>1, <4>2
    <3>3. \A x \in Kept : x \in {"bindings", "lock", "string", "binding"}
      BY <3>2, Zenon
    <3>4. "marshal data" \in held => "marshal data" \in Kept
      BY DEF Kept
    <3> QED
      BY <3>3, <3>4
  <2> QED
    BY <2>2, <2>3 DEF ResourcesGivenBack
<1> QED
  BY <1>1, Inductive, PTL
=============================================================================
