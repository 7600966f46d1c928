--------------------------- MODULE MyClientCppProofs ---------------------------
(***************************************************************************)
(* Proofs about MyClientCpp and the ServerModule below it, for any number  *)
(* of clients and objects.  ServerInv is what every step of the server,    *)
(* and of any client, keeps: the module lock counts what is held, and what *)
(* is held once the end is decided came after the decision.  ClientInv is  *)
(* what main has of its server at each point on its way.                   *)
(***************************************************************************)
EXTENDS MyClientCpp, FiniteSetTheorems, TLAPS

(* What clients hold in a server that is there.                            *)
Live == Owned \ lost

(* Before a process has registered its class factory nobody uses it; wmain *)
(* ends once the module lock has dropped to zero, which suspends the class *)
(* factory.                                                                *)
MainInv ==
  /\ main \in IF Exe THEN {"absent", "Start", "Register", "Wait", "Uninit"}
                     ELSE {"absent", "Loaded", "Unloading"}
  /\ main = "absent" => ~byHand
  /\ main \in {"absent", "Start", "Register"} =>
       classes = "none" /\ factory = {} /\ Live = {}
  /\ exit => classes = "suspended"
  /\ main = "Uninit" => exit
  /\ ~Exe => classes = "none"

(* Only what was held is lost, and nobody holds a factory who has lost one.*)
LostInv == lost \cap Objects \subseteq Owned /\ factory \cap lost = {}

(* Once the end is decided, all that is held is from after the decision.   *)
LateInv ==
  /\ classes = "suspended" => Live \cup lockers \subseteq late
  /\ main = "Unloading" => Live \subseteq late
  /\ main = "Unloading" /\ host = "AtlDll" => factory = {} /\ Live = {}

(* The artificial reference keeps the lock above zero.                     *)
ArtificialInv == Artificial /\ main # "Start" => classes # "suspended"

ServerInv ==
  /\ TypeOK /\ CountIsExact /\ LosesOnlyLatecomers
  /\ MainInv /\ LostInv /\ LateInv /\ ArtificialInv

-----------------------------------------------------------------------------

(* What main has of its server at each point, while it is alive.           *)
BeforeServer == {"ComInitialize", "CoInitializeSecurity", "GetClassObject",
                 "CreateInstance", "Construct"}
WithCruncher == {"ComputePi", "CreateLocalInstance", "Subscribe", "Sleep",
                 "ReleaseCallback", "ReleaseCruncher"}
WithServer   == WithCruncher \cup {"GetNumberCruncher", "ReleaseServer"}
AfterServer  == {"Join", "CoUninitialize", "Returned"}
WithCallback == {"Subscribe", "Sleep", "ReleaseCallback"}

PointerInv ==
  /\ pc \in BeforeServer \cup WithServer \cup AfterServer \cup {"ReleaseFactory", "Dead"}
  /\ pc \in BeforeServer \cup AfterServer => server = Null
  /\ pc \in WithServer => server # Null
  /\ pc \in WithCruncher => cruncher # Null
  /\ pc \notin WithCruncher \cup {"Dead"} => cruncher = Null
  /\ pc \notin WithCallback \cup {"Dead"} => ~callback

HoldingInv ==
  Alive /\ pc # "Dead" =>
    /\ Me \in factory => pc \in {"CreateInstance", "Construct", "ReleaseFactory"}
    /\ Me \in creating => pc = "Construct"

ClientInv == ClientTypeOK /\ PointerInv /\ HoldingInv

-----------------------------------------------------------------------------

(* Every set of objects, and of clients, is finite.                        *)
LEMMA Cards ==
  /\ \A L \in SUBSET Objects :
       IsFiniteSet(L) /\ Cardinality(L) \in Nat /\ Cardinality(L) <= Cardinality(Objects)
  /\ \A L \in SUBSET Clients :
       IsFiniteSet(L) /\ Cardinality(L) \in Nat /\ Cardinality(L) <= Cardinality(Clients)
  /\ Cardinality(Objects) \in Nat /\ Cardinality(Clients) \in Nat
<1>1. IsFiniteSet(Objects) /\ IsFiniteSet(Clients)
  BY ModuleAssumption, FS_Union DEF Objects
<1> QED
  BY <1>1, FS_Subset, FS_CardinalityType

(* The module lock as a sum, and where it lies.                            *)
Locks     == IF LockCounts THEN Cardinality(lockers) ELSE 0
Factories == IF FactoryCounts /\ factory # {} THEN 1 ELSE 0
Base      == IF Artificial /\ main # "Start" THEN 1 ELSE 0

LEMMA CountIs == CountIsExact <=> count = Cardinality(Live) + Locks + Factories + Base
BY DEF CountIsExact, Live, Locks, Factories, Base

LEMMA Parts ==
  ASSUME TypeOK
  PROVE  /\ Live \in SUBSET Objects /\ lockers \in SUBSET Clients
         /\ factory \in SUBSET Clients
         /\ Cardinality(Live) \in Nat /\ Locks \in Nat /\ Factories \in {0, 1}
         /\ Base \in {0, 1} /\ count \in Nat
<1>1. /\ Live \in SUBSET Objects /\ lockers \in SUBSET Clients
      /\ factory \in SUBSET Clients
  BY DEF TypeOK, Live, Owned
<1>2. count \in Nat
  BY Cards DEF TypeOK
<1> QED
  BY <1>1, <1>2, Cards DEF Locks, Factories, Base

(* A lock that counts exactly is within the bound of its type.             *)
LEMMA CountBound ==
  ASSUME NEW L \in SUBSET Objects, NEW K \in SUBSET Clients,
         NEW n, NEW a \in {0, 1}, NEW f \in {0, 1}, NEW k,
         k = Cardinality(K) \/ k = 0, a = 0 \/ f = 0,
         n = Cardinality(L) + k + f + a
  PROVE  n \in 0 .. Cardinality(Objects) + Cardinality(Clients) + 1
<1>1. /\ k \in Nat /\ k <= Cardinality(Clients)
      /\ Cardinality(L) \in Nat /\ Cardinality(L) <= Cardinality(Objects)
      /\ Cardinality(Objects) \in Nat /\ Cardinality(Clients) \in Nat
  BY Cards
<1> QED
  BY <1>1

LEMMA CountTypeNext ==
  ASSUME CountIsExact', owner' \in [Objects -> Clients \cup {Nobody}],
         factory' \subseteq Clients, lockers' \subseteq Clients
  PROVE  count' \in 0 .. Cardinality(Objects) + Cardinality(Clients) + 1
<1>1. /\ Live' \in SUBSET Objects /\ Base' \in {0, 1} /\ Factories' \in {0, 1}
      /\ Locks' = Cardinality(lockers') \/ Locks' = 0
      /\ Base' = 0 \/ Factories' = 0
      /\ count' = Cardinality(Live') + Locks' + Factories' + Base'
  BY DEF CountIsExact, Live, Owned, Base, Artificial, Locks, Factories, FactoryCounts
<1> QED
  BY <1>1, CountBound

-----------------------------------------------------------------------------

(* The server and all it holds go.                                         *)
LEMMA GoneInv ==
  ASSUME ServerInv, Gone,
         \/ Exe /\ main \in {"Start", "Register", "Uninit"}
         \/ ~Exe /\ main = "Unloading"
  PROVE  ServerInv'
<1> USE DEF Gone, Exe, Hosts
<1>1. host \in Hosts /\ owner \in [Objects -> Clients \cup {Nobody}]
  BY DEF ServerInv, TypeOK
<1>2. Live' = {} /\ lost \subseteq lost'
  BY DEF Live, Owned
<1>3. CountIsExact'
  BY <1>2, FS_EmptySet DEF CountIsExact, Live, Artificial
<1>4. TypeOK'
  BY <1>1, <1>3, CountTypeNext DEF ServerInv, TypeOK, Owned
<1>5. MainInv'
  BY <1>1, <1>2 DEF MainInv
<1>6. LostInv'
  BY <1>1, ModuleAssumption DEF ServerInv, LostInv, TypeOK, Owned
<1>7. LateInv' /\ ArtificialInv'
  BY <1>2 DEF LateInv, ArtificialInv, Artificial
<1>8. LosesOnlyLatecomers'
  <2>1. lost' \subseteq lost \cup Live \cup lockers \cup (IF Exe THEN {} ELSE factory)
    BY DEF Live
  <2>2. CASE Exe /\ main \in {"Start", "Register"}
    BY <1>1, <2>1, <2>2 DEF ServerInv, TypeOK, MainInv, LosesOnlyLatecomers
  <2>3. CASE Exe /\ main = "Uninit"
    BY <1>1, <2>1, <2>3 DEF ServerInv, MainInv, LateInv, LosesOnlyLatecomers
  <2>4. CASE ~Exe /\ main = "Unloading"
    BY <1>1, <2>1, <2>4 DEF ServerInv, TypeOK, LateInv, LosesOnlyLatecomers
  <2> QED
    BY <2>2, <2>3, <2>4
<1> QED
  BY <1>3, <1>4, <1>5, <1>6, <1>7, <1>8 DEF ServerInv

(* The steps of wmain and of COM, but for the end.                         *)
LEMMA ServerStepInv ==
  ASSUME ServerInv,
         Launch \/ SetNotifier \/ AddArtificialReference \/ RegisterServer \/ Wait
           \/ DllCanUnloadNow
  PROVE  ServerInv'
<1> USE DEF Exe, Hosts, useVars, ServerInv
<1>1. /\ host \in Hosts /\ owner \in [Objects -> Clients \cup {Nobody}]
      /\ UNCHANGED <<host, useVars>>
  BY DEF TypeOK, Launch, SetNotifier, AddArtificialReference, RegisterServer, Wait,
         DllCanUnloadNow
<1>2. Live' = Live /\ Locks' = Locks /\ Factories' = Factories
  BY <1>1 DEF Live, Owned, Locks, LockCounts, Factories, FactoryCounts
<1>3. count' = count - Base + Base'
  <2>1. CASE AddArtificialReference
    <3>1. factory = {} /\ Live = {} /\ lockers = {}
      BY <2>1 DEF AddArtificialReference, MainInv, TypeOK
    <3>2. count = 0 /\ Base = 0
      BY <2>1, <3>1, FS_EmptySet
      DEF AddArtificialReference, CountIsExact, Live, Base
    <3> QED
      BY <2>1, <3>2 DEF AddArtificialReference, Base, Artificial
  <2>2. CASE ~AddArtificialReference
    <3>1. Base' = Base /\ count' = count
      BY <2>2 DEF Launch, SetNotifier, RegisterServer, Wait, DllCanUnloadNow, Base,
                  Artificial, MainInv
    <3> QED
      BY <3>1, Parts
  <2> QED
    BY <2>1, <2>2
<1>4. CountIsExact'
  <2>1. count' = Cardinality(Live) + Locks + Factories + Base'
    BY <1>3, CountIs, Parts, Parts DEF Base
  <2> QED
    BY <1>2, <2>1 DEF CountIsExact, Live, Locks, Factories, Base
<1>5. TypeOK'
  <2>1. count' \in 0 .. Cardinality(Objects) + Cardinality(Clients) + 1
    BY <1>1, <1>4, CountTypeNext DEF TypeOK
  <2> QED
    BY <1>1, <2>1 DEF TypeOK, Launch, SetNotifier, AddArtificialReference,
                      RegisterServer, Wait, DllCanUnloadNow
<1>6. MainInv'
  BY <1>1, <1>2 DEF MainInv, Launch, SetNotifier, AddArtificialReference,
                    RegisterServer, Wait, DllCanUnloadNow
<1>7. LostInv' /\ LosesOnlyLatecomers'
  BY <1>1 DEF LostInv, LosesOnlyLatecomers, Owned
<1>8. LateInv'
  <2>1. CASE DllCanUnloadNow
    <3>1. Cardinality(Live) = 0 /\ Factories = 0
      <4>1. count = 0 /\ count = Cardinality(Live) + Locks + Factories + Base
        BY <2>1, CountIs DEF DllCanUnloadNow, Unlocked
      <4>2. /\ Cardinality(Live) \in Nat /\ Locks \in Nat /\ Factories \in Nat
            /\ Base \in Nat
        BY Parts
      <4>3. \A a, b, c, d \in Nat : 0 = a + b + c + d => a = 0 /\ c = 0
        OBVIOUS
      <4> QED
        BY <4>1, <4>2, <4>3
    <3>2. Live = {} /\ (host = "AtlDll" => factory = {})
      BY <3>1, Parts, Cards, FS_EmptySet DEF Factories, FactoryCounts
    <3> QED
      BY <1>1, <1>2, <2>1, <3>2 DEF LateInv, MainInv, DllCanUnloadNow
  <2>2. CASE ~DllCanUnloadNow
    BY <1>1, <1>2, <2>2 DEF LateInv, MainInv, Launch, SetNotifier,
                            AddArtificialReference, RegisterServer, Wait
  <2> QED
    BY <2>1, <2>2
<1>9. ArtificialInv'
  BY <1>1 DEF ArtificialInv, Artificial, MainInv, Launch, SetNotifier,
              AddArtificialReference, RegisterServer, Wait, DllCanUnloadNow
<1> QED
  BY <1>4, <1>5, <1>6, <1>7, <1>8, <1>9

-----------------------------------------------------------------------------

(* What any client does to the sets of users.                              *)
LEMMA UseTypes ==
  ASSUME ServerInv, NEW c \in Clients, AnyClient(c)
  PROVE  /\ host' = host /\ byHand' = byHand /\ host \in Hosts
         /\ main' = main \/ (~Exe /\ main = "absent" /\ main' = "Loaded")
         /\ owner' \in [Objects -> Clients \cup {Nobody}]
         /\ factory' \subseteq Clients /\ lockers' \subseteq factory'
         /\ creating' \subseteq factory'
         /\ Base' = Base
<1>1. /\ host \in Hosts /\ c \in Clients
      /\ owner \in [Objects -> Clients \cup {Nobody}] /\ factory \subseteq Clients
      /\ lockers \subseteq factory /\ creating \subseteq factory
  BY DEF ServerInv, TypeOK
<1>2. /\ host' = host /\ byHand' = byHand
      /\ main' = main \/ (~Exe /\ main \in {"absent", "Loaded"} /\ main' = "Loaded")
      /\ owner' \in [Objects -> Clients \cup {Nobody}]
      /\ factory' \subseteq Clients /\ lockers' \subseteq factory'
      /\ creating' \subseteq factory'
  BY <1>1 DEF AnyClient, GetClassObject, ReleaseFactory, CreateInstance,
              CreateInstanceFails, LockServer, UnlockServer, ForgetLock,
              CreateServerObject, GetNumberCruncher, Release, ReleaseProxy, Drop,
              Construct, processVars
<1>3. Base' = Base
  BY <1>2 DEF Base, Artificial, Exe
<1> QED
  BY <1>1, <1>2, <1>3

(* A sum that is zero has no positive part.                                *)
LEMMA Emptied ==
  ASSUME CountIsExact', owner' \in [Objects -> Clients \cup {Nobody}],
         factory' \subseteq Clients, lockers' \subseteq Clients, count' = 0
  PROVE  /\ Live' = {} /\ Base' = 0
         /\ LockCounts' => lockers' = {}
         /\ FactoryCounts' => factory' = {}
<1>1. \A a, b, d, e \in Nat : 0 = a + b + d + e => a = 0 /\ b = 0 /\ d = 0 /\ e = 0
  OBVIOUS
<1>2. 0 = Cardinality(Live') + Locks' + Factories' + Base'
  BY DEF CountIsExact, Live, Locks, Factories, Base
<1>3. /\ Live' \in SUBSET Objects /\ Base' \in Nat
      /\ lockers' \in SUBSET Clients /\ factory' \in SUBSET Clients
  BY DEF Live, Owned, Base
<1>4. /\ Cardinality(Live') \in Nat /\ Locks' \in Nat /\ Factories' \in Nat
      /\ IsFiniteSet(Live') /\ IsFiniteSet(lockers') /\ IsFiniteSet(factory')
  BY <1>3, Cards DEF Locks, Factories
<1>5. Cardinality(Live') = 0 /\ Locks' = 0 /\ Factories' = 0 /\ Base' = 0
  BY <1>1, <1>2, <1>3, <1>4
<1> QED
  BY <1>4, <1>5, FS_EmptySet DEF Locks, Factories

(* What a step adds to the lock it adds to one of the sets that count, and *)
(* what it takes it takes from one.                                        *)
LEMMA UseCount ==
  ASSUME ServerInv, NEW c \in Clients, AnyClient(c)
  PROVE  CountIsExact'
<1> DEFINE n == Cardinality(Live)
<1>1. /\ count = n + Locks + Factories + Base
      /\ Live \in SUBSET Objects /\ lockers \in SUBSET Clients
      /\ factory \in SUBSET Clients /\ lost \cap Objects \subseteq Owned
      /\ n \in Nat /\ Locks \in Nat /\ Factories \in {0, 1} /\ Base \in Nat
      /\ owner \in [Objects -> Clients \cup {Nobody}]
      /\ IsFiniteSet(Live) /\ IsFiniteSet(lockers) /\ IsFiniteSet(factory)
  BY CountIs, Parts, Cards DEF ServerInv, LostInv, TypeOK
<1>2. host' = host /\ Base' = Base
  BY UseTypes
<1>3. SUFFICES count' = Cardinality(Live') + Locks' + Factories' + Base
  BY <1>2 DEF CountIsExact, Live, Locks, Factories, Base
<1>4. lockers' = lockers => Locks' = Locks
  BY <1>2 DEF Locks, LockCounts
<1>5. factory' = factory => Factories' = Factories
  BY <1>2 DEF Factories, FactoryCounts
<1>6. UNCHANGED <<owner, lost>> => Live' = Live
  BY DEF Live, Owned
<1> HIDE DEF n
<1>7. CASE GetClassObject(c)
  <2>1. Factories' = IF FactoryCounts /\ factory = {} THEN Factories + 1 ELSE Factories
    BY <1>1, <1>2, <1>7 DEF GetClassObject, Factories, FactoryCounts
  <2> QED
    BY <1>1, <1>4, <1>6, <1>7, <2>1 DEF GetClassObject, n
<1>8. CASE ReleaseFactory(c)
  <2>1. Factories' = IF FactoryCounts /\ factory = {c}
                     THEN Factories - 1 ELSE Factories
    BY <1>1, <1>2, <1>8 DEF ReleaseFactory, Factories, FactoryCounts
  <2>2. count' = IF FactoryCounts /\ factory = {c} THEN count - 1 ELSE count
    BY <1>8 DEF ReleaseFactory, Drop
  <2> QED
    BY <1>1, <1>4, <1>6, <1>8, <2>1, <2>2 DEF ReleaseFactory, n
<1>9. CASE CreateInstance(c) \/ CreateInstanceFails(c)
  BY <1>1, <1>4, <1>5, <1>6, <1>9 DEF CreateInstance, CreateInstanceFails, n
<1>10. CASE LockServer(c)
  <2>1. Locks' = IF LockCounts THEN Locks + 1 ELSE Locks
    BY <1>1, <1>2, <1>10, FS_AddElement DEF LockServer, Locks, LockCounts
  <2> QED
    BY <1>1, <1>5, <1>6, <1>10, <2>1 DEF LockServer, n
<1>11. CASE UnlockServer(c)
  <2>1. Locks' = IF LockCounts THEN Locks - 1 ELSE Locks
    BY <1>1, <1>2, <1>11, FS_RemoveElement DEF UnlockServer, Locks, LockCounts
  <2>2. count' = IF LockCounts THEN count - 1 ELSE count
    BY <1>11 DEF UnlockServer, Drop
  <2> QED
    BY <1>1, <1>5, <1>6, <1>11, <2>1, <2>2 DEF UnlockServer, n
<1>12. CASE ForgetLock(c)
  <2>1. Live' = Live
    BY <1>12, ModuleAssumption DEF ForgetLock, Live, Owned
  <2> QED
    BY <1>1, <1>4, <1>5, <1>12, <2>1 DEF ForgetLock, n
<1>13. ASSUME NEW o \in Objects, Construct(c, o)
       PROVE  count' = Cardinality(Live') + Locks' + Factories' + Base
  <2>1. Live' = Live \cup {o} /\ o \notin Live
    BY <1>1, <1>13, ModuleAssumption DEF Construct, Live, Owned
  <2>2. Cardinality(Live') = n + 1
    BY <1>1, <2>1, FS_AddElement DEF n
  <2> QED
    BY <1>1, <1>4, <1>5, <1>13, <2>2 DEF Construct
<1>14. ASSUME NEW o \in Objects, Release(c, o)
       PROVE  count' = Cardinality(Live') + Locks' + Factories' + Base
  <2>1. Live' = Live \ {o} /\ o \in Live
    BY <1>1, <1>14, ModuleAssumption DEF Release, Holds, Live, Owned
  <2>2. Cardinality(Live') = n - 1
    BY <1>1, <2>1, FS_RemoveElement DEF n
  <2> QED
    BY <1>1, <1>4, <1>5, <1>14, <2>2 DEF Release, Drop
<1>15. ASSUME NEW o \in Objects, ReleaseProxy(c, o)
       PROVE  count' = Cardinality(Live') + Locks' + Factories' + Base
  <2>1. Live' = Live
    BY <1>1, <1>15 DEF ReleaseProxy, Live, Owned
  <2> QED
    BY <1>1, <1>4, <1>5, <1>15, <2>1 DEF ReleaseProxy, processVars, n
<1> QED
  BY <1>7, <1>8, <1>9, <1>10, <1>11, <1>12, <1>13, <1>14, <1>15
  DEF AnyClient, CreateServerObject, GetNumberCruncher

(* A step that lets something go: if that was the last of a process, its   *)
(* end is decided and nothing is held.                                     *)
LEMMA DropInv ==
  ASSUME ServerInv, NEW c \in Clients, AnyClient(c), Drop,
         Live \cup lockers \cup factory # {},
         Live' \subseteq Live, lockers' \subseteq lockers, factory' \subseteq factory,
         lost' = lost,
         \A x \in Live' \cup lockers' : x \in late => x \in late'
  PROVE  MainInv' /\ LateInv' /\ ArtificialInv'
<1>1. /\ host' = host /\ byHand' = byHand /\ host \in Hosts /\ main' = main
      /\ owner' \in [Objects -> Clients \cup {Nobody}]
      /\ factory' \subseteq Clients /\ lockers' \subseteq Clients
  BY UseTypes DEF Drop
<1>2. CASE Exe /\ count = 1
  <2>1. classes' = "suspended" /\ count' = 0
    BY <1>2 DEF Drop
  <2>2. Live' = {} /\ Base' = 0 /\ lockers' = {}
    BY <1>1, <1>2, <2>1, UseCount, Emptied DEF LockCounts, Exe
  <2>3. main \notin {"absent", "Start", "Register"}
    BY DEF ServerInv, TypeOK, MainInv
  <2>4. MainInv'
    BY <1>1, <1>2, <2>1, <2>3 DEF ServerInv, MainInv, Drop, Exe
  <2>5. LateInv'
    BY <1>1, <1>2, <2>2 DEF ServerInv, MainInv, LateInv, Exe
  <2>6. ArtificialInv'
    BY <1>1, <2>2 DEF Base, ArtificialInv, Artificial
  <2> QED
    BY <2>4, <2>5, <2>6
<1>3. CASE ~(Exe /\ count = 1)
  <2>1. classes' = classes /\ exit' = exit
    BY <1>3 DEF Drop
  <2> QED
    BY <1>1, <2>1 DEF ServerInv, MainInv, LateInv, ArtificialInv, Artificial, Exe
<1> QED
  BY <1>2, <1>3

(* What clients hold anew after the decision is late.                      *)
LEMMA UseLate ==
  ASSUME ServerInv, NEW c \in Clients, AnyClient(c)
  PROVE  MainInv' /\ LateInv' /\ ArtificialInv'
<1>1. /\ host' = host /\ byHand' = byHand /\ host \in Hosts
      /\ main' = main \/ (~Exe /\ main = "absent" /\ main' = "Loaded")
      /\ owner \in [Objects -> Clients \cup {Nobody}] /\ factory \subseteq Clients
      /\ lockers \subseteq factory /\ creating \subseteq factory
      /\ lost \cap Objects \subseteq Owned /\ factory \cap lost = {}
  BY UseTypes DEF ServerInv, TypeOK, LostInv
<1>2. UNCHANGED <<owner, lost>> => Live' = Live
  BY DEF Live, Owned
<1>3. ASSUME classes' = classes, exit' = exit,
             main' \in {"absent", "Start", "Register"} => factory' = {} /\ Live' = {},
             Deciding => Live' \cup lockers' \subseteq late' \cup
                           (IF main = "Unloading" THEN lockers' ELSE {}),
             main = "Unloading" /\ host = "AtlDll" => factory' = {} /\ Live' = {}
      PROVE  MainInv' /\ LateInv' /\ ArtificialInv'
  <2>1. MainInv'
    BY <1>1, <1>3 DEF ServerInv, MainInv, Exe
  <2>2. LateInv'
    <3>1. main' = "Unloading" => main = "Unloading"
      BY <1>1
    <3>2. classes = "suspended" => main # "Unloading"
      BY <1>1 DEF ServerInv, MainInv, Exe
    <3>3. classes = "suspended" \/ main = "Unloading" => Deciding
      BY DEF Deciding
    <3>4. classes' = "suspended" => Live' \cup lockers' \subseteq late'
      BY <1>3, <3>2, <3>3
    <3>5. main' = "Unloading" => Live' \subseteq late'
      <4>1. \A x \in Live' : x \notin Clients
        BY ModuleAssumption DEF Live, Owned
      <4> QED
        BY <1>1, <1>3, <3>1, <3>3, <4>1, UseTypes
    <3> QED
      BY <1>1, <1>3, <3>1, <3>4, <3>5 DEF LateInv
  <2>3. ArtificialInv'
    BY <1>1, <1>3 DEF ServerInv, ArtificialInv, Artificial, Exe
  <2> QED
    BY <2>1, <2>2, <2>3
<1>4. /\ main \in {"absent", "Start", "Register"} => factory = {} /\ Live = {}
      /\ Deciding => Live \subseteq late
      /\ classes = "suspended" => lockers \subseteq late
      /\ main = "Unloading" => ~Exe
      /\ main = "Unloading" /\ host = "AtlDll" => factory = {} /\ Live = {}
      /\ ~Exe => classes = "none"
  BY <1>1 DEF ServerInv, MainInv, LateInv, Deciding, Exe
<1>5. CASE GetClassObject(c)
  <2>1. Live' = Live /\ classes' = classes /\ exit' = exit /\ ~Deciding
    BY <1>2, <1>4, <1>5 DEF GetClassObject, Deciding
  <2>2. main' \notin {"absent", "Start", "Register"} /\ main # "Unloading"
    BY <1>4, <1>5 DEF GetClassObject, ServerInv, MainInv
  <2> QED
    BY <1>3, <2>1, <2>2
<1>6. CASE CreateInstance(c) \/ CreateInstanceFails(c) \/ ForgetLock(c)
  <2>1. Live' = Live
    BY <1>2, <1>6, ModuleAssumption
    DEF CreateInstance, CreateInstanceFails, ForgetLock, Live, Owned
  <2>2. \A x \in Live \cup lockers : x \in late => x \in late'
    BY <1>1, <1>6, ModuleAssumption
    DEF CreateInstance, CreateInstanceFails, ForgetLock, Live
  <2>3. /\ classes' = classes /\ exit' = exit /\ main' = main
        /\ factory' = factory /\ lockers' = lockers
    BY <1>6 DEF CreateInstance, CreateInstanceFails, ForgetLock, processVars
  <2> QED
    BY <1>3, <1>4, <2>1, <2>2, <2>3 DEF Deciding
<1>7. CASE LockServer(c)
  <2>1. Live' = Live /\ UNCHANGED <<classes, exit, main, factory>>
    BY <1>2, <1>7 DEF LockServer, processVars
  <2> QED
    BY <1>3, <1>4, <1>7, <2>1 DEF LockServer, LateIfDeciding, Deciding
<1>8. CASE ReleaseFactory(c)
  <2>1. /\ Live' = Live /\ lockers' = lockers /\ late' = late
        /\ factory' = factory \ {c} /\ c \in factory /\ lost' = lost
    BY <1>2, <1>8 DEF ReleaseFactory
  <2>2. CASE Drop
    BY <1>8, <2>1, <2>2, DropInv DEF AnyClient
  <2>3. CASE UNCHANGED <<host, processVars, count>>
    BY <1>3, <1>4, <2>1, <2>3 DEF processVars, Deciding
  <2> QED
    BY <1>8, <2>2, <2>3 DEF ReleaseFactory
<1>9. CASE UnlockServer(c)
  <2>1. /\ Live' = Live /\ lockers' = lockers \ {c} /\ late' = late \ {c}
        /\ factory' = factory /\ c \in lockers /\ c \notin Live /\ lost' = lost
    BY <1>2, <1>9, ModuleAssumption DEF UnlockServer, Live, Owned
  <2>2. CASE Drop
    BY <1>9, <2>1, <2>2, DropInv DEF AnyClient
  <2>3. CASE UNCHANGED <<host, processVars, count>>
    BY <1>3, <1>4, <2>1, <2>3 DEF processVars, Deciding
  <2> QED
    BY <1>9, <2>2, <2>3 DEF UnlockServer
<1>10. ASSUME NEW o \in Objects, Release(c, o)
       PROVE  MainInv' /\ LateInv' /\ ArtificialInv'
  <2>1. /\ Live' = Live \ {o} /\ o \in Live /\ o \notin lockers
    BY <1>1, <1>10, ModuleAssumption DEF Release, Holds, Live, Owned
  <2>2. /\ lockers' = lockers /\ factory' = factory /\ lost' = lost
        /\ late' = late \ {o} /\ Drop
    BY <1>10 DEF Release
  <2> QED
    BY <1>10, <2>1, <2>2, DropInv DEF AnyClient
<1>11. ASSUME NEW o \in Objects, ReleaseProxy(c, o)
       PROVE  MainInv' /\ LateInv' /\ ArtificialInv'
  <2>1. Live' = Live /\ o \notin Live /\ o \notin lockers
    BY <1>1, <1>11, ModuleAssumption DEF ReleaseProxy, Live, Owned
  <2>2. /\ late' = late \ {o}
        /\ UNCHANGED <<classes, exit, main, factory, lockers>>
    BY <1>11 DEF ReleaseProxy, processVars
  <2> QED
    BY <1>3, <1>4, <2>1, <2>2 DEF Deciding
<1>12. ASSUME NEW o \in Objects, Construct(c, o), Live \cup factory # {}
       PROVE  MainInv' /\ LateInv' /\ ArtificialInv'
  <2>1. Live' = Live \cup {o}
    BY <1>1, <1>12, ModuleAssumption DEF Construct, Live, Owned
  <2>2. UNCHANGED <<classes, exit, main, factory, lockers>>
    BY <1>12 DEF Construct
  <2>3. late \subseteq late' /\ (Deciding => o \in late')
    BY <1>12 DEF Construct, LateIfDeciding
  <2> QED
    BY <1>3, <1>4, <1>12, <2>1, <2>2, <2>3 DEF Deciding
<1>13. ASSUME NEW o \in Objects, CreateServerObject(c, o) \/ GetNumberCruncher(c, o)
       PROVE  Construct(c, o) /\ Live \cup factory # {}
  <2>1. CASE CreateServerObject(c, o)
    BY <1>1, <2>1 DEF CreateServerObject
  <2>2. CASE GetNumberCruncher(c, o)
    <3>1. PICK s \in ServerObjs : Holds(c, s)
      BY <2>2 DEF GetNumberCruncher
    <3>2. s \in Live
      BY <3>1, ModuleAssumption DEF Holds, Live, Owned, Objects
    <3> QED
      BY <2>2, <3>2 DEF GetNumberCruncher
  <2> QED
    BY <1>13, <2>1, <2>2
<1> QED
  BY <1>5, <1>6, <1>7, <1>8, <1>9, <1>10, <1>11, <1>12, <1>13 DEF AnyClient

(* Every step of every client keeps the invariant.                         *)
LEMMA UseInv ==
  ASSUME ServerInv, NEW c \in Clients, AnyClient(c)
  PROVE  ServerInv'
<1>1. /\ host' = host /\ byHand' = byHand /\ host \in Hosts
      /\ main' = main \/ (~Exe /\ main = "absent" /\ main' = "Loaded")
      /\ owner' \in [Objects -> Clients \cup {Nobody}]
      /\ factory' \subseteq Clients /\ lockers' \subseteq factory'
      /\ creating' \subseteq factory'
  BY UseTypes
<1>2. TypeOK'
  <2>1. count' \in 0 .. Cardinality(Objects) + Cardinality(Clients) + 1
    BY <1>1, UseCount, CountTypeNext
  <2>2. classes' \in {"none", "available", "suspended"}
    BY DEF ServerInv, TypeOK, AnyClient, GetClassObject, ReleaseFactory, CreateInstance,
           CreateInstanceFails, LockServer, UnlockServer, ForgetLock, processVars,
           CreateServerObject, GetNumberCruncher, Release, ReleaseProxy, Drop, Construct
  <2>3. notifier' \in BOOLEAN /\ exit' \in BOOLEAN /\ served' \in BOOLEAN
    BY DEF ServerInv, TypeOK, AnyClient, GetClassObject, ReleaseFactory, CreateInstance,
           CreateInstanceFails, LockServer, UnlockServer, ForgetLock, processVars,
           CreateServerObject, GetNumberCruncher, Release, ReleaseProxy, Drop, Construct
  <2>4. late' \subseteq Objects \cup Clients /\ lost' \subseteq Objects \cup Clients
    BY DEF ServerInv, TypeOK, AnyClient, GetClassObject, ReleaseFactory, CreateInstance,
           CreateInstanceFails, LockServer, UnlockServer, ForgetLock, LateIfDeciding,
           CreateServerObject, GetNumberCruncher, Release, ReleaseProxy, Construct
  <2>5. /\ main' \in {"absent", "Start", "Register", "Wait", "Uninit", "Loaded",
                      "Unloading"}
        /\ byHand' \in BOOLEAN
    BY <1>1 DEF ServerInv, TypeOK
  <2> QED
    BY <1>1, <2>1, <2>2, <2>3, <2>4, <2>5 DEF TypeOK
<1>3. LostInv' /\ LosesOnlyLatecomers'
  <2>1. /\ lost \cap Objects \subseteq Owned /\ factory \cap lost = {}
        /\ lost \subseteq CASE host = "AtlDll"   -> {}
                            [] host = "WinRtDll" -> late \cup Clients
                            [] OTHER             -> late
        /\ lockers \subseteq factory /\ owner \in [Objects -> Clients \cup {Nobody}]
    BY DEF ServerInv, LostInv, LosesOnlyLatecomers, TypeOK
  <2>2. /\ factory' \subseteq factory \cup (IF c \in lost THEN {} ELSE {c})
        /\ lost' \subseteq lost
    BY DEF AnyClient, GetClassObject, ReleaseFactory, CreateInstance,
           CreateInstanceFails, LockServer, UnlockServer, ForgetLock,
           CreateServerObject, GetNumberCruncher, Release, ReleaseProxy, Construct
  <2>3. lost' \cap Objects \subseteq Owned'
    BY <2>1, ModuleAssumption
    DEF Owned, AnyClient, GetClassObject, ReleaseFactory, CreateInstance, Holds,
        CreateInstanceFails, LockServer, UnlockServer, ForgetLock,
        CreateServerObject, GetNumberCruncher, Release, ReleaseProxy, Construct
  <2>4. \A x \in lost' : x \in late => x \in late'
    BY <2>1
    DEF AnyClient, GetClassObject, ReleaseFactory, CreateInstance, Holds,
        CreateInstanceFails, LockServer, UnlockServer, ForgetLock, LateIfDeciding,
        CreateServerObject, GetNumberCruncher, Release, ReleaseProxy, Construct
  <2> QED
    BY <1>1, <2>1, <2>2, <2>3, <2>4 DEF LostInv, LosesOnlyLatecomers
<1> QED
  BY <1>2, <1>3, UseCount, UseLate DEF ServerInv

(* ... and so does every step of the server and of COM.                    *)
ModuleStep ==
  \/ Launch \/ Wmain \/ DllCanUnloadNow \/ FreeLibrary
  \/ \E c \in Clients : AnyClient(c)

LEMMA ModuleStepInv == ServerInv /\ [ModuleStep]_vars => ServerInv'
<1> SUFFICES ASSUME ServerInv, [ModuleStep]_vars PROVE ServerInv'
  OBVIOUS
<1>1. CASE Launch \/ SetNotifier \/ AddArtificialReference \/ RegisterServer \/ Wait
             \/ DllCanUnloadNow
  BY <1>1, ServerStepInv
<1>2. CASE StartFails \/ UninitApartment \/ FreeLibrary
  BY <1>2, GoneInv
  DEF StartFails, UninitApartment, FreeLibrary, ServerInv, MainInv, Exe
<1>3. CASE \E c \in Clients : AnyClient(c)
  BY <1>3, UseInv
<1>4. CASE UNCHANGED vars
  BY <1>4 DEF vars, processVars, useVars, ServerInv, TypeOK, CountIsExact, Owned,
     LosesOnlyLatecomers, MainInv, LostInv, LateInv, ArtificialInv, Artificial, Live,
     Exe, LockCounts, FactoryCounts
<1> QED
  BY <1>1, <1>2, <1>3, <1>4 DEF ModuleStep, Wmain

(* What main, its thread, the other clients and the server do to a server  *)
(* are steps of ServerModule.                                              *)
LEMMA NextIsModuleStep == ClientTypeOK /\ PointerInv /\ [Next]_allVars => [ModuleStep]_vars
<1> SUFFICES ASSUME ClientTypeOK, PointerInv, [Next]_allVars PROVE [ModuleStep]_vars
  OBVIOUS
<1>1. Me \in Clients /\ \A c \in Others : c \in Clients
  BY ClientAssumption DEF Others
<1>2. ASSUME NEW c \in Clients, AnyClient(c)
      PROVE  ModuleStep
  BY <1>2 DEF ModuleStep
<1>3. \A o \in Objects : ReleasePointer(o) => AnyClient(Me)
  BY DEF ReleasePointer, AnyClient
<1>4. CASE Main
  <2>1. CASE ActivateGet \/ ActivateCall \/ ActivateConstruct \/ ActivateRelease
               \/ ActivateFails \/ CallGetNumberCruncher
    <3>1. (\E c \in Clients : AnyClient(c)) \/ UNCHANGED vars
      BY <1>1, <2>1 DEF ActivateGet, ActivateCall, ActivateConstruct, ActivateRelease,
         ActivateFails, CallGetNumberCruncher, AnyClient, Objects
    <3> QED
      BY <1>2, <3>1
  <2>2. CASE ReleaseCruncher \/ ReleaseServer
    <3>1. (ReleaseCruncher => cruncher \in Objects) /\ (ReleaseServer => server \in Objects)
      BY DEF ClientTypeOK, PointerInv, WithCruncher, WithServer, ReleaseCruncher,
             ReleaseServer, Goto, Objects
    <3>2. AnyClient(Me)
      BY <1>3, <2>2, <3>1 DEF ReleaseCruncher, ReleaseServer, ReleasePointer
    <3> QED
      BY <1>1, <1>2, <3>2
  <2>3. CASE ComInitialize \/ CoInitializeSecurity \/ ComputePi \/ CreateLocalInstance
               \/ Subscribe \/ Sleep \/ ReleaseCallback \/ Join \/ CoUninitialize
    BY <2>3 DEF ComInitialize, CoInitializeSecurity, ComputePi, CreateLocalInstance,
                Subscribe, Sleep, ReleaseCallback, Join, CoUninitialize
  <2> QED
    BY <1>4, <2>1, <2>2, <2>3 DEF Main
<1>5. CASE Rundown
  BY <1>1, <1>2, <1>3, <1>5 DEF Rundown, AnyClient, Objects
<1>6. CASE \E c \in Others : OtherClient(c)
  BY <1>1, <1>2, <1>6 DEF OtherClient
<1>7. CASE ServerStep \/ Environment
  BY <1>7 DEF ServerStep, Environment, ModuleStep
<1>8. CASE While \/ XmitMessage \/ XmitReturns \/ Crash \/ Terminating
             \/ UNCHANGED allVars
  BY <1>8 DEF While, XmitMessage, XmitReturns, Crash, Terminating, allVars
<1> QED
  BY <1>4, <1>5, <1>6, <1>7, <1>8 DEF Next

-----------------------------------------------------------------------------

(* What the others and the server do leaves Me its objects, and gives it   *)
(* nothing.                                                                *)
Mine == {o \in Objects : owner[o] = Me}

LEMMA MineKept ==
  ASSUME TypeOK,
         \/ \E c \in Others : AnyClient(c)
         \/ Launch \/ Wmain \/ DllCanUnloadNow \/ FreeLibrary
         \/ UNCHANGED vars
  PROVE  /\ Mine' = Mine
         /\ Me \in factory' => Me \in factory
         /\ Me \in creating' => Me \in creating
<1>1. owner \in [Objects -> Clients \cup {Nobody}] /\ Me \in Clients /\ Nobody # Me
  BY ModuleAssumption, ClientAssumption DEF TypeOK
<1>2. ASSUME NEW c \in Others, AnyClient(c)
      PROVE  /\ \A o \in Objects : owner'[o] = Me <=> owner[o] = Me
             /\ Me \in factory' => Me \in factory
             /\ Me \in creating' => Me \in creating
  <2>1. c # Me
    BY DEF Others
  <2>2. Me \in factory' => Me \in factory
    BY <1>2, <2>1 DEF AnyClient, GetClassObject, ReleaseFactory, CreateInstance,
       CreateInstanceFails, LockServer, UnlockServer, ForgetLock,
       CreateServerObject, GetNumberCruncher, Release, ReleaseProxy, Construct
  <2>3. Me \in creating' => Me \in creating
    BY <1>2, <2>1 DEF AnyClient, GetClassObject, ReleaseFactory, CreateInstance,
       CreateInstanceFails, LockServer, UnlockServer, ForgetLock,
       CreateServerObject, GetNumberCruncher, Release, ReleaseProxy, Construct
  <2>4. \A o \in Objects : owner'[o] = Me <=> owner[o] = Me
    BY <1>1, <1>2, <2>1 DEF AnyClient, GetClassObject, ReleaseFactory, CreateInstance,
       CreateInstanceFails, LockServer, UnlockServer, ForgetLock, Holds,
       CreateServerObject, GetNumberCruncher, Release, ReleaseProxy, Construct
  <2> QED
    BY <2>2, <2>3, <2>4
<1>3. ASSUME Launch \/ Wmain \/ DllCanUnloadNow \/ FreeLibrary \/ UNCHANGED vars
      PROVE  owner' = owner /\ factory' \subseteq factory /\ creating' \subseteq creating
  BY <1>3 DEF Launch, Wmain, SetNotifier, AddArtificialReference, RegisterServer, Wait,
     StartFails, UninitApartment, DllCanUnloadNow, FreeLibrary, Gone,
     useVars, vars
<1> QED
  BY <1>2, <1>3 DEF Mine

(* The client part of the invariant: the types of main's own variables,    *)
(* its pointers at each point, and what COM counts as held by it.          *)
OwnTypes ==
  /\ callback \in BOOLEAN /\ subscribed \in BOOLEAN
  /\ xmit \in {"sleep", "round", "call"} /\ result \in {0, 1}
  /\ server \in ServerObjs \cup {Null} /\ cruncher \in Crunchers \cup {Null}
HeldInv == Alive /\ pc # "Dead" => Mine = {server, cruncher} \ {Null}

LEMMA ClientInvIs == ClientInv <=> TypeOK /\ OwnTypes /\ HeldInv /\ PointerInv /\ HoldingInv
BY DEF ClientInv, ClientTypeOK, OwnTypes, HeldInv, Mine

OwnInvNext == OwnTypes' /\ HeldInv' /\ PointerInv' /\ HoldingInv'

(* CoCreateInstance and what comes before it.                              *)
LEMMA ActivateInv ==
  ASSUME ClientInv,
         \/ ComInitialize \/ CoInitializeSecurity
         \/ ActivateGet \/ ActivateCall \/ ActivateConstruct \/ ActivateRelease
         \/ ActivateFails
  PROVE  OwnInvNext
<1> USE DEF OwnInvNext, BeforeServer, WithCruncher, WithServer, AfterServer,
            WithCallback, Goto, Fail, Quiet, pointers, remoteVars
<1>1. /\ OwnTypes /\ HeldInv /\ PointerInv /\ HoldingInv /\ TypeOK
      /\ Me \in Clients /\ Nobody # Me /\ Null \notin Objects
      /\ owner \in [Objects -> Clients \cup {Nobody}]
      /\ creating \subseteq factory
  BY ClientInvIs, ModuleAssumption, ClientAssumption DEF TypeOK
<1>2. OwnTypes'
  BY <1>1 DEF OwnTypes, ComInitialize, CoInitializeSecurity, ActivateGet, ActivateCall,
     ActivateConstruct, ActivateRelease, ActivateFails
<1>3. PointerInv'
  <2>1. CASE ActivateConstruct
    BY <1>1, <2>1 DEF PointerInv, ActivateConstruct, Objects
  <2>2. CASE ActivateRelease
    BY <1>1, <2>2 DEF PointerInv, ActivateRelease
  <2>3. CASE ComInitialize \/ CoInitializeSecurity \/ ActivateGet \/ ActivateCall
               \/ ActivateFails
    BY <1>1, <2>3 DEF PointerInv, ComInitialize, CoInitializeSecurity, ActivateGet,
                      ActivateCall, ActivateFails
  <2> QED
    BY <2>1, <2>2, <2>3
<1>4. HoldingInv' /\ HeldInv'
  <2>0. Alive /\ pc # "Dead"
    BY DEF ComInitialize, CoInitializeSecurity, ActivateGet, ActivateCall,
           ActivateConstruct, ActivateRelease, ActivateFails
  <2>1. CASE ActivateConstruct
    <3>1. PICK o \in ServerObjs : CreateServerObject(Me, o) /\ server' = o
      BY <2>1 DEF ActivateConstruct
    <3>2. o \in Objects /\ owner[o] = Nobody /\ owner' = [owner EXCEPT ![o] = Me]
      BY <3>1 DEF CreateServerObject, Construct, Objects
    <3>3. Mine = {} /\ cruncher' = Null
      BY <1>1, <2>0, <2>1 DEF HeldInv, PointerInv, ActivateConstruct
    <3>4. Mine' = {o} /\ o # Null
      BY <1>1, <3>2, <3>3 DEF Mine
    <3>5. HoldingInv'
      BY <1>1, <2>0, <2>1, <3>1 DEF HoldingInv, ActivateConstruct, CreateServerObject,
                                    Construct
    <3> QED
      BY <3>1, <3>3, <3>4, <3>5 DEF HeldInv
  <2>2. CASE ComInitialize \/ CoInitializeSecurity \/ ActivateGet \/ ActivateCall
               \/ ActivateRelease \/ ActivateFails
    <3>1. owner' = owner /\ server' = server /\ cruncher' = cruncher
      BY <2>2 DEF ComInitialize, CoInitializeSecurity, ActivateGet, ActivateCall,
         ActivateRelease, ActivateFails, GetClassObject, CreateInstance,
         CreateInstanceFails, ReleaseFactory, vars, useVars
    <3>2. HeldInv'
      BY <1>1, <2>0, <3>1 DEF HeldInv, Mine
    <3>3. HoldingInv'
      BY <1>1, <2>0, <2>2 DEF HoldingInv, ComInitialize, CoInitializeSecurity,
         ActivateGet, ActivateCall, ActivateRelease, ActivateFails, GetClassObject,
         CreateInstance, CreateInstanceFails, ReleaseFactory, vars, useVars
    <3> QED
      BY <3>2, <3>3
  <2> QED
    BY <2>1, <2>2
<1> QED
  BY <1>2, <1>3, <1>4

(* The try block.                                                          *)
LEMMA TryInv ==
  ASSUME ClientInv,
         CallGetNumberCruncher \/ ComputePi \/ CreateLocalInstance \/ Subscribe \/ Sleep
  PROVE  OwnInvNext
<1> USE DEF OwnInvNext, BeforeServer, WithCruncher, WithServer, AfterServer,
            WithCallback, Goto, Fail, Quiet, pointers, remoteVars,
            SubscribeThrowsTo
<1>1. /\ OwnTypes /\ HeldInv /\ PointerInv /\ HoldingInv /\ TypeOK
      /\ Me \in Clients /\ Nobody # Me /\ Null \notin Objects
      /\ owner \in [Objects -> Clients \cup {Nobody}]
      /\ Alive /\ pc # "Dead"
  BY ClientInvIs, ModuleAssumption, ClientAssumption
  DEF TypeOK, CallGetNumberCruncher, ComputePi, CreateLocalInstance, Subscribe, Sleep
<1>2. CASE \E o \in Crunchers : GetNumberCruncher(Me, o) /\ cruncher' = o
                                  /\ CallGetNumberCruncher
  <2>1. PICK o \in Crunchers : GetNumberCruncher(Me, o) /\ cruncher' = o
    BY <1>2
  <2>2. /\ o \in Objects /\ o # Null /\ server' = server
        /\ owner[o] = Nobody /\ owner' = [owner EXCEPT ![o] = Me]
        /\ UNCHANGED <<factory, creating>>
    BY <1>1, <1>2, <2>1 DEF CallGetNumberCruncher, GetNumberCruncher, Construct, Objects
  <2>3. pc = "GetNumberCruncher" /\ pc' = "ComputePi"
    BY <1>1, <1>2, <2>1, <2>2 DEF CallGetNumberCruncher, vars, useVars, Construct
  <2>4. Mine' = Mine \cup {o}
    BY <1>1, <2>2 DEF Mine
  <2>5. Mine = {server, Null} \ {Null}
    BY <1>1, <2>3 DEF HeldInv, PointerInv
  <2>6. HeldInv'
    BY <2>1, <2>2, <2>4, <2>5 DEF HeldInv
  <2>7. OwnTypes' /\ PointerInv' /\ HoldingInv'
    BY <1>1, <1>2, <2>1, <2>2, <2>3 DEF OwnTypes, PointerInv, HoldingInv,
       CallGetNumberCruncher
  <2> QED
    BY <2>6, <2>7
<1>3. CASE \/ UNCHANGED <<vars, cruncher>> /\ CallGetNumberCruncher
           \/ ComputePi \/ CreateLocalInstance \/ Subscribe \/ Sleep
  <2>1. UNCHANGED <<vars, server, cruncher>>
    BY <1>3 DEF CallGetNumberCruncher, ComputePi, CreateLocalInstance, Subscribe, Sleep
  <2>2. HeldInv' /\ HoldingInv'
    <3>1. Mine' = Mine /\ UNCHANGED <<factory, creating, server, cruncher>>
      BY <2>1 DEF vars, useVars, Mine
    <3>2. pc \notin {"CreateInstance", "Construct", "ReleaseFactory"}
      BY <1>3 DEF CallGetNumberCruncher, ComputePi, CreateLocalInstance, Subscribe, Sleep
    <3> QED
      BY <1>1, <3>1, <3>2 DEF HeldInv, HoldingInv
  <2>3. OwnTypes'
    BY <1>1, <1>3, <2>1 DEF OwnTypes, CallGetNumberCruncher, ComputePi,
       CreateLocalInstance, Subscribe, Sleep
  <2>4. PointerInv'
    <3>1. CASE UNCHANGED <<vars, cruncher>> /\ CallGetNumberCruncher
      <4>1. pc = "GetNumberCruncher" /\ pc' \in {"ComputePi", "ReleaseServer"}
        BY <3>1 DEF CallGetNumberCruncher
      <4>2. pc' = "ReleaseServer"
        <5>1. ASSUME NEW o \in Crunchers, GetNumberCruncher(Me, o)
              PROVE  FALSE
          BY <1>1, <3>1, <5>1, ModuleAssumption
          DEF GetNumberCruncher, Construct, vars, useVars, Objects
        <5> QED
          BY <3>1, <5>1 DEF CallGetNumberCruncher
      <4> QED
        BY <1>1, <2>1, <3>1, <4>1, <4>2 DEF PointerInv, CallGetNumberCruncher
    <3>2. CASE ComputePi \/ CreateLocalInstance \/ Subscribe \/ Sleep
      BY <1>1, <2>1, <3>2 DEF PointerInv, ComputePi, CreateLocalInstance, Subscribe, Sleep
    <3> QED
      BY <1>3, <3>1, <3>2
  <2> QED
    BY <2>2, <2>3, <2>4
<1> QED
  BY <1>2, <1>3 DEF CallGetNumberCruncher

(* The destructors.                                                        *)
LEMMA DestroyInv ==
  ASSUME ClientInv,
         ReleaseCallback \/ ReleaseCruncher \/ ReleaseServer \/ Join \/ CoUninitialize
  PROVE  OwnInvNext
<1> USE DEF OwnInvNext, BeforeServer, WithCruncher, WithServer, AfterServer,
            WithCallback, Goto, pointers, remoteVars
<1>1. /\ OwnTypes /\ HeldInv /\ PointerInv /\ HoldingInv /\ TypeOK
      /\ Me \in Clients /\ Nobody # Me /\ Null \notin Objects
      /\ owner \in [Objects -> Clients \cup {Nobody}]
      /\ Alive /\ pc # "Dead"
  BY ClientInvIs, ModuleAssumption, ClientAssumption
  DEF TypeOK, ReleaseCallback, ReleaseCruncher, ReleaseServer, Join, CoUninitialize
<1>2. ASSUME NEW o \in Objects, ReleasePointer(o)
      PROVE  Mine' = Mine \ {o} /\ UNCHANGED <<factory, creating>>
  BY <1>1, <1>2 DEF ReleasePointer, Release, ReleaseProxy, Mine
<1>3. OwnTypes' /\ PointerInv'
  <2>1. OwnTypes'
    BY <1>1 DEF OwnTypes, ReleaseCallback, ReleaseCruncher, ReleaseServer, Join,
                CoUninitialize
  <2>2. CASE ReleaseCallback \/ ReleaseCruncher
    BY <1>1, <2>1, <2>2 DEF PointerInv, ReleaseCallback, ReleaseCruncher
  <2>3. CASE ReleaseServer
    BY <1>1, <2>1, <2>3 DEF PointerInv, ReleaseServer
  <2>4. CASE Join \/ CoUninitialize
    BY <1>1, <2>1, <2>4 DEF PointerInv, Join, CoUninitialize
  <2> QED
    BY <2>1, <2>2, <2>3, <2>4
<1>4. CASE ReleaseCruncher
  <2>1. cruncher \in Objects /\ server # cruncher /\ ReleasePointer(cruncher)
    BY <1>1, <1>4, ModuleAssumption DEF ReleaseCruncher, PointerInv, OwnTypes, Objects
  <2>2. Mine' = Mine \ {cruncher} /\ UNCHANGED <<factory, creating>>
    BY <1>2, <2>1
  <2>3. HeldInv' /\ HoldingInv'
    BY <1>1, <1>4, <2>1, <2>2 DEF HeldInv, HoldingInv, ReleaseCruncher
  <2> QED
    BY <1>3, <2>3
<1>5. CASE ReleaseServer
  <2>1. server \in Objects /\ ReleasePointer(server) /\ cruncher = Null
    BY <1>1, <1>5 DEF ReleaseServer, ReleasePointer, PointerInv, OwnTypes, Objects
  <2>2. Mine' = Mine \ {server} /\ UNCHANGED <<factory, creating>>
    BY <1>2, <2>1
  <2>3. HeldInv' /\ HoldingInv'
    BY <1>1, <1>5, <2>1, <2>2 DEF HeldInv, HoldingInv, ReleaseServer
  <2> QED
    BY <1>3, <2>3
<1>6. CASE ReleaseCallback \/ Join \/ CoUninitialize
  <2>1. Mine' = Mine /\ UNCHANGED <<factory, creating, server, cruncher>>
    BY <1>6 DEF ReleaseCallback, Join, CoUninitialize, vars, useVars, Mine
  <2>2. pc \notin {"CreateInstance", "Construct", "ReleaseFactory"}
    BY <1>6 DEF ReleaseCallback, Join, CoUninitialize
  <2>3. HeldInv' /\ HoldingInv'
    BY <1>1, <2>1, <2>2 DEF HeldInv, HoldingInv
  <2> QED
    BY <1>3, <2>3
<1> QED
  BY <1>4, <1>5, <1>6

(* Everything else: the thread, the end by force, the others, the server.  *)
LEMMA AroundInv ==
  ASSUME ClientInv,
         \/ While \/ XmitMessage \/ XmitReturns \/ Crash \/ Rundown
         \/ \E c \in Others : OtherClient(c)
         \/ ServerStep \/ Environment \/ Terminating \/ UNCHANGED allVars
  PROVE  OwnInvNext
<1> USE DEF OwnInvNext, pointers, remoteVars, clientVars, Quiet
<1>1. OwnTypes /\ HeldInv /\ PointerInv /\ HoldingInv /\ TypeOK
  BY ClientInvIs
<1>2. OwnTypes'
  BY <1>1 DEF OwnTypes, While, XmitMessage, XmitReturns, Crash, Rundown, OtherClient,
     ServerStep, Environment, Terminating, allVars
<1>3. PointerInv'
  <2>1. UNCHANGED pointers /\ (pc' = pc \/ pc' = "Dead")
    BY DEF While, XmitMessage, XmitReturns, Crash, Rundown, OtherClient,
       ServerStep, Environment, Terminating, allVars
  <2> QED
    BY <1>1, <2>1 DEF PointerInv, BeforeServer, WithCruncher, WithServer, AfterServer,
                      WithCallback
<1>4. CASE Crash \/ Rundown
  BY <1>2, <1>3, <1>4 DEF Crash, Rundown, HeldInv, HoldingInv
<1>5. CASE \/ While \/ XmitMessage \/ XmitReturns
           \/ \E c \in Others : OtherClient(c)
           \/ ServerStep \/ Environment
  <2>1. Alive /\ UNCHANGED <<pc, pointers>>
    BY <1>5 DEF While, XmitMessage, XmitReturns, OtherClient, ServerStep, Environment
  <2>2. \/ \E c \in Others : AnyClient(c)
        \/ Launch \/ Wmain \/ DllCanUnloadNow \/ FreeLibrary
        \/ UNCHANGED vars
    BY <1>5 DEF While, XmitMessage, XmitReturns, OtherClient, ServerStep, Environment
  <2>3. /\ Mine' = Mine
        /\ Me \in factory' => Me \in factory
        /\ Me \in creating' => Me \in creating
    BY <1>1, <2>2, MineKept
  <2> QED
    BY <1>1, <1>2, <1>3, <2>1, <2>3 DEF HeldInv, HoldingInv
<1>6. CASE Terminating \/ UNCHANGED allVars
  <2>1. UNCHANGED <<vars, pc, pointers>>
    BY <1>6 DEF Terminating, allVars
  <2>2. Alive' = Alive /\ Mine' = Mine
    BY <2>1 DEF vars, useVars, Mine, Alive, Defined, Exe
  <2> QED
    BY <1>1, <1>2, <1>3, <2>1, <2>2 DEF HeldInv, HoldingInv, vars, useVars
<1> QED
  BY <1>4, <1>5, <1>6

IndInv == ServerInv /\ ClientInv

LEMMA InitInv == ClientInit => IndInv
<1> SUFFICES ASSUME ClientInit PROVE IndInv
  OBVIOUS
<1>1. Init /\ Live = {} /\ Owned = {}
  BY DEF ClientInit, Init, Live, Owned
<1>2. CountIsExact
  BY <1>1, FS_EmptySet DEF Init, CountIsExact, Live, Artificial
<1>3. TypeOK
  <2>1. 0 \in 0 .. Cardinality(Objects) + Cardinality(Clients) + 1
    BY Cards
  <2> QED
    BY <1>1, <2>1 DEF Init, TypeOK
<1>4. ServerInv
  BY <1>1, <1>2, <1>3 DEF Init, ServerInv, LosesOnlyLatecomers, MainInv, LostInv,
     LateInv, ArtificialInv, Artificial, Exe, Hosts
<1>5. Mine = {}
  BY <1>1, ModuleAssumption, ClientAssumption DEF Init, Mine
<1>6. OwnTypes /\ HeldInv /\ PointerInv /\ HoldingInv
  BY <1>1, <1>5 DEF ClientInit, Init, OwnTypes, HeldInv, PointerInv, HoldingInv,
     BeforeServer, WithCruncher, WithServer, AfterServer, WithCallback
<1> QED
  BY <1>3, <1>4, <1>6, ClientInvIs DEF IndInv

LEMMA NextInv == IndInv /\ [Next]_allVars => IndInv'
<1> SUFFICES ASSUME IndInv, [Next]_allVars PROVE IndInv'
  OBVIOUS
<1>1. ServerInv /\ ClientInv
  BY DEF IndInv
<1>2. ServerInv'
  BY <1>1, NextIsModuleStep, ModuleStepInv DEF ClientInv
<1>3. OwnInvNext
  BY <1>1, ActivateInv, TryInv, DestroyInv, AroundInv DEF Next, Main
<1>4. TypeOK'
  BY <1>2 DEF ServerInv
<1>5. ClientInv'
  BY <1>3, <1>4 DEF OwnInvNext, ClientInv, ClientTypeOK, OwnTypes, HeldInv, Mine
<1> QED
  BY <1>2, <1>5 DEF IndInv

-----------------------------------------------------------------------------

(* The inductive invariant holds in every reachable state.                 *)
THEOREM Inductive == Spec => []IndInv
BY InitInv, NextInv, PTL DEF Spec

(* Every variable keeps its type, and while main runs what COM counts as   *)
(* held by it is what its pointers point to.                               *)
THEOREM TypeCorrect == Spec => []ClientTypeOK
<1>1. IndInv => ClientTypeOK
  BY DEF IndInv, ClientInv
<1> QED
  BY Inductive, <1>1, PTL

(* The module lock is exact, whichever objects, factories and locks any    *)
(* number of clients get and release.                                      *)
THEOREM Exact == Spec => []CountIsExact
<1>1. IndInv => CountIsExact
  BY DEF IndInv, ServerInv
<1> QED
  BY Inductive, <1>1, PTL

(* A server takes away only what was obtained after its end was decided,   *)
(* and the DLL of WinRT also class factories and locks on them.            *)
THEOREM OnlyLatecomers == Spec => []LosesOnlyLatecomers
<1>1. IndInv => LosesOnlyLatecomers
  BY DEF IndInv, ServerInv
<1> QED
  BY Inductive, <1>1, PTL

(* main leaves COM without an interface pointer, whichever call failed.    *)
THEOREM NothingHeld == Spec => []NothingHeldAtUninitialize
<1>1. IndInv => NothingHeldAtUninitialize
  <2> SUFFICES ASSUME IndInv, pc \in {"CoUninitialize", "Returned"}
               PROVE  /\ server = Null /\ cruncher = Null /\ ~callback
                      /\ Alive => Me \notin factory \cup creating \cup
                                              {owner[o] : o \in Objects}
    BY DEF NothingHeldAtUninitialize
  <2>1. HeldInv /\ PointerInv /\ HoldingInv
    BY ClientInvIs DEF IndInv
  <2>2. server = Null /\ cruncher = Null /\ ~callback
    BY <2>1 DEF PointerInv, BeforeServer, WithCruncher, WithServer, AfterServer,
                WithCallback
  <2>3. Alive => Mine = {} /\ Me \notin factory /\ Me \notin creating
    BY <2>1, <2>2 DEF HeldInv, HoldingInv
  <2> QED
    BY <2>2, <2>3 DEF Mine
<1> QED
  BY Inductive, <1>1, PTL

(* A server that was started by hand with an artificial reference and has  *)
(* come to wait waits for ever: for a count of zero that cannot come.      *)
THEOREM Outlives == Spec => OutlivesClients
<1>1. ASSUME IndInv, [Next]_allVars
      PROVE  [Artificial /\ main = "Wait" => main' = "Wait"]_vars
  <2>1. ServerInv /\ [ModuleStep]_vars
    BY <1>1, NextIsModuleStep DEF IndInv, ClientInv
  <2>2. SUFFICES ASSUME ModuleStep, Artificial, main = "Wait", main' # "Wait"
                 PROVE  FALSE
    BY <2>1
  <2>3. Exe /\ ~exit
    BY <2>1, <2>2 DEF ServerInv, MainInv, ArtificialInv, Artificial, Exe
  <2>4. CASE \E c \in Clients : AnyClient(c)
    BY <2>1, <2>2, <2>3, <2>4, UseTypes
  <2>5. CASE Launch \/ Wmain \/ DllCanUnloadNow \/ FreeLibrary
    BY <2>2, <2>3, <2>5 DEF Launch, Wmain, SetNotifier, AddArtificialReference,
       RegisterServer, Wait, StartFails, UninitApartment, DllCanUnloadNow,
       FreeLibrary, Exe, Artificial
  <2> QED
    BY <2>2, <2>4, <2>5 DEF ModuleStep
<1> QED
  BY Inductive, <1>1, PTL DEF Spec, OutlivesClients
=============================================================================
