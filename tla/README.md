# TLA+ specifications of ComSamples

This directory specifies the COM servers of this repository and the programs
around them in TLA+.  TLC checks small instances of each specification; TLAPS
proves the safety properties of all of them except the patch script, for instances
of any size.  Source paths below are relative to the repository.

Contents: [the system](#the-system) ·
[modules](#modules) · [runs](#runs-and-what-they-show) ·
[fairness](#fairness) · [where code and comments disagree](#where-code-and-comments-disagree) ·
[proofs](#proofs) · [what is not covered](#what-is-not-covered) · [plan](#plan)

## The system

The repository shows how to build COM servers and clients in C++ (ATL and
WinRT), C# and Python around one set of interfaces.  A server object has a list
of subscribed clients and calls each of them back every two seconds from a
thread of its own.

| Component | State | Operations | Interacts with |
|---|---|---|---|
| C# server object (`MyExeServerCs/MyServerImpl.cs`, `ComSupport/ComTask.cs`; also in `MyDllServerCs`) | `m_clients` (a `List<IMyClient>` without a lock), `m_active`, `m_task` | constructor, `Subscribe`, `Unsubscribe`, `BroadcastMessage`, `Close`, finalizer | RPC threads call in; the "COM MTA" task calls clients; the finalizer thread waits for the task |
| C# process lifetime (`ComSupport/ComRegister.cs`, `BasicClassFactory.cs`, `ComClass.cs`, `MyExeServerCs/Program.cs`) | `m_active`, `m_obj_cnt`, `m_lock_cnt`, the registered class factory | `RegisterClass`, `CreateInstance`, `LockServer`, `WaitForRefCountsToReachZero`, `Dispose` | Main polls counters that RPC threads and the finalizer thread change |
| ATL server object (`MyExeServerAtl/MyServerImpl.hpp`; also in `MyDllServerAtl`) | `m_clients` (a `std::vector` without a lock), `m_active`, `m_thread` | `raw_Subscribe`, `raw_Unsubscribe`, `ThreadStart`, `BroadcastMessage`, destructor | as for C#, with an iterator kept over each call |
| ServiceWrapper (`ServiceWrapper/Main.cpp`) | `g_StatusHandle`, `g_ServiceStopEvent`, `g_Process` | `ServiceMain`, `ServiceCtrlHandler`, `wmain` | two threads over unprotected globals; the service control manager; the target process |
| Registration (`ComRegister.cs`, `TypeLib.cs`, `support/WinRtUtils.hpp`, `*.rgs`, `UNREGISTER.bat`) | registry keys all servers share: one CLSID, one type library, one AppID | `/regserver`, `/unregserver`, `regsvr32`, the script | each server's command with what the others left behind |
| WinRT servers (`MyExeServerWinRt`, `MyDllServerWinRt`, class factory in `support/WinRtUtils.hpp`) | the module lock, the notifier, the exit event | `wmain`, `DllGetClassObject`, `DllCanUnloadNow`, `CreateInstance`, `LockServer` | clients; COM, which starts, suspends and unloads them |
| ATL module lifetime (`MyExeServerAtl/Main.cpp`, `MyDllServerAtl/Main.cpp`) | the module lock with an artificial reference | the same, in ATL's module classes | the same |
| C++ client (`MyClientCpp/Main.cpp`, `support/ComSupport.hpp`) | three smart pointers, a callback object | `main`, `raw_XmitMessage`, the destructors | one of the four C++ servers and its broadcasting thread |
| ComMarshal (`support/ComMarshal.hpp`, `.cs`) | one agile reference behind a mutex | assign, `Get` | threads of several apartments |
| Server process ID (`support/CoGetServerPID.hpp`, `PIDFromOXID.hpp`) | none that lasts | `GetServerSTDOBJREF`, `GetTcpPortFromOXID`, two table lookups | the server process and all others with sockets |
| TlhFilePatch (`MyInterfaces/TlhFilePatch.py`) | none: functions over lines | patch generated headers | build |
| C# and Python clients, interfaces, Python server | none worth a model | | |

What is hard here:

* **Interleaving.**  No server locks its client list.  RPC threads edit it while
  the broadcasting thread is in the middle of a loop over it, and often inside a
  call to a client that may take long or never succeed.  An index (C#) or an
  iterator (ATL) is kept across that call and used for the removal afterwards.
* **Atomicity.**  The exit condition of the C# process is three reads of three
  counters; the class factory is revoked only after it was found true.
* **Lifetime.**  Objects, locks, factories and one artificial reference share a
  counter whose zero ends a process or lets a DLL go, while factories are still
  out; the counter is decremented before the last destructor has run.
* **Stale answers.**  A process is identified by a port that is looked up in a
  table read in two calls, while sockets come and go.
* **Failure.**  Clients die without `Unsubscribe`; calls fail with errors nobody
  catches; Windows calls of the service wrapper fail; a registration stops
  half-way.
* **Ordering.**  Service states are reported from two threads; a control arrives
  at any moment; five servers write the same keys in any order.
* **Termination.**  Finalizers and destructors wait for the broadcasting thread;
  a process must end once nobody uses it.

What makes each component correct:

* *Server objects*: a broadcast calls each registration at most once; a client
  that failed is the one that is removed; one that is gone is dropped; the list
  is the bag of subscriptions; nothing is undefined (C++); tearing down ends if
  the clients answer.
* *Process lifetime*: the process does not end under a client, nor before its
  first one, and does end when it is unused.  It cannot keep all of this: the
  properties say what it does keep.
* *C++ servers and client*: the counter is exact; a server takes away nothing but
  what came after its decision to go, and does go; the client lets go of
  everything on every way out, and gets out.
* *Server process ID*: the answer is the server's, or there is none; nothing that
  keeps the server alive is left behind.
* *ComMarshal*: threads see one pointer that is assigned in one step.
* *ServiceWrapper*: it starts what it was configured to start, reports STOPPED
  once and for all, ends when it should and leaves no target behind.
* *Registration*: clients activate the server that was registered last, except
  that a DLL left from before goes first; unregistering cleans up.

`PROJECT.json` lists each hazard at its line with the properties that watch it.

## Modules

| Module | Models | Notes |
|---|---|---|
| `Subscriptions` | the promise of `IMyServer.Subscribe` and `.Unsubscribe` in `MyInterfaces.idl` | abstract: a bag of clients |
| `ClientHandler` | the C# server object | implements `Subscriptions` (instance `Bag`) until edits overlap |
| `MCClientHandler` | instances for TLC | |
| `ClientHandlerProofs` | theorems about `ClientHandler` | |
| `RunningServer`, `MCRunningServer` | the C# process lifetime | |
| `RunningServerProofs` | theorems about `RunningServer` | |
| `MyServerAtl`, `MCMyServerAtl` | the ATL server object | implements `Subscriptions` (instance `Bag`) while it is defined |
| `MyServerAtlProofs` | theorems about `MyServerAtl` | |
| `ServiceWrapper`, `MCServiceWrapper` | the service wrapper | |
| `ServiceWrapperProofs` | theorems about `ServiceWrapper` | |
| `Registration` | registry contents under the commands of five servers | its own TLC instances |
| `RegistrationProofs` | theorems about `Registration` | |
| `TlhFilePatch`, `MCTlhFilePatch` | the patch script as functions over lines | reference definition over declarations |
| `ServerModule` | the lifetime of the two C++ processes and the two C++ DLLs | the environment of `MyClientCpp` |
| `MyClientCpp`, `MCMyClientCpp` | `main` of the C++ client | composed with `ServerModule` |
| `MyClientCppProofs` | theorems about `MyClientCpp` and `ServerModule` | |
| `CoGetServerPID`, `MCCoGetServerPID` | from a proxy to the PID of its server | both headers, one after the other |
| `CoGetServerPIDProofs` | theorems about `CoGetServerPID` | |
| `PointerRegister` | what `ComMarshal` promises | abstract: assign and get in single steps |
| `ComMarshal`, `MCComMarshal` | the mutex and the agile reference | implements `PointerRegister` (instance `Register`) |
| `ComMarshalProofs` | theorems about `ComMarshal` | |

The `map` in `PROJECT.json` gives the lines of every definition.  Operators
whose name ends in `Mutant` belong to no specification: each is a plausible
wrong version of the definition behind it, and each property is shown to fail
for one of them.

### ClientHandler

`items` and `size` are the array and the `Count` of `m_clients`.  Because nothing
locks it, `List<T>` is modelled store by store:

* `Add` reads the Count (`Subscribe`), stores the new Count (`AddSize`), stores
  the slot (`AddStore`).  Between the two a reader sees a null slot.
* `Remove` finds an index (`Unsubscribe`) and calls `RemoveAt` (`Found`).
  `RemoveAt` stores the Count (`RemoveSize`), moves the tail (`RemoveShift`),
  clears the last slot (`RemoveClear`).  Between the first two the list is one
  short at the wrong end; a moment later an entry may be in two slots.  Before each
  of them it may read the Count again (`Reread`), long after the check of the index:
  two removals that overlap can take the Count below zero, which every later index
  check, an unsigned comparison, lets through (`InCount`).

`edit[t]`, `at[t]` and `count[t]` say where thread `t` is in such a call and what
it has read.  `torn` is a history variable: it becomes true when two calls that
edit the list overlap.  A single-threaded apartment runs one call at a time
(`Serialized`), but the task is in the multi-threaded one whatever the server's
apartment is, so its `RemoveAt` overlaps with calls in both.

`task` is the program counter of the broadcast: the test of `m_active`, the test
of the Count, the loop condition, the index and start of the call, the call, the
catch block, its `RemoveAt`, the sleep.  `i` and `cur` are its locals, `sent` is
history.  An exception outside the two catch blocks leads to `"Faulted"`, which
is what `ComTask.Run` makes of it.  `fin` is the finalizer in
`ClientHandler.Close`: `"Crashed"` is the exception that `Wait` throws for a
faulted task.  `XmitMessage` has no timeout: `Unanswered` is a task in a call to a
client that is alive, which may stay there for ever.

The contents of a message are left out.  `MaxSubs` bounds the calls, `MaxList`
the array; growth of the array is left out, so its reallocation is not one of
the outcomes an overlap of two `Add` calls may have here.

### RunningServer

`main` is Main's program counter with one step for each of the three reads of
`WaitForRefCountsToReachZero`.  A registration that fails throws out of Main
(`RegisterFails`).  An object goes through `stage`: constructed (the base class
counts it), started (its broadcast task runs), active (`m_active` is set), held by a
client, garbage, finalized.  An activation may fail after the constructor; the object
is garbage then and was never `served`.  The lock count has no guard against an
unlock without a lock, so that it may be negative (`UnlockServer`), and a process in
which it stays so never ends.

One finalizer thread runs finalizers one after another, and that of a server object
waits for its task.  If the task has faulted the wait throws, which ends the process
(`"crashed"`) with all that clients hold.  A task is a foreground thread: one of an
object that nobody collects after Main has left its loop keeps the process alive.
`late` and `lateLock` remember what came after the read that let Main go on.

### MyServerAtl

The vector is its contents, its capacity and the number of its buffer; an
iterator is a position in a buffer.  Undefined behaviour (using the vector while
another thread edits it, an iterator into a freed buffer or behind the end, an
element that is released during the call through it) sets `object` to
`"undefined"`, and the model then stops: nothing can be said of the program from
there on.  Capacities grow as in Visual C++.  `sent` and `raced` are history: what the
broadcast has called, and whether an edit came into it.

### ServiceWrapper

`main` and `handler` are the program counters of the two threads.  The model has
the closing of handles, the loop that looks for the target in the command line, over
token sequences, and the failures of the calls the code checks
(`RegisterServiceCtrlHandler`, `CreateProcess`) and of three that it does not
(`CreateEvent`, and with a handle that is null or closed `WaitForMultipleObjects` and
`TerminateProcess`).  `SetEvent`, `SetServiceStatus` and the closing of a handle are
taken to work on a valid handle.

### Registration

The shared keys with, for each, the server it points to.  A command is the list
of its changes; changes are applied one at a time and some throw (deleting a
value that is missing, deleting a key with subkeys), which ends the command; any
command may be cut short.  `UNREGISTER.bat` is a list too, of `reg delete` commands
that fail without consequence (`RegDelete`): one that fails is taken to delete
nothing.  `cutShort` is true from the first change that was left out until the script
starts, and `writers` are the servers whose commands ran since the script last ended
without a failure.

The clients leave the choice of a server to COM (`CLSCTX_ALL`), which takes a DLL
before an EXE of the same class.  `Activated` is the server they get.

### TlhFilePatch

A line is its kind and a name; the text of a body does not matter.  Each Python
function is a step of `PatchTlhFile`, its loops are folds over the lines.  The
input is built from whole declarations and quotations, which only the properties
see: they say what should become of each declaration (`Expected`), the script has
to find it line by line.

### ServerModule

One of four hosts.  `count` is the module lock (`winrt::get_module_lock`, or ATL's
`m_nLockCnt`; in a process both are COM's process reference count).  What counts
differs and is what the code says: every object; `LockServer` and the class
factory of ATL in a DLL (one class object for all clients, which counts once
while any of them has it); but neither of them in `ClassFactory` of
`WinRtUtils.hpp` (`FactoryCounts`, `LockCounts`).  In a process it is COM's proxy
stub that counts locks, so that they do count.  Clients are taken to undo only their
own locks (`UnlockServer`): objects and locks share one counter, so that an unlock
too many takes an object's place in it, and nothing below would hold.

`main` is `wmain` of an EXE, which may fail before it has registered its class object
(`StartFails`), or `"Loaded"` and `"Unloading"` of a DLL (`DllGetClassObject` and
`DllCanUnloadNow` of both).  When the
count of a process drops to zero COM suspends its class objects, and the notifier
sets the exit event (`Drop`); a client that has the factory already may still
create an object before the process is gone.  `late` remembers what came after
that decision, `lost` what was held when the server went.  A DLL that is gone
under a pointer leaves nothing to say (`Defined`), a process leaves proxies that
fail.

`AnyClient` is a client that uses the interfaces in any order.

### MyClientCpp

`pc` goes through `main`; every call has the outcomes it has in the code, and a
failure continues with the destructors of what exists by then, in their order
(`Fail`).  `CoCreateInstance` is its three calls of the class factory.  The client
uses the actions of `ServerModule` as client `Me`; other clients do anything.  If
the server implements `Subscribe`, its thread calls `raw_XmitMessage` at any time;
the last `Release` waits for that thread (`Join`) after ATL has decremented the
module lock.  An abort or crash of a client process leaves its references to COM,
which releases them (`Rundown`).  In a DLL it takes the server with it.

COM unloads a DLL of the multi-threaded apartment ten minutes after it became
unused; the model has that delay only as "not while the client is in `Join`".

### CoGetServerPID

The caller's calls in sequence, with the result of the last one in `hr` and what
is allocated and has no destructor in `held`.  A byte has `Byte` values and a port
and the PID field two of them; a string binding is a sequence in which a port
number is one character.  `UseObjref` is a caller that takes the PID when it is
valid and goes on with the OXID when it was clamped.  The TCP tables of IPv4 and
IPv6 are taken to list the same sockets.  Meanwhile other processes open and close
sockets, and the server may end.  A buffer that has become too small is an error
of the second call.  `Seek` and `CoReleaseMarshalData`, whose results the code does not
look at, may fail: the reference in the bytes is then COM's to clean up
(`"left to COM"`).  `ntohs` takes 16 bits, whatever it is given.

### ComMarshal

One action per step between lock and unlock.  `PointerRegister` has two actions:
`Assign` happens when the old reference is cleared, `Get` when the reference is
resolved or found empty.  The refinement mapping takes the value an assignment
is about to marshal for the one of the register.  `abort()` stops everything.

## Runs and what they show

| Run | Instance | Checks |
|---|---|---|
| `ch_mta` | two clients, `c1` may subscribe twice and `c2`, which may die or fail, once; array of 3; multi-threaded apartment | types and bounds; `CalledOncePerRound`; `FaultsForReason`; `BagUntilTorn`: until two edits overlap the list is the bag of subscriptions, with a broadcast reading it all the time |
| `ch_close` | the same clients, once each; array of 2; a call may never be answered | `CloseTerminates`; `DisconnectedDropped` |
| `ch_wrong_client` | the clients and the array of `ch_mta`; single-threaded apartment | a finding |
| `running` | three objects, a lock count of -1 to 1 | `EndMissesOnlyNewcomers`, `NoExitBeforeFirstClient`, `ExitsWhenUnused` |
| `atl` | two clients that subscribe twice each, may both fail, and may leave a call unanswered | `UndefinedOnlyByRace`, `ErasesCalledUnlessRaced`, `CalledOncePerRound`, `CallsAllUnlessRaced`, `DestructorReturns` |
| `service` | three spellings of the wrapper's path, a target with and without argument, no target | `OrphanOnlyByRace`, `StartsConfiguredTarget`, `StoppedIsFinal`, `WrapperEnds` |
| `service_stop` | same | a finding |
| `registration` | five servers, up to four commands, the script among them | `LoneServerCleansUp`, `RegisteredIsFound` |
| `client_server` | the client and one other client, two server objects, one number cruncher, four hosts | `CountIsExact`, `LosesOnlyLatecomers`, `NothingHeldAtUninitialize`, `OutlivesClients`, `ClientEnds`, `ServerEndsAfterClients` |
| `server_pid` | a byte of two values, two PIDs that fit and two that do not, two other sockets | `PidIsTheServers`, `ListedIsFound`, `ResourcesGivenBack` |
| `com_marshal` | three threads, two pointers | `ImplementsRegister` |
| `tlh_patch` | up to three of seven declarations, up to three of eight quotations, three paths | `ChangesApplied`, `GeneratedKept`, `RaisesForReason` |

Why the bounds are enough:

* Calls that are not answered need no registration twice, so `ch_close` is smaller
  than `ch_mta`; two removals that overlap already give it a Count below zero.
* Two clients and three registrations give every overlap of two edits and the
  broadcast, a client that is in the list twice, and a list in which an entry
  before, at and behind the broadcast's index is removed.  A third client adds
  only more of the same threads; the theorems hold for any number.
* Three objects are a server object, a second one whose activation races with
  Main, and a number cruncher, or three in a row behind one finalizer.
* In the ATL vector, capacities 1, 2, 3 and 4 are passed, each with a new buffer.
* Four commands are enough for two servers to register and unregister, each cut
  short or not, or for the script to run between their registrations; five servers
  are all there are.
* The service wrapper has no bound except its command lines.
* Two clients of a C++ server are the one with `main` and one that may keep it
  alive, race with its end or lock it; a second server object is what makes the
  last release of one of them not the last of all.
* A byte of two values gives the PID field four: two that fit, the clamp itself
  and one above; two other sockets are one that has the server's port and one
  that makes the table grow between its two reads.
* Three threads are one inside the lock, one that waits for it and one that
  assigns in between.
* The patch script looks at a line, the one above it and the nearest end below:
  three declarations or quotations give each of them a neighbour on either side.

What the runs say about the code:

* **C# broadcast.**  No registration is called twice in a broadcast as long as
  edits do not overlap *each other*; overlaps of an edit with the broadcast are
  harmless in this respect.  Without the condition TLC finds a
  counterexample.  `Close` returns, with an exception if the task has faulted,
  unless a client never answers the call it is in: nothing else can keep it.  With the
  same exception a dead client is dropped for good, or the task is over.
* **C# list.**  The list is the promised bag until two edits overlap, whoever fails
  (`BagUntilTorn`).  With `[MTAThread]`, which `Program.Main` has, it is not for good:
  two clients that subscribe at once read the same Count and store into the same slot
  (with `ImplementsSubscriptions` on this instance TLC finds it).  It would be if RPC
  calls were serialized and no client failed (`Implementation`, proved).
* **C# lifetime.**  What the process takes away when Main returns was created after
  Main's last read of the counter.  One other end takes away everything: the
  finalizer of an object that nobody holds any more throws because its broadcast task
  has faulted (without its second disjunct TLC finds `EndMissesOnlyNewcomers` violated),
  although `Program.cs:52` says "terminate process after last client disconnect".  A
  process that has not handed out an object, or whose
  first object is not finalized, does not return from Main.  One that is unused ends,
  unless a client never answers the call that a finalizer waits for, an activation that
  came too late for Main left a task that nobody stops, or somebody unlocked once too
  often.
* **C++ lifetime.**  A process only takes away what was created through a factory
  from before its count was zero.  The DLL of ATL takes away nothing.  That of
  WinRT never goes under an object from before COM's last `DllCanUnloadNow`, but
  may go under one that was created through a factory right after it, and under a
  client that only has the factory or a lock on it.  Started by hand, the ATL
  server stays once it waits, whatever clients do; otherwise a server process ends
  once it has served and the others are done, however this client ended.
* **C++ client.**  No failure leaves an interface pointer behind, and the join in
  the last release does not wait for itself.
* **Server process ID.**  The only wrong answer is one about a server that has
  ended and whose port another process has taken.  A server that still listens is
  found once the table could be read, and so is one that is in the table.  The
  reference in the marshalled bytes is always given back, as far as COM takes it; the
  string bindings never are.
* **ComMarshal.**  It is a register, for any number of threads (proved).
* **ATL.**  A client whose call fails with an error other than
  `RPC_S_SERVER_UNAVAILABLE` stays in the vector and is called in every round
  (`CatchOther`), also when it will never answer.  The walk with `erase` is sound
  by itself; all undefined behaviour needs an edit in the same broadcast.  Without one
  nobody is left out, the client behind an erased one neither.  As long as all is
  defined the vector is the promised bag, in a multi-threaded apartment (proved).
  The join of the destructor ends unless a client never answers (`DestructorReturns`).
* **Service.**  An orphaned target needs a failed `CreateEvent` or the one race
  on the handle.  The path of the target is found if the wrapper's own path has
  no space.
* **Registration.**  Nothing a registration meets makes it throw, and a server
  that is alone cleans up.  After a registration that was cut short, or next to
  another server, `/unregserver` of the C# server may throw before it has deleted
  `LocalServer32` (`Throws`).  Clients then activate whoever is registered next
  (`RegisteredIsFound`), but not the C# or the WinRT EXE if the DLL of another server is
  still registered: those two leave `InprocServer32` alone, and only an `UNREGISTER.bat`
  in which no deletion failed, or the `/unregserver` of another server, gets one out of
  there.
* **Patch script.**  It does what its header says for quotations it is written
  for (`Regular`).  For others (a function on one line, two functions of one
  enumeration, a brace on a line of its own that closes something else, a comment
  on the last line and a function on the first) it may lose or misplace quoted
  functions, but never a generated line.  The quotations in `MyInterfaces.idl` are
  regular.

`CHECK_DEADLOCK` is on everywhere: the end states have explicit `Terminating`
steps, so any other state without a successor is an error.

## Fairness

* `ClientHandler`, `MyServerAtl`: weak fairness of each RPC thread *inside* a
  call, of the broadcasting thread except in a call to a client that is alive (C#) or
  any client (ATL), and of the wait for it.  They are operating system threads that are
  runnable.  Nothing makes a client answer, since the calls have no timeout; the call
  to a C# client that is gone ends with an RPC error.  Clients need not call, release
  or die, and the garbage collector need not run.
* `RunningServer`: weak fairness of Main, of activations in progress and of
  the finalizer thread, which starts a finalizer only while Main is in its loop: that
  loop calls `GC.Collect()` every round, and nobody does when it is over.  A task need
  not end.
* `ServiceWrapper`: weak fairness of its two threads.  The target may run for
  ever; the service control manager need not send anything.
* `MyClientCpp`: weak fairness of `main`, of the call that is going on in the
  callback, of `wmain` and of COM's cleanup after a dead client.  The callback is
  `raw_XmitMessage` of this client, which prints and returns.  The other client
  need not do anything, and COM need not unload a DLL.  `ClientEnds` needs no
  fairness of others: each call of `main` returns, if only with a failure.

Strong fairness is not used.

## Where code and comments disagree

Each has a run in which TLC finds the counterexample.

* `ch_wrong_client` – `MyServerImpl.cs:49` "Will disconnect clients on RPC
  failure": `RemoveAt(i)` after the call removes whatever is at `i` by then.  In
  the list `a, b, a`, client `a` unsubscribes its first entry during a failing call to
  `b`: its second one is removed and `b` stays.
* `service_stop` – `ServiceWrapper/Main.cpp:45` "kill the target process if it's
  still running": the stop event is set first, so `ServiceMain` can close the
  process handle before it is used.

## Proofs

One module of proofs per component, each for every value of the constants.  The
only assumptions are the named `ASSUME`s of the modules: sets of clients or objects
are finite where they are counted, bounds are numbers, and the values that stand for
"nothing" are no values of anything.  What the runs check as invariants and action
properties is a theorem here, except for the patch script, and a few properties are
stated for the proofs alone (marked *):

| Module | `Spec => []...` | `Spec => ...` |
|---|---|---|
| `ClientHandlerProofs` | `TypeOK`, `EntryInv`* | `CalledOncePerRound`, `FaultsForReason`, `BagUntilTorn`, `RemovesCalledUnlessMoved`*; `ImplementsSubscriptions`* for `Apartment = "STA"` and `Failing = {}` |
| `RunningServerProofs` | `TypeOK`, `EndMissesOnlyNewcomers`, `NoExitBeforeFirstClient` | |
| `MyServerAtlProofs` | `TypeOK`, `UndefinedOnlyByRace` | `ErasesCalledUnlessRaced`, `CalledOncePerRound`, `CallsAllUnlessRaced`, `ImplementsSubscriptions`* |
| `ServiceWrapperProofs` | `TypeOK`, `OrphanOnlyByRace`, `StartsConfiguredTarget` | `StoppedIsFinal` |
| `RegistrationProofs` | `TypeOK`, `RegisteredIsFound`, `LoneServerCleansUp` | |
| `MyClientCppProofs` | `ClientTypeOK`, `CountIsExact`, `LosesOnlyLatecomers`, `NothingHeldAtUninitialize` | `OutlivesClients` |
| `CoGetServerPIDProofs` | `TypeOK`, `PidIsTheServers`, `ListedIsFound`, `ResourcesGivenBack` | |
| `ComMarshalProofs` | `TypeOK`, `Exclusive`* | `ImplementsRegister` |

Hardly any of these is inductive as it stands.  In all modules but the last `IndInv` is the
strengthening, a conjunction of named parts; `InitInv` and `NextInv` show that it
holds at the start and is kept, with a lemma per action or group of actions, and
`Inductive` is `Spec => []IndInv`.  TLC has checked each `IndInv`, and what is proved
beside it, on the instances above: add the name to the `.cfg` and give `Nat` a bound in
`Fresh`.  It checks the properties marked * in the same way, on `ch_mta` (with
`Apartment = "STA"` and `Failing = {}` for `ImplementsSubscriptions`) and `atl`; they
are in no run because the theorems say more.

### ClientHandlerProofs

For every set of clients, every `MaxSubs` and `MaxList`, and both apartments.
`TypeOK` needs `Bounds` (the slot an `Add` will store to is inside the array
although the Count has moved, a `RemoveAt` in progress has seen a positive Count,
the broadcast's index is inside while it is used), and `CalledOncePerRound` needs to
know where the registrations called so far can be.  `IndInv` has two parts:

* `TypeInv`, whatever overlaps: `TypeOK`, `Bounds`, and `Fresh`: a registration
  whose `Add` has not stored it is in no slot and was not called.
* `SoloInv`, while `torn` is false: `Solo` (one edit at a time, and what it has
  read is still so), `Tail` (slots behind the list are null), `Unique` (no
  registration is in two live slots) and `SentBehind` (what was called in this
  broadcast is behind its index, or at it during the call and the removal).

The argument is that entries move only towards the front.  The delicate step is
`RemoveShift`: Count and tail are out of step before it, so the slots in use are
not those below the Count.  `Live` counts the slot that the Count has already
given up; with it `Unique` and `SentBehind` survive each single store.  When the
task removes the entry at its own index, `SentBehind` gets strict at the shift,
not at the end, which is what the loop needs when it goes on with the same index.

`EntryInv` is a second invariant, on top of the first, about the entries while `torn` is
false: the list has no holes except for the slot of an `Add` in progress (`Filled`),
what a removal is about to take is an entry, of the caller if a client removes
(`Sought`), and the slot it will clear is in the array (`Room`).  From it follow:

* `Faults`: the three ways in which a broadcast can fail while edits overlap with it
  but not with each other.  A null slot needs an `Add` between its two stores, at the
  last index; an index that is too large needs a removal after the loop condition.
* `UntilTorn`, the refinement of `Subscriptions` for as long as it can last, in both
  apartments and with clients that fail.  `Mine(c)` are the slots that count for
  client `c`.  There is one lemma for each store: `AddStore` adds a slot to one
  `Mine`, `RemoveSize` takes one from the owner of the entry, which for a catch block
  may be any client, `RemoveShift` is a bijection between the slots before and after,
  and the others leave the sets alone.  `OneMore` and `OneLess` turn one slot more or
  less into a step of the bag.
* `Implementation`, the refinement without an end, for `[STAThread]` and no failing
  clients.  These are the conditions under which edits never overlap (`StaInv`): a
  multi-threaded apartment runs calls side by side, and a catch block removes
  whenever it has to.

`RemovesCalled` is what is left of the comment that run `ch_wrong_client` refutes: if
a catch block removes a client that did not fail, the entry of the one that did is not
behind the index any more.  It takes `SentBehind` and that what failed was called.

### RunningServerProofs

`CountInv`: `m_obj_cnt` is the number of objects that are constructed and not
finalized (`Counted`), at every step of every activation, of the finalizer and of
Main.  With it a read of zero means that there is no object at that moment, and
`LateInv` carries this on: whatever is counted while Main goes on is in `late`.
`ServedInv` ties `m_active` to an object that is about to be handed out or was:
together with a count of zero it has been finalized.  `EndInv` says how each of the
three ends of the process comes about; the failed registration is harmless because
nobody could reach the factory (`Unreached`).

### MyServerAtlProofs

Two arguments.  While no edit came into a broadcast (`CleanInv`) its iterator is in
the current buffer, before the end where it is used, and at the client in the call.
Whatever edits come while all is still defined, `SentInv` says that what was called
is before the iterator, because `push_back` adds at the end and `erase` moves
elements forward only; `FreshInv` and `UniqueInv` say that what is added was not
there before.  `RemoveAtIs` is what `vector::erase` does to each position.

`CallsAll` adds `SweptInv` to the invariant: in a broadcast without an edit everything
before the iterator has been called.  The step to look at is `CatchErase`, where the
next element comes to the iterator instead of the iterator to it.

`Implementation` is the refinement of `Subscriptions`, with no condition on constants:
the states in which it would fail are undefined, and there the model stops.
`Positions(c)` takes the place of `Mine(c)`; `push_back` adds the position behind the
end, and `RemovedPositions` is the bijection between what an `erase` leaves and where
it was.  The catch block erases at the iterator, which is an element
of *some* client even when the vector has shifted: still an `Unsubscribe`, of that
client.

### ServiceWrapperProofs

`StartInv` says what cannot have happened before `RUNNING` is reported, `StopInv`
who has set the stop event and what is left of the target at each point of both
threads.  `ArgsInv` is where the search for the arguments stops; it rests on
`FirstSpace`, which is about sequences of tokens of any length.

### RegistrationProofs

The invariants relate the registry to `todo`, the changes the running command has
still to make.  `RegisterInv`: every entry a client needs is the server's and will not
be cleared any more, or will be set, with nothing that clears it behind.
`ModuleInv` is why only a DLL of `writers` can come before an EXE: whoever is present
has written since the last script that did not fail (`BatInv`: it has all that is there
still to delete), an `InprocServer32` is a DLL's, and the EXE of ATL clears it.  For a
server that is alone (`LoneInv`): everything present will be removed, subkeys before
their key, and the value that `DeleteValue` wants is there, which is the only way
the command of the C# server could throw.  The table of each command is unfolded once, in
a lemma; the rest is about what is in front of `todo` and what is behind.

### MyClientCppProofs

`ServerInv` is kept by every step of the server and of any client, and is proved
without `main` of the client: the lock is exact, a suspended class object or an
unloading DLL leaves only what is `late`.  Each step that gets or releases something
changes one cardinality of the sum by one.  `ClientInv` says for each value of `pc`
which pointers are set and whether the client may have the factory, on the way
through the failures, too.

### CoGetServerPIDProofs

`OwnerInv`: nobody else listens on the server's port for any address while the
server runs.  `TableInv`: so a table of one moment that lists the server lists no
other process that listens for any address on that port.  Between the two are the conversions: `PortReadBack`
proves that the port taken from the text and the port read from the row in network
byte order are the same number, for every `Byte`, and `LocalPortIs` that the text is
cut at the right places.  `HeldInv` is what is allocated at each call.

### ComMarshalProofs

`TypeOK` and `Exclusive` are inductive together: the first says that the mutex is
free exactly when nobody is inside, the second whose it is and what that thread
knows of the reference.  For the refinement, `MarshallingIsOne` makes the `CHOOSE` of
the mapping name the only thread it can; a step that touches neither the reference
nor a marshalling thread maps to a stutter, and there is one step of the proof for
each of the others.

### Only model-checked

* Liveness (`CloseTerminates`, `DisconnectedDropped`, `DestructorReturns`,
  `ExitsWhenUnused`, `WrapperEnds`, `ClientEnds`, `ServerEndsAfterClients`): the
  prover does not reason about fairness.
* `ChangesApplied`, `GeneratedKept` and `RaisesForReason` of the patch script: they
  are about folds over lines, which would take induction over the data.
* The two findings, which are counterexamples.

## What is not covered

* Growth of the C# list's array, and the copy of its tail element by element.
* In `TlhFilePatch`, the header of the file that `remove_header` cuts off and the frame
  that is cut off every `cpp_quote`: text that nothing else depends on.
* Clients of the C++ servers that undo a lock they do not have; a `reg delete` that
  deletes a part of its key; a path of the service wrapper that contains spaces, for
  which the search for the target stops inside the path (`StartsConfiguredTarget` has it
  in its premise); the registration of the control handler failing, after which the
  wrapper never reports an end (`WrapperEnds` does not speak of it).
* Message contents, wording, console output.
* The Windows and .Net runtime beyond what the code shows of it: activation,
  RPC, garbage collection and the registry are environment actions, marked
  external in the map.
* ATL's and WIL's own classes: what the module lock, the notifier and the class
  factories do is modelled from how the code uses them and marked external.
* A thread that is still in the tail of `Release` when its DLL is unloaded, and the
  delay with which COM prevents it; CreateInstance with an outer object.
* A single-threaded apartment that enters ComMarshal's mutex again from a call it
  serves while it waits in `Resolve`.
* `ToStdVector` leaves the array to its destructor, which would free what belongs
  to the caller, if there is no memory for the copy.  Running out of memory is not
  modelled there.
* `GetClientProcessID`: one call of Windows.  `ComMarshal.cs`: one comparison.
* The C# and Python clients, interface declarations, the Python server: they keep
  no state, or only one straight line of calls, and release by garbage collection.
  They are the environment of the server modules.

## Plan

Done, in this order: `Subscriptions`, `ClientHandler`, `ServiceWrapper`,
`RunningServer`, `MyServerAtl`, `Registration`, `ClientHandlerProofs`,
`TlhFilePatch`, `ServerModule`, `MyClientCpp`, `CoGetServerPID`,
`PointerRegister`, `ComMarshal`, `ComMarshalProofs`, `ServiceWrapperProofs`,
`MyClientCppProofs`, `RunningServerProofs`, `MyServerAtlProofs`,
`RegistrationProofs`, `CoGetServerPIDProofs`, and the refinement in
`ClientHandlerProofs`.

`BagUntilTorn`, `FaultsForReason`, `RemovesCalledUnlessMoved`, and the refinement and
`CallsAllUnlessRaced` of `MyServerAtl` came last, with their proofs.

What could follow:

1. `CallsAllUnlessRaced` for the C# list, which takes a history variable for edits
   during a broadcast.
2. The lemmas that proof modules share (a sequence without one element, the
   cardinality of a set that gains or loses one) in one place.

A composition of `RunningServer` with a `ClientHandler` for each object, so that
`TaskEnds` and `TaskFaults` are those of the handler, is left out: its states are
the product of both, and what the one needs of the other is `CloseTerminates`.
