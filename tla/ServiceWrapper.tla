--------------------------- MODULE ServiceWrapper ---------------------------
(***************************************************************************)
(* ServiceWrapper/Main.cpp: a Windows service that runs another program as *)
(* its target process.  Two threads of the wrapper share its globals and   *)
(* take their steps in any order: ServiceMain, and the dispatcher thread   *)
(* that calls ServiceCtrlHandler for a control and ends the process once   *)
(* the service is reported as stopped.  The service control manager (SCM)  *)
(* is external: it sends STOP only to a service that accepts it.           *)
(***************************************************************************)
EXTENDS Naturals, Sequences

CONSTANTS
  CommandLines, \* records [exe, rest] of token sequences: argv[0] and arguments
  Space         \* the token for a space; other tokens are runs of other text

ASSUME CommandLineAssumption ==
  /\ Space \in STRING
  /\ \A c \in CommandLines : c.exe \in Seq(STRING) /\ c.rest \in Seq(STRING)

VARIABLES
  cmd,       \* the command line of the service configuration
  args,      \* ServiceMain: position in it, 0 before the loop
  main,      \* where the ServiceMain thread is
  handler,   \* where the STOP control is
  handle,    \* whether g_StatusHandle is set
  status,    \* the dwCurrentState the SCM knows
  event,     \* the stop event behind g_ServiceStopEvent
  hProcess,  \* the handle g_Process.hProcess
  target,    \* the target process
  kill,      \* history: what TerminateProcess did
  wrapper    \* this process

mainVars == <<args, main, handle, hProcess>>
vars == <<cmd, mainVars, handler, status, event, target, kill, wrapper>>

Text(c) == IF c.rest = <<>> THEN c.exe ELSE c.exe \o <<Space>> \o c.rest

Init ==
  /\ cmd \in CommandLines /\ args = 0
  /\ main = "Args" /\ handler = "none" /\ handle = FALSE
  /\ status = "START_PENDING" /\ event = "invalid"
  /\ hProcess = "none" /\ target = "none" /\ kill = "none"
  /\ wrapper = "running"

-----------------------------------------------------------------------------
(* ServiceSetState: SetServiceStatus fails without a handle.  Only the     *)
(* running state is ever reported with SERVICE_ACCEPT_STOP.                *)
ServiceSetState(s) == status' = IF handle THEN s ELSE status

AcceptsStopMutant == status # "STOPPED"
AcceptsStop == status \notin {"START_PENDING", "STOPPED"}

-----------------------------------------------------------------------------
(* ServiceMain.                                                            *)

At(pc) == wrapper = "running" /\ main = pc

(* args is moved behind the first space of the command line; position      *)
(* Len + 1 is the end of the string.                                       *)
StopsAtMutant(k) == k = Len(Text(cmd)) + 1 \/ Text(cmd)[k] = Space
StopsAt(k) == k <= Len(Text(cmd)) /\ Text(cmd)[k] = Space
NextArgMutant(k) == k
NextArg(k) == k + 1
SkipExeName ==
  /\ At("Args")
  /\ \E k \in 1 .. Len(Text(cmd)) + 1 :
       /\ StopsAt(k) /\ \A j \in 1 .. k - 1 : ~StopsAt(j)
       /\ args' = NextArg(k)
  /\ main' = "Register"
  /\ UNCHANGED <<cmd, handle, hProcess, handler, status, event, target, kill, wrapper>>

(* Without a space the loop leaves the string; the access violation ends   *)
(* the process and the SCM sees its service stop.                          *)
ReadPastEnd ==
  /\ At("Args")
  /\ \A k \in 1 .. Len(Text(cmd)) : Text(cmd)[k] # Space
  /\ wrapper' = "crashed" /\ status' = "STOPPED"
  /\ UNCHANGED <<cmd, mainVars, handler, event, target, kill>>

(* A failed registration reports STOPPED through the handle it did not get.*)
RegisterServiceCtrlHandler ==
  /\ At("Register")
  /\ \/ handle' = TRUE /\ main' = "CreateEvent" /\ UNCHANGED status
     \/ UNCHANGED handle /\ main' = "Returned" /\ ServiceSetState("STOPPED")
  /\ UNCHANGED <<cmd, args, hProcess, handler, event, target, kill, wrapper>>

(* The result of CreateEvent is not checked.                               *)
CreateEvent ==
  /\ At("CreateEvent")
  /\ event' \in {"reset", "null"}
  /\ main' = "CreateProcess"
  /\ UNCHANGED <<cmd, args, handle, hProcess, handler, status, target, kill, wrapper>>

CreateProcess ==
  /\ At("CreateProcess")
  /\ target' = "running" /\ hProcess' = "open"
  /\ main' = "SetRunning"
  /\ UNCHANGED <<cmd, args, handle, handler, status, event, kill, wrapper>>

CreateProcessFails ==
  /\ At("CreateProcess")
  /\ ServiceSetState("STOPPED")
  /\ main' = "Return"
  /\ UNCHANGED <<cmd, args, handle, hProcess, handler, event, target, kill, wrapper>>

SetRunning ==
  /\ At("SetRunning")
  /\ ServiceSetState("RUNNING")
  /\ main' = "Wait"
  /\ UNCHANGED <<cmd, args, handle, hProcess, handler, event, target, kill, wrapper>>

(* WaitForMultipleObjects returns for the event first, then for the target *)
(* process; it fails at once on a null event.                              *)
WaitMutant ==
  /\ At("Wait")
  /\ event = "set" /\ main' = "SetStopped"
  /\ UNCHANGED <<cmd, args, handle, hProcess, handler, status, event, target, kill, wrapper>>
Wait ==
  /\ At("Wait")
  /\ \/ event \in {"set", "null"} /\ main' = "SetStopped"
     \/ event = "reset" /\ target = "exited" /\ main' = "SetEvent"
  /\ UNCHANGED <<cmd, args, handle, hProcess, handler, status, event, target, kill, wrapper>>

SetEvent ==
  /\ At("SetEvent")
  /\ event' = "set" /\ main' = "SetStopped"
  /\ UNCHANGED <<cmd, args, handle, hProcess, handler, status, target, kill, wrapper>>

SetStopped ==
  /\ At("SetStopped")
  /\ ServiceSetState("STOPPED")
  /\ main' = "CloseProcess"
  /\ UNCHANGED <<cmd, args, handle, hProcess, handler, event, target, kill, wrapper>>

CloseProcess ==
  /\ At("CloseProcess")
  /\ hProcess' = "closed" /\ main' = "Return"
  /\ UNCHANGED <<cmd, args, handle, handler, status, event, target, kill, wrapper>>

(* The unique_ptr closes an event it holds; g_ServiceStopEvent dangles.    *)
Return ==
  /\ At("Return")
  /\ event' = IF event = "null" THEN "null" ELSE "closed"
  /\ main' = "Returned"
  /\ UNCHANGED <<cmd, args, handle, hProcess, handler, status, target, kill, wrapper>>

ServiceMain ==
  \/ SkipExeName \/ ReadPastEnd \/ RegisterServiceCtrlHandler \/ CreateEvent
  \/ CreateProcess \/ CreateProcessFails \/ SetRunning \/ Wait \/ SetEvent
  \/ SetStopped \/ CloseProcess \/ Return

-----------------------------------------------------------------------------
(* The control handler.                                                    *)

(* The SCM sends STOP and does not send another before this one is done.   *)
SendStop ==
  /\ wrapper = "running" /\ handler = "none" /\ AcceptsStop
  /\ handler' = "Sent"
  /\ UNCHANGED <<cmd, mainVars, status, event, target, kill, wrapper>>

HandlerAt(pc) == wrapper = "running" /\ handler = pc

HandlerSetEvent ==
  /\ HandlerAt("Sent")
  /\ event' = IF event = "reset" THEN "set" ELSE event
  /\ handler' = "SetStopped"
  /\ UNCHANGED <<cmd, mainVars, status, target, kill, wrapper>>

HandlerSetStopped ==
  /\ HandlerAt("SetStopped")
  /\ ServiceSetState("STOPPED")
  /\ handler' = "Terminate"
  /\ UNCHANGED <<cmd, mainVars, event, target, kill, wrapper>>

(* TerminateProcess has no effect through a closed handle.                 *)
TerminateMutant ==
  /\ HandlerAt("Terminate")
  /\ handler' = "Done" /\ kill' = "done"
  /\ UNCHANGED <<cmd, mainVars, status, event, target, wrapper>>
Terminate ==
  /\ HandlerAt("Terminate")
  /\ \/ hProcess = "open" /\ target' = "exited" /\ kill' = "done"
     \/ hProcess # "open" /\ UNCHANGED target /\ kill' = "badHandle"
  /\ handler' = "Done"
  /\ UNCHANGED <<cmd, mainVars, status, event, wrapper>>

CtrlHandler == HandlerSetEvent \/ HandlerSetStopped \/ Terminate

(* StartServiceCtrlDispatcher returns to wmain when the service is stopped *)
(* and no handler runs; the process ends wherever ServiceMain is then.     *)
DispatcherReturns ==
  /\ wrapper = "running" /\ status = "STOPPED"
  /\ handler \in {"none", "Sent", "Done"}
  /\ wrapper' = "exited"
  /\ UNCHANGED <<cmd, mainVars, handler, status, event, target, kill>>

(* The target ends on its own.                                             *)
TargetExits ==
  /\ target = "running"
  /\ target' = "exited"
  /\ UNCHANGED <<cmd, mainVars, handler, status, event, kill, wrapper>>

(* Nothing is left to do, or nobody ever reports the service as stopped.   *)
Terminating ==
  /\ wrapper # "running" \/ (main = "Returned" /\ ~handle)
  /\ UNCHANGED vars

-----------------------------------------------------------------------------

Next ==
  \/ ServiceMain \/ SendStop \/ CtrlHandler \/ DispatcherReturns
  \/ TargetExits \/ Terminating

Spec == Init /\ [][Next]_vars

(* The two threads of the wrapper are scheduled.  The target may run for   *)
(* ever and nobody has to stop the service.                                *)
FairSpec ==
  /\ Spec
  /\ WF_vars(ServiceMain)
  /\ WF_vars(CtrlHandler)
  /\ WF_vars(DispatcherReturns)

-----------------------------------------------------------------------------
(* Properties.                                                             *)

(* Every variable of the wrapper holds a value of its type.                *)
TypeOK ==
  /\ cmd \in CommandLines /\ args \in 0 .. Len(Text(cmd)) + 1
  /\ main \in {"Args", "Register", "CreateEvent", "CreateProcess", "SetRunning",
               "Wait", "SetEvent", "SetStopped", "CloseProcess", "Return",
               "Returned"}
  /\ handler \in {"none", "Sent", "SetStopped", "Terminate", "Done"}
  /\ handle \in BOOLEAN
  /\ status \in {"START_PENDING", "RUNNING", "STOPPED"}
  /\ event \in {"invalid", "null", "reset", "set", "closed"}
  /\ hProcess \in {"none", "open", "closed"}
  /\ target \in {"none", "running", "exited"}
  /\ kill \in {"none", "done", "badHandle"}
  /\ wrapper \in {"running", "exited", "crashed"}

(* The SCM is never told that a stopped service runs again, although two   *)
(* threads report states without a lock.                                   *)
StoppedIsFinal == [][status = "STOPPED" => status' = "STOPPED"]_status

(* When the wrapper is gone its target is gone too, except when the stop   *)
(* event could not be created or when ServiceMain closed the process       *)
(* handle before the handler used it.                                      *)
OrphanOnlyByRace ==
  wrapper # "running" /\ target = "running" =>
    kill = "badHandle" \/ event = "null"

(* A path without spaces: what ServiceMain starts is what the service was  *)
(* configured with, the text behind the wrapper's own name.                *)
StartsConfiguredTarget ==
  target # "none" /\ (\A k \in 1 .. Len(cmd.exe) : cmd.exe[k] # Space) =>
    args = Len(cmd.exe) + 2

(* A STOP, the end of the target and a failed start each end the wrapper.  *)
WrapperEnds ==
  handler = "Sent" \/ target = "exited" \/ (main = "Return" /\ target = "none")
    ~> wrapper # "running"

(* "kill the target process if it's still running (unable to do this from  *)
(* ServiceMain)" (Main.cpp:45): no target runs once STOP has been handled. *)
TargetKilledOnStop == handler = "Done" => target # "running"
=============================================================================
