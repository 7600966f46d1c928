------------------------- MODULE ServiceWrapperProofs -------------------------
(***************************************************************************)
(* ServiceWrapper for every set of command lines: the reported states, the *)
(* target that may be left behind, and the target that is started.         *)
(***************************************************************************)
EXTENDS ServiceWrapper, SequenceTheorems, TLAPS

(* Before ServiceMain has reported RUNNING the SCM sends nothing.          *)
Starting == {"Args", "Register", "CreateEvent", "CreateProcess", "SetRunning"}
Stopping == {"SetStopped", "CloseProcess", "Return", "Returned"}

StartInv ==
  /\ main \in Starting => handler = "none"
  /\ main \in Starting /\ wrapper = "running" => status = "START_PENDING"
  /\ main \in Starting \ {"SetRunning"} => target = "none"
  /\ wrapper = "crashed" => target = "none"

(* Whoever has set the stop event: the handler, or ServiceMain after the   *)
(* target has ended.                                                       *)
HandlerRuns == handler \in {"SetStopped", "Terminate", "Done"}
StopInv ==
  /\ event = "set" => HandlerRuns \/ target = "exited"
  /\ main = "SetEvent" => target = "exited"
  /\ main \in Stopping => HandlerRuns \/ target \in {"none", "exited"} \/ event = "null"
  /\ wrapper = "running" /\ status = "STOPPED" =>
       handler \in {"Terminate", "Done"} \/ main \in Stopping
  /\ handler = "Done" => kill = "badHandle" \/ target = "exited"

(* ServiceMain has left argv[0] behind it.                                 *)
PlainPath == \A k \in 1 .. Len(cmd.exe) : cmd.exe[k] # Space
ArgsInv == main # "Args" /\ PlainPath => args = Len(cmd.exe) + 2

IndInv == TypeOK /\ StartInv /\ StopInv /\ OrphanOnlyByRace /\ ArgsInv

-----------------------------------------------------------------------------

(* A concatenation begins with its first part.                             *)
LEMMA Prefix ==
  ASSUME NEW s \in Seq(STRING), NEW t \in Seq(STRING)
  PROVE  /\ s \o t \in Seq(STRING) /\ Len(s) <= Len(s \o t)
         /\ \A k \in 1 .. Len(s) : (s \o t)[k] = s[k]
<1>1. \A m, n \in Nat : m <= m + n /\ \A k \in 1 .. m : k \in 1 .. m + n /\ k <= m
  OBVIOUS
<1>2. Len(s) \in Nat /\ Len(t) \in Nat
  BY LenProperties
<1> QED
  BY <1>1, <1>2, ConcatProperties

(* The text of a command line is a sequence of tokens; the path comes      *)
(* first, and a space follows it if there are arguments.                   *)
LEMMA TextIs ==
  ASSUME NEW c \in CommandLines
  PROVE  /\ Text(c) \in Seq(STRING)
         /\ \A k \in 1 .. Len(c.exe) : k <= Len(Text(c)) /\ Text(c)[k] = c.exe[k]
         /\ c.rest = <<>> => Len(Text(c)) = Len(c.exe)
         /\ c.rest # <<>> => /\ Len(c.exe) + 1 <= Len(Text(c))
                             /\ Text(c)[Len(c.exe) + 1] = Space
<1>1. Space \in STRING /\ c.exe \in Seq(STRING) /\ c.rest \in Seq(STRING)
  BY CommandLineAssumption
<1>2. CASE c.rest = <<>>
  BY <1>1, <1>2 DEF Text
<1>3. CASE c.rest # <<>>
  <2> DEFINE head == c.exe \o <<Space>>
             text == head \o c.rest
             n == Len(c.exe)
  <2>1. /\ head \in Seq(STRING) /\ Len(head) = n + 1
        /\ \A k \in 1 .. n : head[k] = c.exe[k]
        /\ head[n + 1] = Space
    BY <1>1
  <2>2. /\ text \in Seq(STRING) /\ Len(head) <= Len(text)
        /\ \A k \in 1 .. Len(head) : text[k] = head[k]
    BY <1>1, <2>1, Prefix
  <2>3. n \in Nat /\ Len(text) \in Nat
    BY <1>1, <2>2, LenProperties
  <2>4. Text(c) = text
    BY <1>3 DEF Text
  <2> DEFINE l == Len(text)
  <2>5. /\ n \in Nat /\ l \in Nat /\ n + 1 <= l
        /\ \A k \in 1 .. n + 1 : text[k] = head[k]
    BY <2>1, <2>2, <2>3
  <2> HIDE DEF text, head, n, l
  <2>6. \A k \in 1 .. n : k \in 1 .. n + 1 /\ k <= l
    BY <2>5
  <2>7. \A k \in 1 .. n : k <= l /\ text[k] = c.exe[k]
    BY <2>1, <2>5, <2>6
  <2>8. text[n + 1] = Space
    BY <2>1, <2>5
  <2> QED
    BY <1>3, <2>2, <2>4, <2>5, <2>7, <2>8 DEF n, l
<1> QED
  BY <1>2, <1>3

(* The first space is where a path without spaces ends; without arguments  *)
(* there is none.                                                          *)
LEMMA FirstSpace ==
  ASSUME NEW c \in CommandLines, \A k \in 1 .. Len(c.exe) : c.exe[k] # Space,
         NEW k \in 1 .. Len(Text(c)), Text(c)[k] = Space,
         \A j \in 1 .. k - 1 : Text(c)[j] # Space
  PROVE  k = Len(c.exe) + 1
<1>1. Len(c.exe) \in Nat /\ Len(Text(c)) \in Nat
  BY TextIs, CommandLineAssumption
<1>2. k > Len(c.exe)
  BY <1>1, TextIs
<1>3. c.rest # <<>>
  BY <1>1, <1>2, TextIs
<1>4. ~(k > Len(c.exe) + 1)
  BY <1>1, <1>3, TextIs
<1> QED
  BY <1>1, <1>2, <1>4

-----------------------------------------------------------------------------

LEMMA InitInv == Init => IndInv
<1> SUFFICES ASSUME Init PROVE IndInv
  OBVIOUS
<1>1. TypeOK
  <2>1. cmd \in CommandLines
    BY DEF Init
  <2>2. Len(Text(cmd)) \in Nat
    BY <2>1, TextIs, LenProperties
  <2>3. 0 \in 0 .. Len(Text(cmd)) + 1
    BY <2>2
  <2> QED
    BY <2>1, <2>3 DEF Init, TypeOK
<1> QED
  BY <1>1 DEF Init, IndInv, StartInv, StopInv, HandlerRuns, Starting, Stopping,
              OrphanOnlyByRace, ArgsInv

(* ServiceMain's loop over the command line: where it stops and, if there  *)
(* is no target to be found, that it does not.                             *)
LEMMA SkipExeNameInv == IndInv /\ SkipExeName => IndInv'
<1> SUFFICES ASSUME IndInv, SkipExeName PROVE IndInv'
  OBVIOUS
<1>1. PICK k \in 1 .. Len(Text(cmd)) + 1 :
        /\ StopsAt(k) /\ \A j \in 1 .. k - 1 : ~StopsAt(j)
        /\ args' = NextArg(k)
  BY DEF SkipExeName
<1>2. cmd \in CommandLines /\ Len(Text(cmd)) \in Nat /\ cmd' = cmd
  BY TextIs DEF IndInv, TypeOK, SkipExeName
<1>3. /\ k \in 1 .. Len(Text(cmd)) /\ Text(cmd)[k] = Space
      /\ \A j \in 1 .. k - 1 : Text(cmd)[j] # Space
  BY <1>1, <1>2 DEF StopsAt
<1>4. args' = k + 1
  BY <1>1 DEF NextArg
<1>5. TypeOK'
  BY <1>2, <1>3, <1>4 DEF IndInv, TypeOK, SkipExeName, At
<1>6. ArgsInv'
  BY <1>2, <1>3, <1>4, FirstSpace DEF ArgsInv, PlainPath
<1> QED
  BY <1>5, <1>6 DEF IndInv, SkipExeName, At, StartInv, StopInv, HandlerRuns,
                    Starting, Stopping, OrphanOnlyByRace

LEMMA ServiceMainInv == IndInv /\ ServiceMain => IndInv'
<1> SUFFICES ASSUME IndInv, ServiceMain PROVE IndInv'
  OBVIOUS
<1> USE DEF IndInv, TypeOK, StartInv, StopInv, HandlerRuns, Starting, Stopping,
            OrphanOnlyByRace, ArgsInv, PlainPath, At, ServiceSetState
<1>1. CASE SkipExeName
  BY <1>1, SkipExeNameInv
<1>2. CASE ReadPastEnd
  BY <1>2 DEF ReadPastEnd, mainVars
<1>3. CASE RegisterServiceCtrlHandler
  BY <1>3 DEF RegisterServiceCtrlHandler
<1>4. CASE CreateEvent
  BY <1>4 DEF CreateEvent
<1>5. CASE CreateProcess
  BY <1>5 DEF CreateProcess
<1>6. CASE CreateProcessFails
  BY <1>6 DEF CreateProcessFails
<1>7. CASE SetRunning
  BY <1>7 DEF SetRunning
<1>8. CASE Wait
  BY <1>8 DEF Wait
<1>9. CASE SetEvent
  BY <1>9 DEF SetEvent
<1>10. CASE SetStopped
  BY <1>10 DEF SetStopped
<1>11. CASE CloseProcess
  BY <1>11 DEF CloseProcess
<1>12. CASE Return
  BY <1>12 DEF Return
<1> QED
  BY <1>1, <1>2, <1>3, <1>4, <1>5, <1>6, <1>7, <1>8, <1>9, <1>10, <1>11, <1>12
  DEF ServiceMain

LEMMA CtrlHandlerInv == IndInv /\ CtrlHandler => IndInv'
<1> SUFFICES ASSUME IndInv, CtrlHandler PROVE IndInv'
  OBVIOUS
<1> USE DEF IndInv, TypeOK, StartInv, StopInv, HandlerRuns, Starting, Stopping,
            OrphanOnlyByRace, ArgsInv, PlainPath, HandlerAt, ServiceSetState, mainVars
<1>1. CASE HandlerSetEvent
  BY <1>1 DEF HandlerSetEvent
<1>2. CASE HandlerSetStopped
  BY <1>2 DEF HandlerSetStopped
<1>3. CASE Terminate
  BY <1>3 DEF Terminate
<1> QED
  BY <1>1, <1>2, <1>3 DEF CtrlHandler

LEMMA NextInv == IndInv /\ [Next]_vars => IndInv'
<1> SUFFICES ASSUME IndInv, [Next]_vars PROVE IndInv'
  OBVIOUS
<1> USE DEF IndInv, TypeOK, StartInv, StopInv, HandlerRuns, Starting, Stopping,
            OrphanOnlyByRace, ArgsInv, PlainPath, mainVars
<1>1. CASE ServiceMain
  BY <1>1, ServiceMainInv
<1>2. CASE CtrlHandler
  BY <1>2, CtrlHandlerInv
<1>3. CASE SendStop
  BY <1>3 DEF SendStop, AcceptsStop
<1>4. CASE DispatcherReturns
  BY <1>4 DEF DispatcherReturns
<1>5. CASE TargetExits
  BY <1>5 DEF TargetExits
<1>6. CASE Terminating \/ UNCHANGED vars
  BY <1>6 DEF Terminating, vars
<1> QED
  BY <1>1, <1>2, <1>3, <1>4, <1>5, <1>6 DEF Next

(* The inductive invariant holds in every reachable state.                 *)
THEOREM Inductive == Spec => []IndInv
BY InitInv, NextInv, PTL DEF Spec

(* Every variable keeps its type; args stays in the command line, of       *)
(* whatever shape that is.                                                 *)
THEOREM TypeCorrect == Spec => []TypeOK
<1>1. IndInv => TypeOK
  BY DEF IndInv
<1> QED
  BY Inductive, <1>1, PTL

(* A target outlives the wrapper only when there was no stop event or when *)
(* its handle was closed before the handler used it.                       *)
THEOREM NoOtherOrphan == Spec => []OrphanOnlyByRace
<1>1. IndInv => OrphanOnlyByRace
  BY DEF IndInv
<1> QED
  BY Inductive, <1>1, PTL

(* What is started is the text behind a path without spaces.               *)
THEOREM ConfiguredTarget == Spec => []StartsConfiguredTarget
<1>1. IndInv => StartsConfiguredTarget
  BY DEF IndInv, StartInv, Starting, ArgsInv, PlainPath, StartsConfiguredTarget
<1> QED
  BY Inductive, <1>1, PTL

(* Once STOPPED is reported no thread reports another state.               *)
THEOREM StoppedForGood == Spec => StoppedIsFinal
<1>1. IndInv /\ [Next]_vars => [status = "STOPPED" => status' = "STOPPED"]_status
  BY DEF IndInv, StartInv, Starting, Next, ServiceMain, CtrlHandler, vars, mainVars,
         SkipExeName, ReadPastEnd, RegisterServiceCtrlHandler, CreateEvent, CreateProcess,
         CreateProcessFails, SetRunning, Wait, SetEvent, SetStopped, CloseProcess, Return,
         SendStop, HandlerSetEvent, HandlerSetStopped, Terminate, DispatcherReturns,
         TargetExits, Terminating, ServiceSetState, At
<1> QED
  BY Inductive, <1>1, PTL DEF Spec, StoppedIsFinal
=============================================================================
