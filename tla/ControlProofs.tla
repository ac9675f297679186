--------------------------- MODULE ControlProofs ---------------------------
(***************************************************************************)
(* Proofs about ControlProtocol for every set of commands, every set of    *)
(* faults and every bound.                                                 *)
(***************************************************************************)
EXTENDS ControlProtocol, TLAPS

\* The command is not sent yet.
PreSend == {"enter", "gate", "waitReady", "readyMiss"}

\* The call waits for DONE.
Waiting == pc \in {"waitDone", "doneMiss"}

\* What the input register holds when the command of this call arrives.
Mine == [cmd |-> cmd, id |-> id]

\* Not a regular command: process_cmd neither signals DONE for it outside a
\* realtime cycle nor sets executing_cmd in a script that goes on.
Inert(w) == w.cmd \in ScriptRT \cup {NoCmd, StopScript}

(***************************************************************************)
(* Call numbers only grow along the way client, writes, inReg, script.     *)
(***************************************************************************)
WritesBounded ==
    \A i \in DOMAIN writes : /\ writes[i].id <= id
                             /\ pc \in PreSend => writes[i].id < id

NumbersBounded ==
    /\ inReg.id <= id
    /\ started <= id
    /\ finished <= started
    /\ ret.id <= id
    /\ pc \in PreSend => inReg.id < id /\ started < id

NumbersGrow ==
    /\ \A i, j \in DOMAIN writes :
          i < j /\ writes[i].id > 0 /\ writes[j].id > 0 => writes[i].id < writes[j].id
    /\ \A i \in DOMAIN writes :
          writes[i].id > 0 => writes[i].id > inReg.id /\ writes[i].id > started
    /\ inReg.id > 0 => inReg.id >= started

NumbersTagged ==
    /\ \A i \in DOMAIN writes : ~Inert(writes[i]) => writes[i].id > 0
    /\ ~Inert(inReg) => inReg.id > 0
    /\ pc # "idle" => id > 0 \/ pc = "upload"
    /\ spc = "exec" /\ cur.cmd # ContactDetected => cur.id = started
    /\ cmd # ContactDetected
    /\ id > 0 => cmd # NoCmd
    /\ \A i \in DOMAIN writes : writes[i].cmd # ContactDetected
    /\ inReg.cmd # ContactDetected

OrderInv == WritesBounded /\ NumbersBounded /\ NumbersGrow /\ NumbersTagged

(***************************************************************************)
(* A regular command that was started and is still in the register is      *)
(* guarded by executing_cmd.                                               *)
(***************************************************************************)
OnceInv ==
    /\ repeats <= 1
    /\ spc = "boot" => repeats = 0
    /\ ~Inert(inReg) /\ inReg.id = started /\ repeats = 1 /\ spc \in {"loop", "rtDone"}
          => executing

(***************************************************************************)
(* The undisturbed run.  While the call waits, DONE anywhere between the   *)
(* script and the cached state is the answer to this call.  Otherwise the  *)
(* state stream changes from DONE to RDY at most once, and the client can  *)
(* only see RDY when no DONE is left behind it.                            *)
(***************************************************************************)
WaitInv ==
    /\ Regular(cmd) /\ ~Inert(Mine)
    /\ \A i \in DOMAIN writes :
          Inert(writes[i]) \/ (i = Len(writes) /\ writes[i] = Mine)
    /\ Inert(inReg) \/ (inReg = Mine /\ writes = <<>>)
    /\ finished # id =>
          /\ executing => spc = "off"
          /\ state.reg = RDY
          /\ \A i \in DOMAIN packages : packages[i].reg = RDY
          /\ outReg = RDY \/ spc = "rtDone"
    /\ finished = id =>
          /\ executing /\ spc \in {"loop", "off"} /\ outReg = DONE
          /\ inReg = Mine /\ writes = <<>>
          /\ state.reg = DONE => \A i \in DOMAIN packages : packages[i].reg = DONE
          /\ \A i, j \in DOMAIN packages :
                i < j /\ packages[i].reg = DONE => packages[j].reg = DONE

RestInv ==
    /\ \A i \in DOMAIN writes : Inert(writes[i])
    /\ Inert(inReg) \/ (executing /\ outReg = DONE /\ spc \in {"loop", "off"})
    /\ executing /\ spc = "loop" =>
          /\ state.reg = DONE
          /\ \A i \in DOMAIN packages : packages[i].reg = DONE
          /\ \A i \in DOMAIN writes : writes[i].cmd = NoCmd
          /\ inReg.cmd = NoCmd \/ ~Inert(inReg)
    /\ state.reg = RDY =>
          /\ outReg = RDY \/ spc = "rtDone"
          /\ \A i \in DOMAIN packages : packages[i].reg = RDY
    /\ \A i \in DOMAIN packages :
          packages[i].reg = RDY =>
             /\ outReg = RDY \/ spc = "rtDone"
             /\ \A j \in DOMAIN packages : i < j => packages[j].reg = RDY

ScriptInv ==
    /\ spc # "boot"
    /\ ~internal
    /\ stop => spc # "rtDone"
    /\ spc = "rtDone" => ~executing
    /\ spc = "loop" => outReg = IF executing THEN DONE ELSE RDY
    /\ spc = "exec" => /\ Waiting
                       /\ cur = Mine /\ inReg = Mine /\ writes = <<>>
                       /\ ~executing /\ outReg = RDY /\ finished # id

CleanInv ==
    clean => /\ ScriptInv
             /\ Waiting => WaitInv
             /\ ~Waiting => RestInv

-----------------------------------------------------------------------------
(* Type correctness.                                                       *)

\* The commands and records that steps put together.
LEMMA Members ==
    /\ Clear \in Write
    /\ \A c \in Calls \cup {StopScript} : c \in Commands
    /\ \A c \in Commands, n \in Nat : [cmd |-> Wire(c), id |-> n] \in Write
    /\ [cmd |-> ContactDetected, id |-> 0] \in Write
  BY DEF Clear, Write, Commands, Wire

\* A package that the controller samples has its type.
LEMMA CurrentType == TypeOK => Current \in Package
  BY DEF TypeOK, ScriptTypeOK, Package, Current

\* The steps of the client leave the controller's variables alone.
LEMMA SameController ==
  ASSUME TypeOK, UNCHANGED controllerVars
  PROVE  ScriptTypeOK' /\ packages' \in Seq(Package) /\ state' \in Package
  BY DEF TypeOK, ScriptTypeOK, controllerVars, scriptVars, histVars

\* The steps of the script leave the client's variables alone.
LEMMA SameHost ==
  ASSUME TypeOK, UNCHANGED hostVars
  PROVE  HostTypeOK'
  BY DEF TypeOK, HostTypeOK, hostVars

\* A message that is put keeps the types.
LEMMA PutType ==
  ASSUME TypeOK, NEW w \in Write, Put(w)
  PROVE  writes' \in Seq(Write)
  BY DEF TypeOK, Put

\* A call that enters a phase keeps the host's types.
LEMMA EnterType ==
  ASSUME TypeOK, NEW c \in Commands, NEW re \in BOOLEAN, Enter(c, re)
  PROVE  HostTypeOK' /\ writes' \in Seq(Write) /\ clean' \in BOOLEAN
<1>1. clean' \in BOOLEAN
  BY DEF TypeOK, Enter
<1>2. HostTypeOK'
  BY DEF TypeOK, HostTypeOK, Enter, HostPC
<1> QED
  BY <1>1, <1>2 DEF TypeOK, Enter

\* A call that returns keeps the host's types.
LEMMA ReturnType ==
  ASSUME TypeOK, clean' \in BOOLEAN, NEW ok \in BOOLEAN, Return(ok)
  PROVE  HostTypeOK'
<1>1. ret' \in [id : Nat, cmd : Commands, ok : BOOLEAN, val : Nat, clean : BOOLEAN]
  BY DEF TypeOK, HostTypeOK, Return
<1>2. pc' \in HostPC
  BY DEF Return, HostPC
<1> QED
  BY <1>1, <1>2 DEF TypeOK, HostTypeOK, Return

\* A call that clears the register and returns keeps the types.
LEMMA ClearAndReturnType ==
  ASSUME TypeOK, NEW ok \in BOOLEAN, NEW ab \in BOOLEAN, ClearAndReturn(ok, ab)
  PROVE  HostTypeOK' /\ writes' \in Seq(Write) /\ clean' \in BOOLEAN
<1>1. clean' \in BOOLEAN
  BY DEF TypeOK, ClearAndReturn
<1>2. writes' \in Seq(Write)
  BY Members, PutType DEF ClearAndReturn, SendClearCommand
<1> QED
  BY <1>1, <1>2, ReturnType DEF ClearAndReturn

\* The script that goes somewhere keeps its types.
LEMMA GotoType ==
  ASSUME TypeOK, NEW label \in HostPC, Goto(label)
  PROVE  HostTypeOK' /\ writes' \in Seq(Write) /\ clean' \in BOOLEAN
  BY DEF TypeOK, HostTypeOK, Goto

\* Every step keeps every variable in its type: calls only put commands and
\* numbers on the way, the script only signals RDY and DONE.
LEMMA TypeStep == TypeOK /\ [Next]_vars => TypeOK'
<1> SUFFICES ASSUME TypeOK, [Next]_vars PROVE TypeOK'
  OBVIOUS
<1>a. ASSUME HostTypeOK', writes' \in Seq(Write), clean' \in BOOLEAN,
             UNCHANGED <<controllerVars, incidents>>
      PROVE  TypeOK'
  BY <1>a, SameController DEF TypeOK
<1>i. Incident => incidents' \in 0 .. MaxIncidents
  BY ConstantsAssumption DEF Incident, TypeOK
<1>h. \A label \in {"idle", "enter", "gate", "waitReady", "readyMiss", "waitDone",
          "doneMiss", "waitStop", "stopMiss", "read", "upload"} : label \in HostPC
  BY DEF HostPC
<1>1. ASSUME NEW c \in Calls, Call(c) PROVE TypeOK'
  BY <1>1, <1>a, Members, EnterType DEF Call
<1>2. CASE ReuploadScript
  <2>1. HostTypeOK' /\ writes' \in Seq(Write) /\ clean' \in BOOLEAN
    BY <1>2, <1>h, Members, EnterType, GotoType DEF ReuploadScript
  <2> QED
    BY <1>2, <2>1, <1>i, SameController DEF ReuploadScript, TypeOK
<1>3. CASE CheckStopped
  BY <1>3, <1>a, <1>h, ClearAndReturnType, GotoType DEF CheckStopped
<1>4. CASE CheckRunning
  BY <1>4, <1>a, <1>h, ClearAndReturnType, GotoType DEF CheckRunning
<1>5. CASE WaitReady
  <2>1. CASE Goto("readyMiss")
    BY <1>5, <2>1, <1>a, <1>h, GotoType DEF WaitReady
  <2>2. CASE ~Goto("readyMiss")
    <3>1. writes' \in Seq(Write)
      BY <1>5, <2>2, Members, PutType DEF WaitReady, TypeOK, HostTypeOK
    <3>2. clean' \in BOOLEAN
      BY <1>5, <2>2 DEF WaitReady, TypeOK
    <3>3. HostTypeOK'
      <4>1. CASE Return(TRUE)
        BY <4>1, <3>2, ReturnType
      <4>2. CASE ~Return(TRUE)
        BY <1>5, <2>2, <4>2, <1>h DEF WaitReady, TypeOK, HostTypeOK
      <4> QED
        BY <4>1, <4>2
    <3> QED
      BY <1>5, <3>1, <3>2, <3>3, <1>a DEF WaitReady
  <2> QED
    BY <2>1, <2>2
<1>6. CASE ReadyMiss
  BY <1>6, <1>a, <1>h, ClearAndReturnType, GotoType DEF ReadyMiss
<1>7. CASE ReadyTimeout
  BY <1>7, <1>a, ClearAndReturnType DEF ReadyTimeout
<1>8. CASE WaitDone
  BY <1>8, <1>a, <1>h, ClearAndReturnType, GotoType DEF WaitDone
<1>9. CASE DoneMiss
  BY <1>9, <1>a, <1>h, ClearAndReturnType, GotoType DEF DoneMiss
<1>10. CASE WaitStop
  BY <1>10, <1>a, <1>h, ClearAndReturnType, GotoType DEF WaitStop
<1>11. CASE StopMiss
  BY <1>11, <1>a, <1>h, ClearAndReturnType, GotoType DEF StopMiss
<1>12. CASE ExecutionTimeout
  BY <1>12, <1>a, ClearAndReturnType DEF ExecutionTimeout
<1>13. CASE ReadAnswer
  <2>1. state.val \in Nat
    BY DEF TypeOK, Package
  <2>2. HostTypeOK'
    BY <1>13, <2>1, <1>h DEF ReadAnswer, TypeOK, HostTypeOK
  <2> QED
    BY <1>13, <2>2, <1>a DEF ReadAnswer, TypeOK
<1>u. CASE UploadFails
  BY <1>u, <1>a, <1>h, GotoType DEF UploadFails
<1>14. CASE Upload
  <2>1. HostTypeOK'
    BY <1>14, <1>h DEF Upload, TypeOK, HostTypeOK
  <2>2. ScriptTypeOK'
    BY <1>14 DEF Upload, TypeOK, ScriptTypeOK
  <2> QED
    BY <1>14, <2>1, <2>2 DEF Upload, TypeOK
<1>15. CASE ReceiveWrite
  <2>1. ScriptTypeOK'
    BY <1>15 DEF ReceiveWrite, TypeOK, ScriptTypeOK, scriptVars, histVars
  <2> QED
    BY <1>15, <2>1, SameHost DEF ReceiveWrite, TypeOK
<1>b. ASSUME ScriptTypeOK', clean' \in BOOLEAN, UNCHANGED envVars,
             incidents' \in 0 .. MaxIncidents
      PROVE  TypeOK'
  BY <1>b, SameHost DEF TypeOK, envVars
<1>16. CASE Boot \/ LoopIdle \/ LoopRealtimeReady
  <2>1. ScriptTypeOK'
    BY <1>16 DEF Boot, LoopIdle, LoopRealtimeReady, SignalReady, TypeOK, ScriptTypeOK,
       loopVars, envVars, histVars
  <2> QED
    BY <1>16, <2>1, <1>b DEF Boot, LoopIdle, LoopRealtimeReady, loopVars, TypeOK
<1>17. CASE LoopRealtime
  <2>1. ScriptTypeOK'
    BY <1>17 DEF LoopRealtime, Answer, SignalDone, TypeOK, ScriptTypeOK, Write,
       loopVars, envVars, histVars
  <2> QED
    BY <1>17, <2>1, <1>b DEF LoopRealtime, loopVars, TypeOK
<1>18. CASE LoopInternal
  <2>1. ScriptTypeOK'
    BY <1>18, Members DEF LoopInternal, TypeOK, ScriptTypeOK, loopVars, envVars, histVars
  <2> QED
    BY <1>18, <2>1, <1>b DEF LoopInternal, loopVars, TypeOK
<1>19. CASE LoopStop
  <2>0. UrCap \in BOOLEAN
    BY ConstantsAssumption
  <2>1. ScriptTypeOK'
    BY <1>19, <2>0 DEF LoopStop, TypeOK, ScriptTypeOK, loopVars, envVars, histVars
  <2> QED
    BY <1>19, <2>1, <1>b DEF LoopStop, loopVars, TypeOK
<1>20. CASE LoopRegular
  <2>1. ScriptTypeOK'
    BY <1>20 DEF LoopRegular, TypeOK, ScriptTypeOK, Write, loopVars, envVars
  <2> QED
    BY <1>20, <2>1, <1>b DEF LoopRegular, loopVars, TypeOK
<1>21. CASE ExecDone
  <2>1. ScriptTypeOK'
    BY <1>21, Members DEF ExecDone, Answer, SignalDone, TypeOK, ScriptTypeOK, Write,
       loopVars, envVars
  <2> QED
    BY <1>21, <2>1, <1>b DEF ExecDone, loopVars, TypeOK
<1>22. CASE ContactFires \/ ScriptDies
  <2>1. ScriptTypeOK'
    BY <1>22 DEF ContactFires, ScriptDies, TypeOK, ScriptTypeOK, envVars, histVars
  <2> QED
    BY <1>22, <2>1, <1>b, <1>i DEF ContactFires, ScriptDies, TypeOK
<1>23. CASE RobotStops
  <2>0. prog' \in {"PLAYING", "PAUSED", "STOPPED"}
    BY <1>23 DEF RobotStops, TypeOK, ScriptTypeOK
  <2>1. ScriptTypeOK'
    BY <1>23, <2>0 DEF RobotStops, TypeOK, ScriptTypeOK, scriptVars, histVars
  <2>2. clean' \in BOOLEAN
    BY <1>23 DEF RobotStops, TypeOK
  <2> QED
    BY <1>23, <2>1, <2>2, <1>i, SameHost DEF RobotStops, TypeOK
<1>24. CASE RobotReleased
  <2>1. ScriptTypeOK'
    BY <1>24 DEF RobotReleased, TypeOK, ScriptTypeOK, histVars
  <2> QED
    BY <1>24, <2>1, SameHost DEF RobotReleased, TypeOK
<1>25. CASE Sample
  <2>1. ScriptTypeOK'
    BY <1>25 DEF Sample, TypeOK, ScriptTypeOK, scriptVars, histVars
  <2>2. clean' \in BOOLEAN
    BY <1>25 DEF Sample, TypeOK
  <2>3. packages' \in Seq(Package)
    BY <1>25, CurrentType DEF Sample, TypeOK
  <2> QED
    BY <1>25, <2>1, <2>2, <2>3, SameHost DEF Sample, TypeOK
<1>26. CASE Deliver \/ SkipPackage
  <2>1. ScriptTypeOK'
    BY <1>26 DEF Deliver, SkipPackage, TypeOK, ScriptTypeOK, scriptVars, histVars
  <2>2. packages' \in Seq(Package) /\ state' \in Package
    <3>1. packages # <<>>
      BY <1>26 DEF Deliver, SkipPackage
    <3>2. Head(packages) \in Package /\ Tail(packages) \in Seq(Package)
      BY <3>1 DEF TypeOK
    <3> QED
      BY <1>26, <3>2 DEF Deliver, SkipPackage, TypeOK
  <2> QED
    BY <1>26, <2>1, <2>2, SameHost DEF Deliver, SkipPackage, TypeOK
<1>27. CASE UNCHANGED vars
  BY <1>27, SameHost, SameController DEF vars, TypeOK
<1> QED
  BY <1>u, <1>1, <1>2, <1>3, <1>4, <1>5, <1>6, <1>7, <1>8, <1>9, <1>10, <1>11, <1>12,
     <1>13, <1>14, <1>15, <1>16, <1>17, <1>18, <1>19, <1>20, <1>21, <1>22, <1>23,
     <1>24, <1>25, <1>26, <1>27 DEF Next, Client, Script

\* The initial state has the types.
LEMMA TypeInit == Init => TypeOK
<1> SUFFICES ASSUME Init PROVE TypeOK
  OBVIOUS
<1>1. HostTypeOK
  BY DEF Init, HostTypeOK, HostPC, Commands
<1>2. ScriptTypeOK
  BY Members DEF Init, ScriptTypeOK
<1>3. Current \in Package
  BY <1>2 DEF ScriptTypeOK, Package, Current
<1> QED
  BY <1>1, <1>2, <1>3, ConstantsAssumption DEF Init, TypeOK

\* The protocol is type correct for every set of commands and every bound.
THEOREM TypeCorrect == Spec => []TypeOK
  BY TypeInit, TypeStep, PTL DEF Spec

-----------------------------------------------------------------------------
(* Call order.                                                             *)

\* What Append and Tail do to the elements, for writes and for packages.
LEMMA AppendElements ==
  ASSUME NEW S, NEW s \in Seq(S), NEW e \in S
  PROVE  /\ DOMAIN s = 1 .. Len(s) /\ Len(s) \in Nat
         /\ Append(s, e) # <<>>
         /\ Len(Append(s, e)) = Len(s) + 1
         /\ DOMAIN Append(s, e) = 1 .. (Len(s) + 1)
         /\ \A i \in 1 .. Len(s) : Append(s, e)[i] = s[i]
         /\ Append(s, e)[Len(s) + 1] = e
  OBVIOUS

\* The elements of a tail are the elements of the sequence, one later.
LEMMA TailElements ==
  ASSUME NEW S, NEW s \in Seq(S), s # <<>>
  PROVE  /\ DOMAIN s = 1 .. Len(s) /\ Len(s) \in Nat \ {0}
         /\ Head(s) = s[1]
         /\ Len(Tail(s)) = Len(s) - 1
         /\ DOMAIN Tail(s) = 1 .. (Len(s) - 1)
         /\ \A i \in 1 .. (Len(s) - 1) : Tail(s)[i] = s[i + 1]
  OBVIOUS

\* Every number on the way is a natural number.
LEMMA NumberTypes ==
  ASSUME TypeOK
  PROVE  /\ writes \in Seq(Write)
         /\ \A i \in DOMAIN writes : writes[i].id \in Nat
         /\ id \in Nat /\ ret.id \in Nat /\ inReg.id \in Nat
         /\ started \in Nat /\ finished \in Nat
<1>1. \A i \in DOMAIN writes : writes[i] \in Write
  BY DEF TypeOK
<1>2. \A w \in Write : w.id \in Nat
  BY DEF Write
<1> QED
  BY <1>1, <1>2 DEF TypeOK, HostTypeOK, ScriptTypeOK

\* Clearing the register and returning: the clear carries no number.
LEMMA OrderClear ==
  ASSUME TypeOK, OrderInv, pc \notin {"idle", "upload"},
         NEW ok, NEW ab, ClearAndReturn(ok, ab), UNCHANGED controllerVars
  PROVE  OrderInv'
<1>0. /\ writes' = Append(writes, Clear)
      /\ ret'.id = id /\ pc' \notin PreSend
      /\ UNCHANGED <<id, cmd, inReg, started, finished, spc, cur>>
  BY DEF ClearAndReturn, SendClearCommand, Put, Return, PreSend, controllerVars,
     scriptVars, histVars
<1>1. writes \in Seq(Write) /\ Clear \in Write /\ id \in Nat /\ started \in Nat
  BY Members DEF TypeOK, HostTypeOK, ScriptTypeOK
<1>2. DOMAIN writes' = 1 .. (Len(writes) + 1) /\ Len(writes) \in Nat /\ DOMAIN writes = 1 .. Len(writes)
  BY <1>0, <1>1, AppendElements
<1>3. \A i \in DOMAIN writes' : writes'[i] = Clear \/ (i \in DOMAIN writes /\ writes'[i] = writes[i])
  BY <1>0, <1>1, <1>2, AppendElements
<1>4. Clear.id = 0 /\ Clear.cmd = NoCmd /\ Inert(Clear) /\ NoCmd # ContactDetected
  BY DEF Clear, Inert, NoCmd, ContactDetected
<1>5. \A i \in DOMAIN writes : writes[i].id \in Nat
  BY NumberTypes
<1>6. WritesBounded' /\ NumbersBounded'
  <2>1. WritesBounded'
    BY <1>0, <1>1, <1>3, <1>4, <1>5 DEF OrderInv, WritesBounded
  <2>2. NumbersBounded'
    BY <1>0, <1>1 DEF OrderInv, NumbersBounded
  <2> QED
    BY <2>1, <2>2
<1>7. NumbersGrow'
  BY <1>0, <1>1, <1>3, <1>4, <1>5 DEF OrderInv, NumbersGrow
<1>8. NumbersTagged'
  BY <1>0, <1>1, <1>3, <1>4, <1>5 DEF OrderInv, NumbersTagged, Inert
<1> QED
  BY <1>6, <1>7, <1>8 DEF OrderInv

\* Polling moves within the part of the call before, or after, the send.
LEMMA OrderGoto ==
  ASSUME OrderInv, NEW label, Goto(label), UNCHANGED controllerVars,
         pc # "idle" \/ label = "upload", pc # "upload",
         label \in PreSend => pc \in PreSend
  PROVE  OrderInv'
  BY DEF OrderInv, WritesBounded, NumbersBounded, NumbersGrow, NumbersTagged, Inert, Goto,
     controllerVars, scriptVars, histVars, PreSend

\* A new call takes a new number.
LEMMA OrderEnter ==
  ASSUME TypeOK, OrderInv, NEW c \in Calls \cup {StopScript}, NEW re, Enter(c, re), UNCHANGED controllerVars
  PROVE  OrderInv'
<1>0. /\ id' = id + 1 /\ cmd' = c /\ pc' = "enter"
      /\ UNCHANGED <<writes, ret, inReg, started, finished, spc, cur>>
  BY DEF Enter, controllerVars, scriptVars, histVars
<1>1. /\ id \in Nat /\ started \in Nat /\ finished \in Nat /\ inReg.id \in Nat /\ ret.id \in Nat
      /\ \A i \in DOMAIN writes : writes[i].id \in Nat
  BY NumberTypes
<1>2. c # ContactDetected /\ c # NoCmd
  BY ConstantsAssumption DEF ContactDetected, StopScript, NoCmd
<1>3. WritesBounded' /\ NumbersBounded'
  <2>1. WritesBounded'
    BY <1>0, <1>1 DEF OrderInv, WritesBounded
  <2>2. NumbersBounded'
    BY <1>0, <1>1 DEF OrderInv, NumbersBounded
  <2> QED
    BY <2>1, <2>2
<1>4. NumbersGrow'
  BY <1>0 DEF OrderInv, NumbersGrow
<1>5. NumbersTagged'
  BY <1>0, <1>1, <1>2 DEF OrderInv, NumbersTagged, Inert
<1> QED
  BY <1>3, <1>4, <1>5 DEF OrderInv

\* The command is sent behind everything that an earlier call sent.
LEMMA OrderSend ==
  ASSUME TypeOK, OrderInv, WaitReady, ~Goto("readyMiss")
  PROVE  OrderInv'
<1>d. DEFINE w == [cmd |-> Wire(cmd), id |-> id]
<1>0. /\ writes' = Append(writes, w)
      /\ pc = "waitReady" /\ pc' \notin PreSend
      /\ UNCHANGED <<id, cmd, inReg, started, finished, spc, cur>>
      /\ ret'.id = id \/ ret' = ret
  BY DEF WaitReady, Put, Return, PreSend, controllerVars, scriptVars, histVars
<1>1. writes \in Seq(Write) /\ id \in Nat /\ started \in Nat /\ inReg.id \in Nat
  BY DEF TypeOK, HostTypeOK, ScriptTypeOK, Write
<1>y. w \in Write
  BY Members DEF TypeOK, HostTypeOK
<1>2. DOMAIN writes' = 1 .. (Len(writes) + 1) /\ Len(writes) \in Nat /\ DOMAIN writes = 1 .. Len(writes)
  BY <1>0, <1>1, <1>y, AppendElements
<1>3. \A i \in DOMAIN writes' : (i = Len(writes) + 1 /\ writes'[i] = w)
                                \/ (i \in DOMAIN writes /\ writes'[i] = writes[i])
  BY <1>0, <1>1, <1>2, <1>y, AppendElements
<1>4. w.id = id /\ w.cmd # ContactDetected /\ id > 0 /\ w.cmd = Wire(cmd)
  BY <1>0, <1>1 DEF OrderInv, NumbersTagged, Wire, NoCmd, ContactDetected
<1>5. \A i \in DOMAIN writes : writes[i].id \in Nat
  BY NumberTypes
<1> HIDE DEF w
<1>x. "waitReady" \in PreSend
  BY DEF PreSend
<1>6. WritesBounded' /\ NumbersBounded'
  <2>1. WritesBounded'
    BY <1>0, <1>1, <1>3, <1>4, <1>5 DEF OrderInv, WritesBounded
  <2>2. NumbersBounded'
    BY <1>0, <1>1 DEF OrderInv, NumbersBounded
  <2> QED
    BY <2>1, <2>2
<1>7. NumbersGrow'
  <2>1. (\A i \in DOMAIN writes : writes[i].id > 0 => writes[i].id > inReg.id /\ writes[i].id > started)'
    BY <1>0, <1>1, <1>3, <1>4, <1>5, <1>x DEF OrderInv, NumbersGrow, NumbersBounded, WritesBounded
  <2>2. (\A i, j \in DOMAIN writes :
          i < j /\ writes[i].id > 0 /\ writes[j].id > 0 => writes[i].id < writes[j].id)'
    BY <1>0, <1>1, <1>2, <1>3, <1>4, <1>5, <1>x DEF OrderInv, NumbersGrow, NumbersBounded, WritesBounded
  <2> QED
    BY <2>1, <2>2, <1>0 DEF OrderInv, NumbersGrow
<1>8. NumbersTagged'
  BY <1>0, <1>1, <1>3, <1>4, <1>5 DEF OrderInv, NumbersTagged, Inert
<1> QED
  BY <1>6, <1>7, <1>8 DEF OrderInv

\* The controller takes the writes in the order they were sent.
LEMMA OrderReceive ==
  ASSUME TypeOK, OrderInv, ReceiveWrite
  PROVE  OrderInv'
<1>0. /\ writes # <<>> /\ writes' = Tail(writes) /\ inReg' = Head(writes)
      /\ UNCHANGED <<pc, id, cmd, ret, started, finished, spc, cur>>
  BY DEF ReceiveWrite, hostVars, scriptVars, histVars
<1>1. writes \in Seq(Write) /\ id \in Nat /\ started \in Nat
  BY DEF TypeOK, HostTypeOK, ScriptTypeOK
<1>2. /\ DOMAIN writes = 1 .. Len(writes) /\ Len(writes) \in Nat \ {0}
      /\ DOMAIN writes' = 1 .. (Len(writes) - 1)
      /\ \A i \in DOMAIN writes' : writes'[i] = writes[i + 1]
      /\ inReg' = writes[1]
  BY <1>0, <1>1, TailElements
<1>3. 1 \in DOMAIN writes /\ \A i \in DOMAIN writes' : i + 1 \in DOMAIN writes /\ 1 < i + 1
  BY <1>2
<1>5. \A i \in DOMAIN writes : writes[i].id \in Nat
  BY NumberTypes
<1>6. WritesBounded' /\ NumbersBounded'
  <2>1. WritesBounded'
    BY <1>0, <1>2, <1>3 DEF OrderInv, WritesBounded
  <2>2. NumbersBounded'
    BY <1>0, <1>2, <1>3 DEF OrderInv, WritesBounded, NumbersBounded
  <2> QED
    BY <2>1, <2>2
<1>7. NumbersGrow'
  <2>1. \A i, j \in DOMAIN writes' : i < j => i + 1 < j + 1
    BY <1>2
  <2>2. (\A i, j \in DOMAIN writes :
          i < j /\ writes[i].id > 0 /\ writes[j].id > 0 => writes[i].id < writes[j].id)'
    BY <2>1, <1>2, <1>3 DEF OrderInv, NumbersGrow
  <2>3. (\A i \in DOMAIN writes : writes[i].id > 0 => writes[i].id > inReg.id)'
    <3>1. CASE writes[1].id = 0
      BY <3>1, <1>2, <1>3
    <3>2. CASE writes[1].id > 0
      BY <3>2, <1>2, <1>3, <1>5 DEF OrderInv, NumbersGrow
    <3> QED
      BY <3>1, <3>2, <1>3, <1>5
  <2>4. (\A i \in DOMAIN writes : writes[i].id > 0 => writes[i].id > started)'
    BY <1>0, <1>2, <1>3 DEF OrderInv, NumbersGrow
  <2>5. (inReg.id > 0 => inReg.id >= started)'
    BY <1>0, <1>1, <1>2, <1>3, <1>5 DEF OrderInv, NumbersGrow
  <2> QED
    BY <2>2, <2>3, <2>4, <2>5 DEF NumbersGrow
<1>8. NumbersTagged'
  BY <1>0, <1>2, <1>3 DEF OrderInv, NumbersTagged, Inert
<1> QED
  BY <1>6, <1>7, <1>8 DEF OrderInv

\* The script's other steps leave the numbers alone.
LEMMA OrderScript ==
  ASSUME OrderInv, UNCHANGED <<hostVars, writes, inReg, started, finished>>,
         spc' = "exec" /\ cur'.cmd # ContactDetected => cur'.id = started
  PROVE  OrderInv'
  BY DEF OrderInv, WritesBounded, NumbersBounded, NumbersGrow, NumbersTagged, Inert, hostVars

\* The numbers only grow, in every step.
LEMMA OrderStep == TypeOK /\ OrderInv /\ [Next]_vars => OrderInv'
<1> SUFFICES ASSUME TypeOK, OrderInv, [Next]_vars PROVE OrderInv'
  OBVIOUS
<1>1. ASSUME NEW c \in Calls, Call(c) PROVE OrderInv'
  BY <1>1, OrderEnter DEF Call
<1>2. CASE ReuploadScript
  BY <1>2, OrderEnter, OrderGoto DEF ReuploadScript, PreSend
<1>3. CASE CheckStopped
  BY <1>3, OrderClear, OrderGoto DEF CheckStopped, PreSend
<1>4. CASE CheckRunning
  BY <1>4, OrderClear, OrderGoto DEF CheckRunning, PreSend
<1>5. CASE WaitReady
  <2>1. CASE Goto("readyMiss")
    BY <1>5, <2>1, OrderGoto DEF WaitReady, PreSend
  <2> QED
    BY <1>5, <2>1, OrderSend
<1>6. CASE ReadyMiss
  BY <1>6, OrderClear, OrderGoto DEF ReadyMiss, PreSend
<1>7. CASE ReadyTimeout
  BY <1>7, OrderClear DEF ReadyTimeout
<1>8. CASE WaitDone
  BY <1>8, OrderClear, OrderGoto DEF WaitDone, PreSend
<1>9. CASE DoneMiss
  BY <1>9, OrderClear, OrderGoto DEF DoneMiss, PreSend
<1>10. CASE WaitStop
  BY <1>10, OrderClear, OrderGoto DEF WaitStop, PreSend
<1>11. CASE StopMiss
  BY <1>11, OrderClear, OrderGoto DEF StopMiss, PreSend
<1>12. CASE ExecutionTimeout
  BY <1>12, OrderClear DEF ExecutionTimeout
<1>13. CASE ReadAnswer
  <2>1. ret'.id = ret.id /\ pc' = "idle" /\ "idle" \notin PreSend
    BY <1>13 DEF ReadAnswer, TypeOK, HostTypeOK, PreSend
  <2> QED
    BY <1>13, <2>1 DEF ReadAnswer, controllerVars, scriptVars, histVars,
       OrderInv, WritesBounded, NumbersBounded, NumbersGrow, NumbersTagged, Inert
<1>u. CASE UploadFails
  <2>1. pc' = "idle" /\ "idle" \notin PreSend /\ pc \notin PreSend
    BY <1>u DEF UploadFails, Goto, PreSend
  <2> QED
    BY <1>u, <2>1 DEF UploadFails, Goto, OrderInv, WritesBounded, NumbersBounded, NumbersGrow,
       NumbersTagged, Inert, controllerVars, scriptVars, histVars
<1>14. CASE Upload
  <2>1. pc' = "idle" /\ "idle" \notin PreSend /\ spc' # "exec"
    BY <1>14 DEF Upload, PreSend
  <2> QED
    BY <1>14, <2>1 DEF Upload, OrderInv, WritesBounded, NumbersBounded, NumbersGrow, NumbersTagged, Inert
<1>15. CASE ReceiveWrite
  BY <1>15, OrderReceive
<1>16. CASE Boot \/ LoopIdle \/ LoopRealtimeReady \/ LoopRealtime
  BY <1>16, OrderScript DEF Boot, LoopIdle, LoopRealtimeReady, LoopRealtime, loopVars,
     envVars, histVars
<1>17. CASE LoopInternal
  BY <1>17, OrderScript DEF LoopInternal, loopVars, envVars, histVars, OrderInv, NumbersTagged
<1>18. CASE LoopStop
  BY <1>18, OrderScript DEF LoopStop, loopVars, envVars, histVars
<1>19. CASE LoopRegular
  <2>1. /\ ~Inert(inReg) /\ started' = inReg.id /\ spc' = "exec" /\ cur' = inReg
        /\ UNCHANGED <<pc, cmd, id, ret, writes, inReg, finished>>
    BY <1>19 DEF LoopRegular, Inert, loopVars, envVars, hostVars
  <2>0. /\ inReg.id \in Nat /\ started \in Nat /\ finished \in Nat /\ id \in Nat
        /\ \A i \in DOMAIN writes : writes[i].id \in Nat
    BY NumberTypes
  <2>2. inReg.id > 0 /\ inReg.id >= started
    BY <2>1, <2>0 DEF OrderInv, NumbersTagged, NumbersGrow
  <2>3. WritesBounded' /\ NumbersBounded'
    BY <2>0, <2>1, <2>2 DEF OrderInv, WritesBounded, NumbersBounded
  <2>4. NumbersGrow'
    BY <2>0, <2>1, <2>2 DEF OrderInv, NumbersGrow
  <2>5. NumbersTagged'
    BY <2>1, <2>2 DEF OrderInv, NumbersTagged, Inert
  <2> QED
    BY <2>3, <2>4, <2>5 DEF OrderInv
<1>20. CASE ExecDone
  <2>1. /\ spc = "exec" /\ spc' = "loop" /\ finished' \in {finished, started}
        /\ UNCHANGED <<pc, cmd, id, ret, writes, inReg, started>>
    BY <1>20 DEF ExecDone, loopVars, envVars, hostVars, OrderInv, NumbersTagged
  <2>2. finished' <= started
    BY <2>1 DEF OrderInv, NumbersBounded, TypeOK, ScriptTypeOK
  <2>3. WritesBounded' /\ NumbersBounded'
    BY <2>1, <2>2 DEF OrderInv, WritesBounded, NumbersBounded
  <2>4. NumbersGrow'
    BY <2>1 DEF OrderInv, NumbersGrow
  <2>5. NumbersTagged'
    BY <2>1 DEF OrderInv, NumbersTagged, Inert
  <2> QED
    BY <2>3, <2>4, <2>5 DEF OrderInv
<1>21. CASE ContactFires \/ ScriptDies
  BY <1>21, OrderScript DEF ContactFires, ScriptDies, envVars, histVars, OrderInv, NumbersTagged
<1>22. CASE RobotStops \/ RobotReleased
  BY <1>22, OrderScript DEF RobotStops, RobotReleased, scriptVars, histVars, OrderInv, NumbersTagged
<1>23. CASE Sample \/ Deliver \/ SkipPackage
  BY <1>23, OrderScript DEF Sample, Deliver, SkipPackage, scriptVars, histVars, OrderInv, NumbersTagged
<1>24. CASE UNCHANGED vars
  BY <1>24, OrderScript DEF vars, controllerVars, scriptVars, histVars, OrderInv, NumbersTagged
<1> QED
  BY <1>u, <1>1, <1>2, <1>3, <1>4, <1>5, <1>6, <1>7, <1>8, <1>9, <1>10, <1>11, <1>12,
     <1>13, <1>14, <1>15, <1>16, <1>17, <1>18, <1>19, <1>20, <1>21, <1>22, <1>23,
     <1>24 DEF Next, Client, Script

\* The initial state has the order.
LEMMA OrderInit == Init => OrderInv
  BY DEF Init, OrderInv, WritesBounded, NumbersBounded, NumbersGrow, NumbersTagged, Clear, PreSend,
     NoCmd, ContactDetected, Inert

\* The script never goes back to the command of an earlier call.
LEMMA StartedGrows == TypeOK /\ OrderInv /\ [Next]_vars => [started' > started]_started
<1> SUFFICES ASSUME TypeOK, OrderInv, Next, started' # started PROVE started' > started
  BY DEF vars, controllerVars, histVars
<1>1. ~ \E c \in Calls : Call(c)
  BY DEF Call, controllerVars, histVars
<1>2. ~ (ReuploadScript \/ Client \/ ReadyTimeout \/ ExecutionTimeout)
  BY DEF ReuploadScript, Client, CheckStopped, CheckRunning, WaitReady, ReadyMiss,
     ReadyTimeout, WaitDone, DoneMiss, WaitStop, StopMiss, ExecutionTimeout, ReadAnswer,
     Upload, UploadFails, Goto, controllerVars, histVars
<1>3. ~ (ReceiveWrite \/ RobotStops \/ RobotReleased \/ Sample \/ Deliver \/ SkipPackage)
  BY DEF ReceiveWrite, RobotStops, RobotReleased, Sample, Deliver, SkipPackage, histVars
<1>4. ~ (ContactFires \/ ScriptDies \/ Boot \/ LoopRealtime \/ LoopRealtimeReady
         \/ LoopIdle \/ LoopInternal \/ LoopStop \/ ExecDone)
  BY DEF ContactFires, ScriptDies, Boot, LoopRealtime, LoopRealtimeReady, LoopIdle,
     LoopInternal, LoopStop, ExecDone, histVars
<1>5. LoopRegular
  BY <1>1, <1>2, <1>3, <1>4 DEF Next, Script
<1>6. started' = inReg.id /\ ~Inert(inReg)
  BY <1>5 DEF LoopRegular, Inert
<1> QED
  BY <1>6 DEF OrderInv, NumbersTagged, NumbersGrow, TypeOK, ScriptTypeOK, Write

\* The commands of different calls enter process_cmd in call order, through
\* lost answers, timeouts, stops, script deaths and uploads.
THEOREM CallOrder == Spec => InOrder
<1>1. TypeOK /\ OrderInv /\ [Next]_vars => (TypeOK /\ OrderInv)'
  BY TypeStep, OrderStep
<1>2. Init => TypeOK /\ OrderInv
  BY TypeInit, OrderInit
<1> QED
  BY <1>1, <1>2, StartedGrows, PTL DEF Spec, InOrder

-----------------------------------------------------------------------------
(* At most once.                                                           *)

\* executing_cmd guards the command that stays in the register.
LEMMA OnceStep == TypeOK /\ OrderInv /\ OnceInv /\ [Next]_vars => OnceInv'
<1> SUFFICES ASSUME TypeOK, OrderInv, OnceInv, [Next]_vars PROVE OnceInv'
  OBVIOUS
<1>r. repeats \in Nat
  BY DEF TypeOK, ScriptTypeOK
<1>a. ASSUME UNCHANGED <<inReg, started, repeats, executing>>,
             spc' = spc \/ spc' \in {"exec", "off"} \/ (spc' = "rtDone" /\ spc = "loop")
                \/ (spc' = "loop" /\ spc = "rtDone")
      PROVE  OnceInv'
  BY <1>a DEF OnceInv, Inert
<1>1. ASSUME NEW c \in Calls, Call(c) PROVE OnceInv'
  BY <1>1, <1>a DEF Call, controllerVars, scriptVars, histVars
<1>2. CASE ReuploadScript \/ ReadyTimeout \/ ExecutionTimeout
  BY <1>2, <1>a DEF ReuploadScript, ReadyTimeout, ExecutionTimeout, controllerVars,
     scriptVars, histVars
<1>3. CASE CheckStopped \/ CheckRunning \/ WaitReady \/ ReadyMiss \/ ReadAnswer
  BY <1>3, <1>a DEF CheckStopped, CheckRunning, WaitReady, ReadyMiss, ReadAnswer,
     controllerVars, scriptVars, histVars
<1>4. CASE WaitDone \/ DoneMiss \/ WaitStop \/ StopMiss
  BY <1>4, <1>a DEF WaitDone, DoneMiss, WaitStop, StopMiss, controllerVars,
     scriptVars, histVars
<1>u. CASE UploadFails
  BY <1>u, <1>a DEF UploadFails, controllerVars, scriptVars, histVars
<1>5. CASE Upload
  BY <1>5 DEF Upload, OnceInv
<1>6. CASE ReceiveWrite
  <2>1. /\ writes # <<>> /\ inReg' = Head(writes)
        /\ UNCHANGED <<started, repeats, spc>>
    BY <1>6 DEF ReceiveWrite, scriptVars, histVars
  <2>2. 1 \in DOMAIN writes /\ inReg' = writes[1]
    BY <2>1, NumberTypes, TailElements
  <2>3. ~Inert(inReg') => inReg'.id # started
    BY <2>2, NumberTypes DEF OrderInv, NumbersGrow, NumbersTagged
  <2> QED
    BY <2>1, <2>3 DEF OnceInv, Inert
<1>7. CASE Boot
  BY <1>7, <1>r DEF Boot, OnceInv, Inert, loopVars, envVars, histVars
<1>8. CASE LoopIdle
  BY <1>8 DEF LoopIdle, OnceInv, Inert, loopVars, envVars, histVars
<1>9. CASE LoopRealtime \/ LoopRealtimeReady \/ LoopInternal
  BY <1>9, <1>a DEF LoopRealtime, LoopRealtimeReady, LoopInternal, loopVars, envVars,
     histVars
<1>10. CASE LoopStop
  BY <1>10 DEF LoopStop, OnceInv, loopVars, envVars, histVars
<1>11. CASE LoopRegular
  <2>1. /\ ~Inert(inReg) /\ spc = "loop" /\ spc' = "exec" /\ ~executing
        /\ repeats' = IF started = inReg.id THEN repeats + 1 ELSE 1
    BY <1>11 DEF LoopRegular, MayProcess, Inert
  <2>2. started = inReg.id => repeats = 0
    BY <2>1, <1>r DEF OnceInv
  <2> QED
    BY <2>1, <2>2, <1>r DEF OnceInv
<1>12. CASE ExecDone
  BY <1>12 DEF ExecDone, OnceInv, loopVars, envVars
<1>13. CASE ContactFires \/ ScriptDies
  BY <1>13, <1>a DEF ContactFires, ScriptDies, envVars, histVars
<1>14. CASE RobotStops \/ RobotReleased
  BY <1>14, <1>a DEF RobotStops, RobotReleased, scriptVars, histVars
<1>15. CASE Sample \/ Deliver \/ SkipPackage
  BY <1>15, <1>a DEF Sample, Deliver, SkipPackage, scriptVars, histVars
<1>16. CASE UNCHANGED vars
  BY <1>16, <1>a DEF vars, controllerVars, scriptVars, histVars
<1> QED
  BY <1>u, <1>1, <1>2, <1>3, <1>4, <1>5, <1>6, <1>7, <1>8, <1>9, <1>10, <1>11, <1>12,
     <1>13, <1>14, <1>15, <1>16 DEF Next, Client, Script

\* One upload of the script processes the regular command of a call at most
\* once, although the register keeps it for many cycles.
THEOREM ExecutedAtMostOnce == Spec => []AtMostOnce
<1>1. TypeOK /\ OrderInv /\ OnceInv /\ [Next]_vars => (TypeOK /\ OrderInv /\ OnceInv)'
  BY TypeStep, OrderStep, OnceStep
<1>2. Init => OnceInv
  BY DEF Init, OnceInv, Clear, Inert, NoCmd
<1>3. Init => TypeOK /\ OrderInv /\ OnceInv
  BY <1>2, TypeInit, OrderInit
<1>4. OnceInv => AtMostOnce
  BY DEF OnceInv, AtMostOnce
<1> QED
  BY <1>1, <1>3, <1>4, PTL DEF Spec

-----------------------------------------------------------------------------
(* The undisturbed run.                                                    *)

\* What the script reads from its registers is a command and a number.
LEMMA RegisterTypes ==
  ASSUME TypeOK
  PROVE  /\ packages \in Seq(Package) /\ Current \in Package
         /\ state.reg \in {RDY, DONE} /\ outReg \in {RDY, DONE}
         /\ \A i \in DOMAIN packages : packages[i].reg \in {RDY, DONE}
         /\ RDY # DONE
         /\ writes \in Seq(Write)
<1>1. \A p \in Package : p.reg \in {RDY, DONE}
  BY DEF Package
<1>2. \A i \in DOMAIN packages : packages[i] \in Package
  BY DEF TypeOK
<1> QED
  BY <1>1, <1>2, CurrentType DEF TypeOK, ScriptTypeOK, RDY, DONE

\* A call starts in an undisturbed run, or in a quiet system.
LEMMA CleanEnter ==
  ASSUME TypeOK, CleanInv, NEW c, NEW re, Enter(c, re), UNCHANGED controllerVars
  PROVE  CleanInv'
<1>0. /\ pc = "idle" /\ pc' = "enter" /\ clean' = (clean \/ Quiet)
      /\ UNCHANGED <<writes, inReg, executing, internal, outReg, spc, state, stop, packages>>
  BY DEF Enter, controllerVars, scriptVars
<1>1. ~Waiting /\ ~Waiting'
  BY <1>0 DEF Waiting
<1>2. CASE clean
  <2>1. ScriptInv /\ RestInv
    BY <1>1, <1>2 DEF CleanInv
  <2>2. ScriptInv'
    BY <1>0, <1>1, <2>1 DEF ScriptInv
  <2>3. RestInv'
    BY <1>0, <2>1 DEF RestInv, Inert
  <2> QED
    BY <1>1, <2>2, <2>3 DEF CleanInv
<1>3. CASE Quiet
  <2>1. ScriptInv'
    BY <1>0, <1>3 DEF Quiet, ScriptInv
  <2>2. RestInv'
    BY <1>0, <1>3 DEF Quiet, RestInv, Inert
  <2> QED
    BY <1>1, <2>1, <2>2 DEF CleanInv
<1>4. CASE ~clean /\ ~Quiet
  BY <1>0, <1>4 DEF CleanInv
<1> QED
  BY <1>2, <1>3, <1>4

\* Polling does not touch what the invariant is about.
LEMMA CleanGoto ==
  ASSUME CleanInv, NEW label, Goto(label), UNCHANGED controllerVars,
         Waiting <=> label \in {"waitDone", "doneMiss"}
  PROVE  CleanInv'
<1>0. /\ Waiting' <=> Waiting
      /\ Mine' = Mine
      /\ UNCHANGED <<clean, cmd, id, writes, inReg, executing, internal, outReg, spc, cur,
                     state, stop, packages, finished>>
  BY DEF Goto, Waiting, Mine, controllerVars, scriptVars, histVars
<1>1. ScriptInv => ScriptInv'
  BY <1>0 DEF ScriptInv
<1>2. WaitInv => WaitInv'
  BY <1>0 DEF WaitInv, Inert, Regular
<1>3. RestInv => RestInv'
  BY <1>0 DEF RestInv, Inert
<1> QED
  BY <1>0, <1>1, <1>2, <1>3 DEF CleanInv

\* A call that returns without having waited for DONE clears the register.
LEMMA CleanClear ==
  ASSUME TypeOK, CleanInv, ~Waiting, NEW ok, NEW ab, ClearAndReturn(ok, ab), UNCHANGED controllerVars
  PROVE  CleanInv'
<1>0. /\ writes' = Append(writes, Clear) /\ pc' \in {"upload", "read", "idle"}
      /\ clean' => clean
      /\ UNCHANGED <<inReg, executing, internal, outReg, spc, state, stop, packages>>
  BY DEF ClearAndReturn, SendClearCommand, Put, Return, controllerVars, scriptVars
<1>1. ~Waiting'
  BY <1>0 DEF Waiting
<1>2. SUFFICES ASSUME clean, ScriptInv, RestInv PROVE ScriptInv' /\ RestInv'
  BY <1>0, <1>1 DEF CleanInv
<1>3. \A i \in DOMAIN writes' : writes'[i] = Clear \/ (i \in DOMAIN writes /\ writes'[i] = writes[i])
  BY <1>0, RegisterTypes, Members, AppendElements
<1>4. Inert(Clear) /\ Clear.cmd = NoCmd
  BY DEF Clear, Inert
<1>5. ScriptInv'
  BY <1>0, <1>2, <1>1 DEF ScriptInv
<1>6. RestInv'
  BY <1>0, <1>2, <1>3, <1>4 DEF RestInv, Inert
<1> QED
  BY <1>5, <1>6

\* DONE in the cached state while the call waits is the answer to this call.
LEMMA CleanDone ==
  ASSUME TypeOK, CleanInv, Waiting, state.reg = DONE, NEW ok, NEW ab, ClearAndReturn(ok, ab),
         UNCHANGED controllerVars
  PROVE  CleanInv' /\ (clean => finished = id)
<1>0. /\ writes' = Append(writes, Clear) /\ pc' \in {"upload", "read", "idle"}
      /\ clean' => clean
      /\ UNCHANGED <<inReg, executing, internal, outReg, spc, state, stop, packages>>
  BY DEF ClearAndReturn, SendClearCommand, Put, Return, controllerVars, scriptVars
<1>1. ~Waiting'
  BY <1>0 DEF Waiting
<1>2. SUFFICES ASSUME clean, ScriptInv, WaitInv PROVE ScriptInv' /\ RestInv' /\ finished = id
  BY <1>0, <1>1 DEF CleanInv
<1>3. \A i \in DOMAIN writes' : writes'[i] = Clear \/ (i \in DOMAIN writes /\ writes'[i] = writes[i])
  BY <1>0, RegisterTypes, Members, AppendElements
<1>4. Inert(Clear) /\ Clear.cmd = NoCmd
  BY DEF Clear, Inert
<1>5. finished = id
  BY <1>2, RegisterTypes DEF WaitInv
<1>6. /\ executing /\ spc \in {"loop", "off"} /\ outReg = DONE
      /\ inReg = Mine /\ ~Inert(Mine) /\ writes = <<>>
      /\ \A i \in DOMAIN packages : packages[i].reg = DONE
  BY <1>2, <1>5 DEF WaitInv
<1>7. ScriptInv'
  BY <1>0, <1>2, <1>6 DEF ScriptInv
<1>8. RestInv'
  BY <1>0, <1>3, <1>4, <1>6, RegisterTypes DEF RestInv, Inert
<1> QED
  BY <1>5, <1>7, <1>8

\* RDY in the cached state means that nothing of an earlier call is left that
\* could signal DONE: the command may be sent.
LEMMA CleanSend ==
  ASSUME TypeOK, OrderInv, CleanInv, WaitReady, ~Goto("readyMiss")
  PROVE  CleanInv'
<1>d. DEFINE w == [cmd |-> Wire(cmd), id |-> id]
<1>0. /\ pc = "waitReady" /\ state.reg = RDY /\ writes' = Append(writes, w)
      /\ clean' = (clean /\ Agreed(cmd))
      /\ Waiting' <=> Regular(cmd)
      /\ UNCHANGED <<id, cmd, inReg, executing, internal, outReg, spc, cur, state, stop,
                     packages, finished>>
  BY DEF WaitReady, ControllerReady, Put, Return, Waiting, Regular, controllerVars,
     scriptVars, histVars
<1>1. ~Waiting
  BY <1>0 DEF Waiting
<1>2. SUFFICES ASSUME clean, Agreed(cmd), ScriptInv, RestInv PROVE CleanInv'
  BY <1>0, <1>1 DEF CleanInv
<1>3. w \in Write /\ w.cmd = Wire(cmd)
  BY Members DEF TypeOK, HostTypeOK
<1>4. /\ Len(writes') = Len(writes) + 1
      /\ \A i \in DOMAIN writes' : (i = Len(writes) + 1 /\ writes'[i] = w)
                                  \/ (i \in DOMAIN writes /\ writes'[i] = writes[i])
  BY <1>0, <1>3, RegisterTypes, AppendElements
<1>5. /\ ~(executing /\ spc = "loop") /\ spc # "exec" /\ spc # "boot"
      /\ outReg = RDY \/ spc = "rtDone"
      /\ Inert(inReg)
      /\ \A i \in DOMAIN packages : packages[i].reg = RDY
  BY <1>0, <1>1, <1>2, RegisterTypes DEF ScriptInv, RestInv
<1>6. ScriptInv'
  BY <1>0, <1>2, <1>5 DEF ScriptInv
<1>7. CASE ~Regular(cmd)
  <2>1. Inert(w)
    BY <1>2, <1>3, <1>7 DEF Agreed, Regular, Inert, Wire
  <2>2. RestInv'
    BY <1>0, <1>2, <1>4, <1>5, <2>1 DEF RestInv, Inert
  <2> QED
    BY <1>0, <1>6, <1>7, <2>2 DEF CleanInv
<1>8. CASE Regular(cmd)
  <2>1. "WATCHDOG" \in HostRT /\ "waitReady" \in PreSend
    BY DEF HostRT, PreSend
  <2>2. w = Mine /\ Mine' = Mine /\ cmd # NoCmd
    BY <1>0, <1>8, <2>1, NumberTypes DEF Regular, Wire, Mine, OrderInv, NumbersTagged
  <2>3. ~Inert(Mine)
    BY <1>2, <1>8, <2>1, <2>2 DEF Agreed, Regular, Inert, Wire, Mine
  <2>4. finished # id
    BY <1>0, <2>1, NumberTypes DEF OrderInv, NumbersBounded
  <2>5. executing => spc = "off"
    BY <1>2, <1>5 DEF ScriptInv, TypeOK, ScriptTypeOK
  <2>6. (\A i \in DOMAIN writes :
          Inert(writes[i]) \/ (i = Len(writes) /\ writes[i] = Mine))'
    BY <1>2, <1>4, <2>2 DEF RestInv, Inert
  <2>7. WaitInv'
    BY <1>0, <1>5, <1>8, <2>2, <2>3, <2>4, <2>5, <2>6 DEF WaitInv, Regular, Inert
  <2> QED
    BY <1>0, <1>6, <1>8, <2>7 DEF CleanInv
<1> QED
  BY <1>7, <1>8

\* A write arrives: the command of the waiting call, which is the last one in
\* flight, or one that cannot signal DONE.
LEMMA CleanReceive ==
  ASSUME TypeOK, CleanInv, ReceiveWrite
  PROVE  CleanInv'
<1>0. /\ Waiting' <=> Waiting
      /\ Mine' = Mine
      /\ writes # <<>> /\ writes' = Tail(writes) /\ inReg' = Head(writes)
      /\ UNCHANGED <<clean, cmd, id, executing, internal, outReg, spc, cur, state, stop,
                     packages, finished>>
  BY DEF ReceiveWrite, Waiting, Mine, hostVars, scriptVars, histVars
<1>1. /\ DOMAIN writes = 1 .. Len(writes) /\ Len(writes) \in Nat \ {0}
      /\ Len(writes') = Len(writes) - 1
      /\ DOMAIN writes' = 1 .. (Len(writes) - 1)
      /\ \A i \in DOMAIN writes' : i + 1 \in DOMAIN writes /\ writes'[i] = writes[i + 1]
      /\ 1 \in DOMAIN writes /\ inReg' = writes[1]
  BY <1>0, RegisterTypes, TailElements
<1>2. SUFFICES ASSUME clean, ScriptInv, Waiting => WaitInv, ~Waiting => RestInv
               PROVE  CleanInv'
  BY <1>0 DEF CleanInv
<1>3. ScriptInv'
  BY <1>0, <1>2 DEF ScriptInv
<1>4. CASE ~Waiting
  <2>1. RestInv'
    BY <1>0, <1>1, <1>2, <1>4 DEF RestInv, Inert
  <2> QED
    BY <1>0, <1>3, <1>4, <2>1 DEF CleanInv
<1>5. CASE Waiting
  <2>1. finished # id
    BY <1>0, <1>2, <1>5 DEF WaitInv
  <2>2. \A i \in DOMAIN writes : Inert(writes[i]) \/ (i = Len(writes) /\ writes[i] = Mine)
    BY <1>2, <1>5 DEF WaitInv
  <2>3. \A i \in DOMAIN writes' : Inert(writes'[i]) \/ (i = Len(writes') /\ writes'[i] = Mine)
    BY <1>1, <2>2
  <2>4. Inert(inReg') \/ (inReg' = Mine /\ writes' = <<>>)
    <3>1. CASE Inert(writes[1])
      BY <1>1, <3>1
    <3>2. CASE ~Inert(writes[1])
      <4>1. Len(writes') = 0 /\ inReg' = Mine
        BY <1>1, <2>2, <3>2
      <4>2. writes' \in Seq(Write)
        BY <1>0, RegisterTypes
      <4> QED
        BY <4>1, <4>2
    <3> QED
      BY <3>1, <3>2
  <2>5. WaitInv'
    BY <1>0, <1>2, <1>5, <2>1, <2>3, <2>4 DEF WaitInv, Inert, Regular
  <2> QED
    BY <1>0, <1>3, <1>5, <2>5 DEF CleanInv
<1> QED
  BY <1>4, <1>5

\* What the steps of the script leave alone.
LEMMA CleanFrame ==
  ASSUME UNCHANGED <<hostVars, writes, packages, state>>
  PROVE  /\ Waiting' <=> Waiting
         /\ Mine' = Mine
         /\ UNCHANGED <<cmd, id, writes, packages, state>>
  BY DEF Waiting, Mine, hostVars

\* A realtime command: DONE, which no package shows.
LEMMA CleanRealtime ==
  ASSUME TypeOK, CleanInv, LoopRealtime
  PROVE  CleanInv'
<1>0. /\ spc = "loop" /\ spc' = "rtDone" /\ Inert(inReg) /\ inReg.cmd # NoCmd /\ ~stop
      /\ UNCHANGED <<hostVars, writes, packages, state>>
      /\ UNCHANGED <<clean, inReg, cur, executing, internal, stop, finished>>
  BY DEF LoopRealtime, Inert, Running, loopVars, envVars, histVars, ScriptRT, NoCmd
<1>1. SUFFICES ASSUME clean, ScriptInv, Waiting => WaitInv, ~Waiting => RestInv
               PROVE  CleanInv'
  BY <1>0 DEF CleanInv
<1>2. ~executing
  BY <1>0, <1>1 DEF WaitInv, RestInv
<1>3. ScriptInv'
  BY <1>0, <1>1, <1>2, CleanFrame DEF ScriptInv
<1>4. Waiting => WaitInv'
  BY <1>0, <1>1, <1>2, CleanFrame DEF WaitInv, Inert, Regular
<1>5. ~Waiting => RestInv'
  BY <1>0, <1>1, <1>2, CleanFrame DEF RestInv, Inert
<1> QED
  BY <1>0, <1>3, <1>4, <1>5, CleanFrame DEF CleanInv

\* A realtime command that is processed at once leaves the script clean.
LEMMA CleanRealtimeReady ==
  ASSUME TypeOK, CleanInv, LoopRealtimeReady
  PROVE  CleanInv'
<1>0. /\ spc = "rtDone" /\ spc' = "loop" /\ outReg' = RDY
      /\ UNCHANGED <<hostVars, writes, packages, state>>
      /\ UNCHANGED <<clean, inReg, cur, executing, internal, stop, finished>>
  BY DEF LoopRealtimeReady, SignalReady, loopVars, envVars, histVars
<1>1. SUFFICES ASSUME clean, ScriptInv, Waiting => WaitInv, ~Waiting => RestInv
               PROVE  CleanInv'
  BY <1>0 DEF CleanInv
<1>2. ~executing
  BY <1>0, <1>1 DEF ScriptInv
<1>3. ScriptInv'
  BY <1>0, <1>1, <1>2, CleanFrame DEF ScriptInv
<1>4. Waiting => WaitInv'
  BY <1>0, <1>1, <1>2, CleanFrame DEF WaitInv, Inert, Regular
<1>5. ~Waiting => RestInv'
  BY <1>0, <1>1, <1>2, CleanFrame DEF RestInv, Inert
<1> QED
  BY <1>0, <1>3, <1>4, <1>5, CleanFrame DEF CleanInv

\* NO_CMD: executing_cmd is reset and RDY signalled; no call waits for DONE of
\* a command that was processed, for that command is still in the register.
LEMMA CleanIdle ==
  ASSUME TypeOK, CleanInv, LoopIdle
  PROVE  CleanInv'
<1>0. /\ spc = "loop" /\ spc' = spc /\ outReg' = RDY /\ executing' = FALSE /\ Inert(inReg)
      /\ UNCHANGED <<hostVars, writes, packages, state>>
      /\ UNCHANGED <<clean, inReg, cur, internal, stop, finished>>
  BY DEF LoopIdle, SignalReady, Inert, loopVars, envVars, histVars
<1>1. SUFFICES ASSUME clean, ScriptInv, Waiting => WaitInv, ~Waiting => RestInv
               PROVE  CleanInv'
  BY <1>0 DEF CleanInv
<1>3. ScriptInv'
  BY <1>0, <1>1, CleanFrame DEF ScriptInv
<1>4. Waiting => WaitInv'
  <2>1. Waiting => finished # id
    BY <1>0, <1>1 DEF WaitInv
  <2> QED
    BY <1>0, <1>1, <2>1, CleanFrame DEF WaitInv, Inert, Regular
<1>5. ~Waiting => RestInv'
  BY <1>0, <1>1, CleanFrame DEF RestInv, Inert
<1> QED
  BY <1>0, <1>3, <1>4, <1>5, CleanFrame DEF CleanInv

\* STOP_SCRIPT leaves the script clean.
LEMMA CleanStop ==
  ASSUME TypeOK, CleanInv, LoopStop
  PROVE  CleanInv'
<1>0. /\ spc = "loop" /\ spc' = "off" /\ Inert(inReg) /\ ~executing
      /\ UNCHANGED <<hostVars, writes, packages, state>>
      /\ UNCHANGED <<clean, inReg, cur, internal, outReg, stop, finished>>
  BY DEF LoopStop, MayProcess, Inert, loopVars, envVars, histVars
<1>1. SUFFICES ASSUME clean, ScriptInv, Waiting => WaitInv, ~Waiting => RestInv
               PROVE  CleanInv'
  BY <1>0 DEF CleanInv
<1>3. ScriptInv'
  BY <1>0, <1>1, CleanFrame DEF ScriptInv
<1>4. Waiting => WaitInv'
  <2>1. Waiting => finished # id
    BY <1>0, <1>1 DEF WaitInv
  <2> QED
    BY <1>0, <1>1, <2>1, CleanFrame DEF WaitInv, Inert, Regular
<1>5. ~Waiting => RestInv'
  BY <1>0, <1>1, CleanFrame DEF RestInv, Inert
<1> QED
  BY <1>0, <1>3, <1>4, <1>5, CleanFrame DEF CleanInv

\* Only the command of the call that waits enters process_cmd ...
LEMMA CleanRegular ==
  ASSUME TypeOK, CleanInv, LoopRegular
  PROVE  CleanInv'
<1>0. /\ spc = "loop" /\ spc' = "exec" /\ ~Inert(inReg) /\ ~executing /\ cur' = inReg
      /\ UNCHANGED <<hostVars, writes, packages, state>>
      /\ UNCHANGED <<clean, inReg, executing, internal, outReg, stop, finished>>
  BY DEF LoopRegular, MayProcess, Inert, loopVars, envVars
<1>1. SUFFICES ASSUME clean, ScriptInv, Waiting => WaitInv, ~Waiting => RestInv
               PROVE  CleanInv'
  BY <1>0 DEF CleanInv
<1>2. Waiting
  BY <1>0, <1>1 DEF RestInv
<1>3. inReg = Mine /\ writes = <<>> /\ finished # id /\ outReg = RDY
  BY <1>0, <1>1, <1>2 DEF WaitInv, ScriptInv
<1>4. ScriptInv'
  BY <1>0, <1>1, <1>2, <1>3, CleanFrame DEF ScriptInv
<1>5. WaitInv'
  BY <1>0, <1>1, <1>2, <1>3, CleanFrame DEF WaitInv, Inert, Regular
<1> QED
  BY <1>0, <1>2, <1>4, <1>5, CleanFrame DEF CleanInv

\* ... and DONE is the answer to that call.
LEMMA CleanExecDone ==
  ASSUME TypeOK, OrderInv, CleanInv, ExecDone
  PROVE  CleanInv'
<1>0. /\ spc = "exec" /\ spc' = "loop" /\ executing' = TRUE /\ outReg' = DONE
      /\ finished' = IF cur.cmd = ContactDetected THEN finished ELSE cur.id
      /\ UNCHANGED <<hostVars, writes, packages, state>>
      /\ UNCHANGED <<clean, inReg, internal, stop>>
  BY DEF ExecDone, SignalDone, loopVars, envVars
<1>1. SUFFICES ASSUME clean, ScriptInv, Waiting => WaitInv PROVE CleanInv'
  BY <1>0 DEF CleanInv
<1>2. /\ Waiting /\ cur = Mine /\ inReg = Mine /\ writes = <<>> /\ finished # id
      /\ state.reg = RDY /\ \A i \in DOMAIN packages : packages[i].reg = RDY
  BY <1>0, <1>1 DEF ScriptInv, WaitInv
<1>3. finished' = id
  BY <1>0, <1>2 DEF Mine, OrderInv, NumbersTagged
<1>4. ScriptInv'
  BY <1>0, <1>1, CleanFrame DEF ScriptInv
<1>5. WaitInv'
  BY <1>0, <1>1, <1>2, <1>3, CleanFrame, RegisterTypes DEF WaitInv, Inert, Regular
<1> QED
  BY <1>0, <1>2, <1>4, <1>5, CleanFrame DEF CleanInv

\* The script ends, and so does every later DONE.
LEMMA CleanOff ==
  ASSUME TypeOK, CleanInv, spc' = "off" \/ spc' = spc, spc = "rtDone" => spc' = spc,
         stop' => stop \/ spc' # "rtDone", clean' => clean,
         UNCHANGED <<hostVars, writes, packages, state>>,
         UNCHANGED <<inReg, cur, executing, internal, outReg, finished>>
  PROVE  CleanInv'
<1>1. SUFFICES ASSUME clean, ScriptInv, Waiting => WaitInv, ~Waiting => RestInv
               PROVE  CleanInv'
  BY DEF CleanInv
<1>3. ScriptInv'
  BY <1>1, CleanFrame DEF ScriptInv
<1>4. Waiting => WaitInv'
  BY <1>1, CleanFrame DEF WaitInv, Inert, Regular
<1>5. ~Waiting => RestInv'
  BY <1>1, CleanFrame DEF RestInv, Inert
<1> QED
  BY <1>3, <1>4, <1>5, CleanFrame DEF CleanInv

\* A package shows the register; DONE of a realtime command disturbs the run.
LEMMA CleanSample ==
  ASSUME TypeOK, CleanInv, Sample
  PROVE  CleanInv'
<1>0. /\ packages' = Append(packages, Current)
      /\ clean' => clean /\ spc # "rtDone"
      /\ Waiting' <=> Waiting
      /\ Mine' = Mine
      /\ UNCHANGED <<cmd, id, writes, inReg, executing, internal, outReg, spc, cur, state,
                     stop, finished>>
  BY DEF Sample, Waiting, Mine, hostVars, scriptVars, histVars
<1>1. SUFFICES ASSUME clean, spc # "rtDone", ScriptInv, Waiting => WaitInv, ~Waiting => RestInv
               PROVE  CleanInv'
  BY <1>0 DEF CleanInv
<1>2. Current.reg = outReg
  BY DEF Current
<1>3. /\ DOMAIN packages = 1 .. Len(packages) /\ Len(packages) \in Nat
      /\ DOMAIN packages' = 1 .. (Len(packages) + 1)
      /\ \A i \in DOMAIN packages' :
            \/ i = Len(packages) + 1 /\ packages'[i].reg = outReg
            \/ i \in DOMAIN packages /\ packages'[i] = packages[i] /\ i < Len(packages) + 1
  BY <1>0, <1>2, RegisterTypes, AppendElements
<1>4. ScriptInv'
  BY <1>0, <1>1 DEF ScriptInv
<1>5. CASE Waiting
  <2>1. CASE finished # id
    BY <1>0, <1>1, <1>3, <1>4, <1>5, <2>1 DEF CleanInv, WaitInv, Inert, Regular
  <2>2. CASE finished = id
    <3>1. /\ outReg = DONE
          /\ state.reg = DONE => \A i \in DOMAIN packages : packages[i].reg = DONE
          /\ \A i, j \in DOMAIN packages :
                i < j /\ packages[i].reg = DONE => packages[j].reg = DONE
      BY <1>1, <1>5, <2>2 DEF WaitInv
    <3>2. state.reg = DONE => \A i \in DOMAIN packages' : packages'[i].reg = DONE
      BY <1>3, <3>1
    <3>3. \A i, j \in DOMAIN packages' :
             i < j /\ packages'[i].reg = DONE => packages'[j].reg = DONE
      BY <1>3, <3>1
    <3>4. WaitInv'
      BY <1>0, <1>1, <1>5, <2>2, <3>2, <3>3 DEF WaitInv, Inert, Regular
    <3> QED
      BY <1>0, <1>4, <1>5, <3>4 DEF CleanInv
  <2> QED
    BY <2>1, <2>2
<1>6. CASE ~Waiting
  <2>1. (executing /\ spc = "loop" => \A i \in DOMAIN packages : packages[i].reg = DONE)'
    BY <1>0, <1>1, <1>3, <1>6 DEF RestInv, ScriptInv
  <2>2. (state.reg = RDY => \A i \in DOMAIN packages : packages[i].reg = RDY)'
    BY <1>0, <1>1, <1>3, <1>6 DEF RestInv
  <2>3. (\A i \in DOMAIN packages : packages[i].reg = RDY => outReg = RDY \/ spc = "rtDone")'
    BY <1>0, <1>1, <1>3, <1>6 DEF RestInv
  <2>4. (\A i, j \in DOMAIN packages : packages[i].reg = RDY /\ i < j => packages[j].reg = RDY)'
    BY <1>0, <1>1, <1>3, <1>6 DEF RestInv
  <2>5. RestInv'
    BY <1>0, <1>1, <1>6, <2>1, <2>2, <2>3, <2>4 DEF RestInv, Inert
  <2> QED
    BY <1>0, <1>4, <1>6, <2>5 DEF CleanInv
<1> QED
  BY <1>5, <1>6

\* The packages shift by one, with or without reaching the cached state.
LEMMA CleanDeliver ==
  ASSUME TypeOK, CleanInv, Deliver \/ SkipPackage
  PROVE  CleanInv'
<1>0. /\ packages # <<>> /\ packages' = Tail(packages)
      /\ state' = state \/ state' = Head(packages)
      /\ Waiting' <=> Waiting
      /\ Mine' = Mine
      /\ UNCHANGED <<clean, cmd, id, writes, inReg, executing, internal, outReg, spc, cur,
                     stop, finished>>
  BY DEF Deliver, SkipPackage, Waiting, Mine, hostVars, scriptVars, histVars
<1>1. SUFFICES ASSUME clean, ScriptInv, Waiting => WaitInv, ~Waiting => RestInv
               PROVE  CleanInv'
  BY <1>0 DEF CleanInv
<1>2. /\ DOMAIN packages = 1 .. Len(packages) /\ Len(packages) \in Nat \ {0}
      /\ DOMAIN packages' = 1 .. (Len(packages) - 1)
      /\ \A i \in DOMAIN packages' : packages'[i] = packages[i + 1]
      /\ Head(packages) = packages[1]
  BY <1>0, RegisterTypes, TailElements
<1>3. /\ 1 \in DOMAIN packages
      /\ \A i \in DOMAIN packages' : i + 1 \in DOMAIN packages /\ 1 < i + 1
      /\ \A i, j \in DOMAIN packages' : i < j => i + 1 < j + 1
  BY <1>2
<1>4. ScriptInv'
  BY <1>0, <1>1 DEF ScriptInv
<1>5. CASE Waiting
  <2>1. CASE finished # id
    BY <1>0, <1>1, <1>2, <1>3, <1>4, <1>5, <2>1 DEF CleanInv, WaitInv, Inert, Regular
  <2>2. CASE finished = id
    <3>1. /\ state.reg = DONE => \A i \in DOMAIN packages : packages[i].reg = DONE
          /\ \A i, j \in DOMAIN packages :
                i < j /\ packages[i].reg = DONE => packages[j].reg = DONE
      BY <1>1, <1>5, <2>2 DEF WaitInv
    <3>2. state'.reg = DONE => \A i \in DOMAIN packages' : packages'[i].reg = DONE
      BY <1>0, <1>2, <1>3, <3>1
    <3>3. \A i, j \in DOMAIN packages' :
             i < j /\ packages'[i].reg = DONE => packages'[j].reg = DONE
      BY <1>2, <1>3, <3>1
    <3>4. WaitInv'
      BY <1>0, <1>1, <1>5, <2>2, <3>2, <3>3 DEF WaitInv, Inert, Regular
    <3> QED
      BY <1>0, <1>4, <1>5, <3>4 DEF CleanInv
  <2> QED
    BY <2>1, <2>2
<1>6. CASE ~Waiting
  <2>1. (executing /\ spc = "loop" =>
           state.reg = DONE /\ \A i \in DOMAIN packages : packages[i].reg = DONE)'
    BY <1>0, <1>1, <1>2, <1>3, <1>6 DEF RestInv
  <2>2. (state.reg = RDY => /\ outReg = RDY \/ spc = "rtDone"
                            /\ \A i \in DOMAIN packages : packages[i].reg = RDY)'
    BY <1>0, <1>1, <1>2, <1>3, <1>6 DEF RestInv
  <2>3. (\A i \in DOMAIN packages : packages[i].reg = RDY => outReg = RDY \/ spc = "rtDone")'
    BY <1>0, <1>1, <1>2, <1>3, <1>6 DEF RestInv
  <2>4. (\A i, j \in DOMAIN packages : packages[i].reg = RDY /\ i < j => packages[j].reg = RDY)'
    BY <1>0, <1>1, <1>2, <1>3, <1>6 DEF RestInv
  <2>5. RestInv'
    BY <1>0, <1>1, <1>6, <2>1, <2>2, <2>3, <2>4 DEF RestInv, Inert
  <2> QED
    BY <1>0, <1>4, <1>6, <2>5 DEF CleanInv
<1> QED
  BY <1>5, <1>6

\* Every step keeps the script clean.
LEMMA CleanStep == TypeOK /\ OrderInv /\ CleanInv /\ [Next]_vars => CleanInv'
<1> SUFFICES ASSUME TypeOK, OrderInv, CleanInv, [Next]_vars PROVE CleanInv'
  OBVIOUS
<1>1. ASSUME NEW c \in Calls, Call(c) PROVE CleanInv'
  BY <1>1, CleanEnter DEF Call
<1>2. CASE ReuploadScript
  BY <1>2, CleanEnter, CleanGoto DEF ReuploadScript, Waiting
<1>3. CASE CheckStopped
  BY <1>3, CleanClear, CleanGoto DEF CheckStopped, Waiting
<1>4. CASE CheckRunning
  BY <1>4, CleanClear, CleanGoto DEF CheckRunning, Waiting
<1>5. CASE WaitReady
  <2>1. CASE Goto("readyMiss")
    BY <1>5, <2>1, CleanGoto DEF WaitReady, Waiting
  <2> QED
    BY <1>5, <2>1, CleanSend
<1>6. CASE ReadyMiss
  BY <1>6, CleanClear, CleanGoto DEF ReadyMiss, Waiting
<1>7. CASE ReadyTimeout
  BY <1>7, CleanClear DEF ReadyTimeout, Waiting
<1>8. CASE WaitDone
  BY <1>8, CleanDone, CleanGoto DEF WaitDone, Waiting
<1>a. ASSUME NEW ok, ClearAndReturn(ok, TRUE) PROVE CleanInv'
  BY <1>a DEF ClearAndReturn, CleanInv
<1>9. CASE DoneMiss
  BY <1>9, <1>a, CleanGoto DEF DoneMiss, Waiting
<1>10. CASE WaitStop
  BY <1>10, CleanClear, CleanGoto DEF WaitStop, Waiting
<1>11. CASE StopMiss
  BY <1>11, <1>a, CleanGoto DEF StopMiss, Waiting
<1>12. CASE ExecutionTimeout
  BY <1>12, <1>a DEF ExecutionTimeout
<1>13. CASE ReadAnswer
  <2>1. /\ ~Waiting
        /\ ~Waiting'
        /\ UNCHANGED <<clean, writes, inReg, executing, internal, outReg, spc, state, stop, packages>>
    BY <1>13 DEF ReadAnswer, Waiting, controllerVars, scriptVars
  <2>2. ScriptInv /\ ~Waiting => ScriptInv'
    BY <2>1 DEF ScriptInv
  <2>3. RestInv => RestInv'
    BY <2>1 DEF RestInv, Inert
  <2> QED
    BY <2>1, <2>2, <2>3 DEF CleanInv
<1>u. CASE UploadFails
  BY <1>u, CleanGoto DEF UploadFails, Waiting
<1>14. CASE Upload \/ ContactFires
  BY <1>14 DEF Upload, ContactFires, CleanInv
<1>15. CASE ReceiveWrite
  BY <1>15, CleanReceive
<1>16. CASE Boot
  BY <1>16 DEF Boot, CleanInv, ScriptInv
<1>17. CASE LoopRealtime \/ LoopRealtimeReady \/ LoopIdle
  BY <1>17, CleanRealtime, CleanRealtimeReady, CleanIdle
<1>18. CASE LoopInternal
  BY <1>18 DEF LoopInternal, CleanInv, ScriptInv
<1>19. CASE LoopStop \/ LoopRegular \/ ExecDone
  BY <1>19, CleanStop, CleanRegular, CleanExecDone
<1>20. CASE ScriptDies
  BY <1>20, CleanOff DEF ScriptDies, envVars, histVars
<1>21. CASE RobotStops
  <2>1. CASE clean'
    BY <1>21, <2>1, CleanOff DEF RobotStops, scriptVars, histVars
  <2>2. CASE ~clean'
    BY <2>2 DEF CleanInv
  <2> QED
    BY <2>1, <2>2
<1>22. CASE RobotReleased
  <2>1. CASE clean
    <3>1. spc # "rtDone"
      BY <1>22, <2>1 DEF RobotReleased, CleanInv, ScriptInv
    <3> QED
      BY <1>22, <3>1, CleanOff DEF RobotReleased, histVars
  <2>2. CASE ~clean
    BY <1>22, <2>2 DEF RobotReleased, CleanInv
  <2> QED
    BY <2>1, <2>2
<1>23. CASE Sample \/ Deliver \/ SkipPackage
  BY <1>23, CleanSample, CleanDeliver
<1>24. CASE UNCHANGED vars
  BY <1>24, CleanOff DEF vars, controllerVars, scriptVars, histVars
<1> QED
  BY <1>u, <1>1, <1>2, <1>3, <1>4, <1>5, <1>6, <1>7, <1>8, <1>9, <1>10, <1>11, <1>12,
     <1>13, <1>14, <1>15, <1>16, <1>17, <1>18, <1>19, <1>20, <1>21, <1>22, <1>23,
     <1>24 DEF Next, Client, Script

\* The script starts clean.
LEMMA CleanInit == Init => CleanInv
<1> SUFFICES ASSUME Init PROVE ScriptInv /\ ~Waiting /\ RestInv
  BY DEF CleanInv
<1>1. ScriptInv /\ ~Waiting
  BY DEF Init, ScriptInv, Waiting
<1>2. state.reg = RDY
  BY DEF Init, Current
<1> QED
  BY <1>1, <1>2 DEF Init, RestInv, Inert, Clear, RDY, DONE

-----------------------------------------------------------------------------
(* What the answer of sendCommand means.                                   *)

SuccessInv ==
    /\ SuccessMeansExecuted
    /\ pc \in {"waitStop", "stopMiss"} => cmd = StopScript

\* A call that fails, or that did not wait for DONE, claims nothing.
LEMMA SuccessReturn ==
  ASSUME SuccessInv, NEW ok, NEW ab, ClearAndReturn(ok, ab), ~ok \/ ~Regular(cmd)
  PROVE  SuccessInv'
  BY DEF SuccessInv, SuccessMeansExecuted, ClearAndReturn, Return, Regular

\* A phase of the same call leaves the record of the last result alone.
LEMMA SuccessGoto ==
  ASSUME SuccessInv, NEW label, Goto(label), UNCHANGED controllerVars,
         label \in {"waitStop", "stopMiss"} => pc \in {"waitStop", "stopMiss"}
  PROVE  SuccessInv'
  BY DEF SuccessInv, SuccessMeansExecuted, Goto, Regular, controllerVars, histVars

\* So does a new call.
LEMMA SuccessEnter ==
  ASSUME SuccessInv, NEW c, NEW re, Enter(c, re), UNCHANGED controllerVars
  PROVE  SuccessInv'
  BY DEF SuccessInv, SuccessMeansExecuted, Enter, Regular, controllerVars, histVars

\* So does a step that touches neither the result nor the executions.
LEMMA SuccessFrame ==
  ASSUME TypeOK, SuccessInv, UNCHANGED hostVars, finished' \in Nat, finished' >= finished
  PROVE  SuccessInv'
  BY NumberTypes DEF SuccessInv, SuccessMeansExecuted, Regular, hostVars

\* Every step keeps the success invariant.
LEMMA SuccessStep ==
  TypeOK /\ OrderInv /\ CleanInv /\ SuccessInv /\ [Next]_vars => SuccessInv'
<1> SUFFICES ASSUME TypeOK, OrderInv, CleanInv, SuccessInv, [Next]_vars PROVE SuccessInv'
  OBVIOUS
<1>s. ~Regular(StopScript) /\ finished \in Nat
  BY NumberTypes DEF Regular
<1>1. ASSUME NEW c \in Calls, Call(c) PROVE SuccessInv'
  BY <1>1, SuccessEnter DEF Call
<1>2. CASE ReuploadScript
  BY <1>2, SuccessEnter, SuccessGoto DEF ReuploadScript
<1>3. CASE CheckStopped \/ CheckRunning
  BY <1>3, SuccessReturn, SuccessGoto DEF CheckStopped, CheckRunning
<1>4. CASE WaitReady
  <2>1. CASE Goto("readyMiss")
    BY <1>4, <2>1, SuccessGoto DEF WaitReady
  <2>2. CASE ~Goto("readyMiss") /\ cmd \in HostRT
    BY <1>4, <2>2 DEF WaitReady, Return, SuccessInv, SuccessMeansExecuted, Regular
  <2>3. CASE ~Goto("readyMiss") /\ cmd \notin HostRT
    BY <1>4, <2>3 DEF WaitReady, SuccessInv, SuccessMeansExecuted, Regular,
       controllerVars, histVars
  <2> QED
    BY <2>1, <2>2, <2>3
<1>5. CASE ReadyMiss \/ ReadyTimeout
  BY <1>5, SuccessReturn, SuccessGoto DEF ReadyMiss, ReadyTimeout
<1>6. CASE WaitDone
  <2>1. CASE Goto("doneMiss")
    BY <1>6, <2>1, SuccessGoto DEF WaitDone
  <2>2. CASE state.reg = DONE /\ ClearAndReturn(TRUE, FALSE)
    <3>1. /\ ret'.id = id /\ ret'.clean = clean'
          /\ clean' => clean
          /\ pc' \notin {"waitStop", "stopMiss"} /\ UNCHANGED <<id, finished, controllerVars>>
      BY <1>6, <2>2 DEF WaitDone, ClearAndReturn, Return, controllerVars, histVars
    <3>2. clean => finished = id
      BY <1>6, <2>2, CleanDone DEF WaitDone, Waiting
    <3>3. clean' => finished' >= ret'.id
      BY <3>1, <3>2, NumberTypes
    <3> QED
      BY <3>1, <3>3 DEF SuccessInv, SuccessMeansExecuted
  <2> QED
    BY <1>6, <2>1, <2>2 DEF WaitDone
<1>7. CASE DoneMiss
  BY <1>7, SuccessReturn, SuccessGoto DEF DoneMiss
<1>8. CASE WaitStop \/ StopMiss
  BY <1>8, <1>s, SuccessReturn, SuccessGoto DEF WaitStop, StopMiss, SuccessInv
<1>9. CASE ExecutionTimeout
  BY <1>9, SuccessReturn DEF ExecutionTimeout
<1>10. CASE ReadAnswer
  <2>1. ret'.id = ret.id /\ ret'.ok = ret.ok /\ ret'.cmd = ret.cmd /\ ret'.clean = ret.clean
    BY <1>10 DEF ReadAnswer, TypeOK, HostTypeOK
  <2> QED
    BY <1>10, <2>1 DEF ReadAnswer, SuccessInv, SuccessMeansExecuted, Regular,
       controllerVars, histVars
<1>u. CASE UploadFails
  BY <1>u, SuccessGoto DEF UploadFails
<1>11. CASE Upload
  BY <1>11 DEF Upload, SuccessInv, SuccessMeansExecuted, Regular
<1>12. CASE ExecDone
  <2>1. finished' \in {finished, started}
    BY <1>12 DEF ExecDone, OrderInv, NumbersTagged
  <2>2. finished' \in Nat /\ finished' >= finished
    BY <2>1, NumberTypes DEF OrderInv, NumbersBounded
  <2> QED
    BY <1>12, <2>2, SuccessFrame DEF ExecDone, loopVars, envVars
<1>f. ASSUME UNCHANGED <<hostVars, finished>> PROVE SuccessInv'
  BY <1>f, <1>s, SuccessFrame
<1>13. CASE Boot \/ LoopIdle \/ LoopRealtime \/ LoopRealtimeReady \/ LoopInternal
  BY <1>13, <1>f DEF Boot, LoopIdle, LoopRealtime, LoopRealtimeReady, LoopInternal, loopVars,
     envVars, histVars
<1>14. CASE LoopStop \/ LoopRegular \/ ContactFires \/ ScriptDies
  BY <1>14, <1>f DEF LoopStop, LoopRegular, ContactFires, ScriptDies, loopVars, envVars,
     histVars
<1>15. CASE ReceiveWrite \/ RobotStops \/ RobotReleased
  BY <1>15, <1>f DEF ReceiveWrite, RobotStops, RobotReleased, histVars
<1>16. CASE Sample \/ Deliver \/ SkipPackage
  BY <1>16, <1>f DEF Sample, Deliver, SkipPackage, histVars
<1>17. CASE UNCHANGED vars
  BY <1>17, <1>f DEF vars, controllerVars, histVars
<1> QED
  BY <1>u, <1>1, <1>2, <1>3, <1>4, <1>5, <1>6, <1>7, <1>8, <1>9, <1>10, <1>11, <1>12,
     <1>13, <1>14, <1>15, <1>16, <1>17 DEF Next, Client, Script

Inv == TypeOK /\ OrderInv /\ CleanInv /\ SuccessInv

\* All parts of the inductive invariant together.
LEMMA InvCorrect == Spec => []Inv
<1>1. Init => SuccessInv
  BY DEF Init, SuccessInv, SuccessMeansExecuted
<1>2. Init => Inv
  BY <1>1, TypeInit, OrderInit, CleanInit DEF Inv
<1>3. Inv /\ [Next]_vars => Inv'
  BY TypeStep, OrderStep, CleanStep, SuccessStep DEF Inv
<1> QED
  BY <1>2, <1>3, PTL DEF Spec

\* sendCommand reports success for a command it waits for only if the script
\* has processed that very call, as long as nothing disturbed the run: a DONE
\* of an earlier call is never taken for the answer.
THEOREM SuccessIsReal == Spec => []SuccessMeansExecuted
<1>1. Inv => SuccessMeansExecuted
  BY DEF Inv, SuccessInv
<1> QED
  BY <1>1, InvCorrect, PTL

\* In an undisturbed run the script executes a regular command only while its
\* caller is inside sendCommand.
THEOREM IdleIsDone == Spec => []IdleMeansDone
<1>1. Inv => IdleMeansDone
  BY DEF Inv, IdleMeansDone, CleanInv, ScriptInv, Waiting
<1> QED
  BY <1>1, InvCorrect, PTL

-----------------------------------------------------------------------------
(* The answer of a getter.                                                 *)

\* While the call waits, every DONE on the way comes with its own answer.
AnswerOnItsWay ==
    clean /\ Waiting /\ cmd \in Getters /\ finished = id =>
        /\ outVal = id
        /\ state.reg = DONE => state.val = id
        /\ \A i \in DOMAIN packages : packages[i].reg = DONE => packages[i].val = id

\* sendCommand has returned and the getter has not read its answer yet.
Held == pc = "read" /\ ret.ok /\ ret.clean /\ Regular(ret.cmd)

\* Until then nothing replaces the answer, also if the run is disturbed now: no
\* other command is on its way to the script.
AnswerHeld ==
    Held => /\ ret.id = id
            /\ outVal = id /\ state.val = id
            /\ \A i \in DOMAIN packages : packages[i].val = id
            /\ \A i \in DOMAIN writes : writes[i].cmd = NoCmd
            /\ inReg.cmd = NoCmd \/ inReg.id = id
            /\ spc = "exec" => cur.cmd = ContactDetected \/ cur.id = id

FreshInv ==
    /\ reupload => cmd = StopScript
    /\ AnswerOnItsWay
    /\ AnswerHeld
    /\ AnswerIsFresh

\* A call that fails, or that did not wait for DONE, has no answer to read.
LEMMA FreshReturn ==
  ASSUME FreshInv, NEW ok, NEW ab, ClearAndReturn(ok, ab), ~ok \/ ~Regular(cmd)
  PROVE  FreshInv'
  BY DEF FreshInv, AnswerOnItsWay, AnswerHeld, Held, AnswerIsFresh, Waiting, Regular,
     ClearAndReturn, Return

\* A phase of the same call.
LEMMA FreshGoto ==
  ASSUME FreshInv, NEW label, Goto(label), UNCHANGED controllerVars, label # "read", pc # "read",
         label \in {"waitDone", "doneMiss"} => pc \in {"waitDone", "doneMiss"}
  PROVE  FreshInv'
  BY DEF FreshInv, AnswerOnItsWay, AnswerHeld, Held, AnswerIsFresh, Waiting, Regular, Goto,
     controllerVars, scriptVars, histVars

\* A new call.
LEMMA FreshEnter ==
  ASSUME FreshInv, NEW c, NEW re, Enter(c, re), re => c = StopScript
  PROVE  FreshInv'
  BY DEF FreshInv, AnswerOnItsWay, AnswerHeld, Held, AnswerIsFresh, Waiting, Regular, Enter

\* A step of the controller that leaves answers and commands where they are.
LEMMA FreshFrame ==
  ASSUME FreshInv, UNCHANGED <<hostVars, writes, inReg, outVal, state, packages, finished>>,
         clean' => clean, spc' = "exec" => (spc = "exec" /\ cur' = cur) \/ cur'.cmd = ContactDetected
  PROVE  FreshInv'
  BY DEF FreshInv, AnswerOnItsWay, AnswerHeld, Held, AnswerIsFresh, Waiting, Regular, hostVars

\* DONE is seen: the packages behind it come with the answer, too.
LEMMA FreshDone ==
  ASSUME TypeOK, OrderInv, CleanInv, FreshInv, pc = "waitDone", state.reg = DONE,
         ClearAndReturn(TRUE, FALSE), UNCHANGED controllerVars
  PROVE  FreshInv'
<1>1. /\ ret' = [id |-> id, cmd |-> cmd, ok |-> TRUE, val |-> 0, clean |-> clean']
      /\ pc' = IF reupload THEN "upload" ELSE IF cmd \in Getters THEN "read" ELSE "idle"
      /\ UNCHANGED <<cmd, id, reupload>> /\ clean' = clean
      /\ writes' = Append(writes, Clear)
  BY DEF ClearAndReturn, Return, SendClearCommand, Put, TypeOK
<1>2. UNCHANGED <<inReg, spc, cur, outVal, state, packages>>
  BY DEF controllerVars, scriptVars
<1>3. ~Waiting'
  BY <1>1 DEF Waiting
<1>4. ASSUME clean, cmd \in Getters, Regular(cmd)
      PROVE  /\ pc' = "read"
             /\ outVal = id /\ state.val = id
             /\ \A i \in DOMAIN packages : packages[i].val = id
             /\ \A i \in DOMAIN writes' : writes'[i].cmd = NoCmd
             /\ inReg.id = id /\ spc # "exec"
  <2>1. Waiting /\ WaitInv
    BY <1>4 DEF Waiting, CleanInv
  <2>2. finished = id
    BY <2>1, RegisterTypes DEF WaitInv
  <2>3. AnswerOnItsWay /\ ~reupload
    BY <1>4 DEF FreshInv, Regular
  <2>4. /\ writes = <<>> /\ inReg = Mine /\ spc \in {"loop", "off"}
        /\ \A i \in DOMAIN packages : packages[i].reg = DONE
    BY <2>1, <2>2 DEF WaitInv
  <2>5. outVal = id /\ state.val = id /\ \A i \in DOMAIN packages : packages[i].val = id
    BY <1>4, <2>1, <2>2, <2>3, <2>4 DEF AnswerOnItsWay
  <2>6. \A i \in DOMAIN writes' : writes'[i].cmd = NoCmd
    <3>1. writes' = <<Clear>>
      BY <1>1, <2>4
    <3> QED
      BY <3>1 DEF Clear
  <2>7. inReg.id = id
    BY <2>4 DEF Mine
  <2>8. pc' = "read"
    BY <1>1, <1>4, <2>3
  <2> QED
    BY <2>4, <2>5, <2>6, <2>7, <2>8
<1>5. /\ ret'.id = id /\ ret'.cmd = cmd /\ ret'.ok /\ ret'.clean = clean
  BY <1>1
<1>6. AnswerHeld'
  <2> SUFFICES ASSUME Held'
      PROVE  /\ outVal' = id' /\ state'.val = id'
             /\ \A i \in DOMAIN packages' : packages'[i].val = id'
             /\ \A i \in DOMAIN writes' : writes'[i].cmd = NoCmd
             /\ inReg'.id = id' /\ spc' # "exec"
    BY <1>1, <1>5 DEF AnswerHeld
  <2>1. clean /\ Regular(cmd) /\ cmd \in Getters
    BY <1>1, <1>5 DEF Held, Regular
  <2> QED
    BY <1>1, <1>2, <1>4, <2>1
<1>7. AnswerIsFresh'
  BY <1>1, <1>4, <1>5 DEF AnswerIsFresh, Regular
<1> QED
  BY <1>1, <1>3, <1>6, <1>7 DEF FreshInv, AnswerOnItsWay

\* The script has processed the command: the answer is in the registers.
LEMMA FreshExecDone ==
  ASSUME TypeOK, CleanInv, FreshInv, ExecDone
  PROVE  FreshInv'
<1>1. /\ UNCHANGED <<hostVars, writes, inReg, state, packages, clean>> /\ spc' = "loop"
      /\ spc = "exec"
      /\ outVal' = IF cur.cmd \in Getters THEN cur.id ELSE outVal
  BY DEF ExecDone, Answer, loopVars, envVars
<1>2. AnswerOnItsWay'
  <2> SUFFICES ASSUME clean, Waiting, cmd \in Getters
      PROVE  /\ outVal' = id /\ state.reg # DONE
             /\ \A i \in DOMAIN packages : packages[i].reg # DONE
    BY <1>1 DEF AnswerOnItsWay, Waiting, hostVars
  <2>1. cur = Mine /\ finished # id /\ WaitInv
    BY <1>1 DEF CleanInv, ScriptInv
  <2> QED
    BY <1>1, <2>1, RegisterTypes DEF WaitInv, Mine
<1>3. AnswerHeld'
  BY <1>1 DEF FreshInv, AnswerHeld, Held, Regular, hostVars, Getters, ContactDetected
<1>4. AnswerIsFresh'
  BY <1>1 DEF FreshInv, AnswerIsFresh, Regular, hostVars
<1> QED
  BY <1>1, <1>2, <1>3, <1>4 DEF FreshInv, hostVars

\* A realtime command does not come between a regular one and its answer.
LEMMA FreshRealtime ==
  ASSUME TypeOK, CleanInv, FreshInv, LoopRealtime
  PROVE  FreshInv'
<1>1. /\ UNCHANGED <<hostVars, writes, inReg, state, packages, clean, finished>>
      /\ spc' = "rtDone" /\ inReg.cmd \in ScriptRT
      /\ outVal' = IF inReg.cmd \in Getters THEN inReg.id ELSE outVal
  BY DEF LoopRealtime, Answer, loopVars, envVars, histVars
<1>2. AnswerOnItsWay'
  <2>1. clean /\ Waiting => finished # id
    BY <1>1 DEF CleanInv, WaitInv, Inert
  <2> QED
    BY <1>1, <2>1 DEF AnswerOnItsWay, Waiting, hostVars
<1>3. AnswerHeld'
  BY <1>1 DEF FreshInv, AnswerHeld, Held, Regular, hostVars, ScriptRT, NoCmd
<1>4. AnswerIsFresh'
  BY <1>1 DEF FreshInv, AnswerIsFresh, Regular, hostVars
<1> QED
  BY <1>1, <1>2, <1>3, <1>4 DEF FreshInv, hostVars

\* A regular command enters process_cmd.
LEMMA FreshRegular ==
  ASSUME TypeOK, FreshInv, LoopRegular
  PROVE  FreshInv'
<1>1. /\ UNCHANGED <<hostVars, writes, inReg, state, packages, clean, finished, outVal>>
      /\ cur' = inReg /\ inReg.cmd # NoCmd
  BY DEF LoopRegular, loopVars, envVars
<1> QED
  BY <1>1 DEF FreshInv, AnswerOnItsWay, AnswerHeld, Held, AnswerIsFresh, Waiting, Regular, hostVars

\* The controller applies a write.
LEMMA FreshReceive ==
  ASSUME TypeOK, FreshInv, ReceiveWrite
  PROVE  FreshInv'
<1>1. /\ UNCHANGED <<hostVars, spc, cur, state, packages, clean, finished, outVal>>
      /\ inReg' = Head(writes) /\ writes' = Tail(writes) /\ writes # <<>>
  BY DEF ReceiveWrite, scriptVars, histVars
<1>2. AnswerHeld'
  <2>1. writes \in Seq(Write)
    BY DEF TypeOK
  <2>2. /\ DOMAIN writes = 1 .. Len(writes) /\ Len(writes) \in Nat \ {0} /\ inReg' = writes[1]
        /\ DOMAIN writes' = 1 .. (Len(writes) - 1)
        /\ \A i \in 1 .. (Len(writes) - 1) : writes'[i] = writes[i + 1]
    BY <1>1, <2>1, TailElements
  <2>3. ASSUME AnswerHeld, Held
        PROVE  inReg'.cmd = NoCmd /\ \A i \in DOMAIN writes' : writes'[i].cmd = NoCmd
    BY <2>2, <2>3 DEF AnswerHeld
  <2> QED
    BY <1>1, <2>3 DEF FreshInv, AnswerHeld, Held, Regular, hostVars
<1> QED
  BY <1>1, <1>2 DEF FreshInv, AnswerOnItsWay, AnswerIsFresh, Waiting, Regular, hostVars

\* The packages carry the answers on: sampled, delivered or skipped.
LEMMA FreshPackages ==
  ASSUME TypeOK, FreshInv, Sample \/ Deliver \/ SkipPackage
  PROVE  FreshInv'
<1>c. clean' => clean
  BY DEF Sample, Deliver, SkipPackage, TypeOK
<1>1. UNCHANGED <<hostVars, writes, inReg, spc, cur, finished, outVal>>
  BY DEF Sample, Deliver, SkipPackage, scriptVars, histVars
<1>2. packages \in Seq(Package) /\ Current \in Package
  BY RegisterTypes
<1>3. ASSUME NEW i \in DOMAIN packages'
      PROVE  (\E j \in DOMAIN packages : packages'[i] = packages[j]) \/ packages'[i] = Current
  <2>1. CASE Sample
    <3>1. packages' = Append(packages, Current)
      BY <2>1 DEF Sample
    <3> QED
      BY <1>2, <1>3, <3>1, AppendElements
  <2>2. CASE Deliver \/ SkipPackage
    <3>1. packages # <<>> /\ packages' = Tail(packages)
      BY <1>2, <2>2 DEF Deliver, SkipPackage
    <3>2. i \in 1 .. (Len(packages) - 1) /\ i + 1 \in DOMAIN packages /\ packages'[i] = packages[i + 1]
      BY <1>2, <1>3, <3>1, TailElements
    <3> QED
      BY <3>2
  <2> QED
    BY <2>1, <2>2
<1>4. state' = state \/ \E j \in DOMAIN packages : state' = packages[j]
  <2>1. CASE Deliver
    <3>1. packages # <<>> /\ state' = Head(packages)
      BY <2>1 DEF Deliver
    <3>2. 1 \in DOMAIN packages /\ Head(packages) = packages[1]
      BY <1>2, <3>1, TailElements
    <3> QED
      BY <3>1, <3>2
  <2> QED
    BY <2>1 DEF Sample, SkipPackage
<1>5. Current.val = outVal
  BY DEF Current
<1>6. AnswerOnItsWay'
  BY <1>1, <1>3, <1>4, <1>5, <1>c DEF FreshInv, AnswerOnItsWay, Waiting, hostVars
<1>7. AnswerHeld'
  BY <1>1, <1>3, <1>4, <1>5 DEF FreshInv, AnswerHeld, Held, Regular, hostVars
<1> QED
  BY <1>1, <1>6, <1>7 DEF FreshInv, AnswerIsFresh, Regular, hostVars

\* Every step keeps the answer with its call.
LEMMA FreshStep == Inv /\ FreshInv /\ [Next]_vars => FreshInv'
<1> SUFFICES ASSUME TypeOK, OrderInv, CleanInv, SuccessInv, FreshInv, [Next]_vars PROVE FreshInv'
  BY DEF Inv
<1>s. ~Regular(StopScript)
  BY DEF Regular
<1>1. ASSUME NEW c \in Calls, Call(c) PROVE FreshInv'
  BY <1>1, FreshEnter DEF Call
<1>2. CASE ReuploadScript
  BY <1>2, FreshEnter, FreshGoto DEF ReuploadScript
<1>3. CASE CheckStopped \/ CheckRunning
  BY <1>3, FreshReturn, FreshGoto DEF CheckStopped, CheckRunning
<1>4. CASE WaitReady
  <2>1. CASE Goto("readyMiss")
    BY <1>4, <2>1, FreshGoto DEF WaitReady
  <2>2. CASE ~Goto("readyMiss") /\ cmd \in HostRT
    BY <1>4, <2>2 DEF WaitReady, Return, FreshInv, AnswerOnItsWay, AnswerHeld, Held,
       AnswerIsFresh, Waiting, Regular
  <2>3. CASE ~Goto("readyMiss") /\ cmd \notin HostRT
    <3>1. finished # id
      BY <1>4, NumberTypes DEF WaitReady, OrderInv, NumbersBounded, PreSend
    <3>2. pc' \in {"waitStop", "waitDone"} /\ UNCHANGED <<cmd, id, reupload, ret, finished>>
      BY <1>4, <2>3 DEF WaitReady, controllerVars, histVars
    <3> QED
      BY <1>4, <3>1, <3>2 DEF WaitReady, FreshInv, AnswerOnItsWay, AnswerHeld, Held,
         AnswerIsFresh, Regular
  <2> QED
    BY <2>1, <2>2, <2>3
<1>5. CASE ReadyMiss \/ ReadyTimeout
  BY <1>5, FreshReturn, FreshGoto DEF ReadyMiss, ReadyTimeout
<1>6. CASE WaitDone
  BY <1>6, FreshDone, FreshGoto DEF WaitDone
<1>7. CASE DoneMiss
  BY <1>7, FreshReturn, FreshGoto DEF DoneMiss
<1>8. CASE WaitStop \/ StopMiss
  BY <1>8, <1>s, FreshReturn, FreshGoto DEF WaitStop, StopMiss, SuccessInv
<1>9. CASE ExecutionTimeout
  BY <1>9, FreshReturn DEF ExecutionTimeout
<1>10. CASE ReadAnswer
  <2>1. /\ ret'.id = ret.id /\ ret'.ok = ret.ok /\ ret'.cmd = ret.cmd /\ ret'.clean = ret.clean
        /\ ret'.val = state.val /\ pc' = "idle" /\ UNCHANGED <<cmd, id, reupload>> /\ pc = "read"
    BY <1>10 DEF ReadAnswer, TypeOK, HostTypeOK
  <2> QED
    BY <2>1 DEF FreshInv, AnswerOnItsWay, AnswerHeld, Held, AnswerIsFresh, Waiting, Regular
<1>u. CASE UploadFails
  BY <1>u, FreshGoto DEF UploadFails
<1>11. CASE Upload
  BY <1>11 DEF Upload, FreshInv, AnswerOnItsWay, AnswerHeld, Held, AnswerIsFresh, Waiting, Regular
<1>12. CASE ExecDone
  BY <1>12, FreshExecDone
<1>13. CASE LoopRealtime
  BY <1>13, FreshRealtime
<1>14. CASE LoopRegular
  BY <1>14, FreshRegular
<1>15. CASE ReceiveWrite
  BY <1>15, FreshReceive
<1>16. CASE Sample \/ Deliver \/ SkipPackage
  BY <1>16, FreshPackages
<1>17. CASE Boot \/ LoopIdle \/ LoopRealtimeReady \/ LoopInternal
  BY <1>17, FreshFrame DEF Boot, LoopIdle, LoopRealtimeReady, LoopInternal, loopVars, envVars,
     histVars
<1>18. CASE LoopStop \/ ContactFires \/ ScriptDies
  BY <1>18, FreshFrame DEF LoopStop, ContactFires, ScriptDies, loopVars, envVars, histVars
<1>19. CASE RobotStops \/ RobotReleased
  <2>1. /\ UNCHANGED <<hostVars, writes, inReg, outVal, state, packages, finished, cur>>
        /\ spc' = "exec" => spc = "exec"
    BY <1>19 DEF RobotStops, RobotReleased, scriptVars, histVars
  <2>2. clean' => clean
    BY <1>19 DEF RobotStops, RobotReleased, TypeOK
  <2> QED
    BY <2>1, <2>2, FreshFrame
<1>20. CASE UNCHANGED vars
  BY <1>20, FreshFrame DEF vars, controllerVars, scriptVars, histVars
<1> QED
  BY <1>u, <1>1, <1>2, <1>3, <1>4, <1>5, <1>6, <1>7, <1>8, <1>9, <1>10, <1>11, <1>12,
     <1>13, <1>14, <1>15, <1>16, <1>17, <1>18, <1>19, <1>20 DEF Next, Client, Script

\* A getter that waited for DONE returns the answer process_cmd computed for
\* this very call, whatever happens between the return of sendCommand and the
\* read of the cached state.
THEOREM GettersAreFresh == Spec => []AnswerIsFresh
<1>1. Init => FreshInv
  BY DEF Init, FreshInv, AnswerOnItsWay, AnswerHeld, Held, AnswerIsFresh, Waiting
<1>2. FreshInv => AnswerIsFresh
  BY DEF FreshInv
<1> QED
  BY <1>1, <1>2, FreshStep, InvCorrect, PTL DEF Spec

-----------------------------------------------------------------------------
(* The handshake implements CommandService.                                *)

\* What the service adds: a getter reads after a success, a call that can still be
\* begun for the first time in an undisturbed run has not been begun, and an answer
\* is the answer to a call that was made.
ReadInv == pc = "read" => ret.ok /\ ret.cmd \in Getters

AgainInv == clean /\ repeats = 0 /\ id > 0 => started < id

ValueInv ==
    /\ outVal <= id /\ state.val <= id
    /\ \A i \in DOMAIN packages : packages[i].val <= id

ServiceInv == ReadInv /\ AgainInv /\ ValueInv

\* The answers on their way are numbers.
LEMMA ValueTypes ==
  ASSUME TypeOK
  PROVE  /\ outVal \in Nat /\ state.val \in Nat /\ ret.val \in Nat /\ repeats \in Nat
         /\ \A i \in DOMAIN packages : packages[i].val \in Nat
<1>1. \A p \in Package : p.val \in Nat
  BY DEF Package
<1>2. \A i \in DOMAIN packages : packages[i] \in Package
  BY DEF TypeOK
<1> QED
  BY <1>1, <1>2 DEF TypeOK, HostTypeOK, ScriptTypeOK

\* A step that leaves the call number and the answers alone.
LEMMA ServiceFrame ==
  ASSUME ServiceInv, ReadInv', UNCHANGED <<id, started, repeats, outVal, state, packages>>,
         clean' => clean
  PROVE  ServiceInv'
  BY DEF ServiceInv, AgainInv, ValueInv

\* A return sets pc to read only for a getter that succeeded.
LEMMA ServiceBack ==
  ASSUME TypeOK, ServiceInv, NEW ok, ok \in BOOLEAN, NEW ab, ClearAndReturn(ok, ab), UNCHANGED controllerVars
  PROVE  ServiceInv'
<1>1. ReadInv'
  BY DEF ClearAndReturn, Return, ReadInv
<1> QED
  BY <1>1, ServiceFrame DEF ClearAndReturn, Return, controllerVars, scriptVars, histVars, TypeOK

\* Polling returns nothing.
LEMMA ServiceGoto ==
  ASSUME ServiceInv, NEW label, Goto(label), label # "read", UNCHANGED controllerVars
  PROVE  ServiceInv'
  BY ServiceFrame DEF Goto, ReadInv, controllerVars, scriptVars, histVars

\* A new call makes the numbers of all others smaller than its own.
LEMMA ServiceEnter ==
  ASSUME TypeOK, OrderInv, ServiceInv, NEW c, NEW re, Enter(c, re), UNCHANGED controllerVars
  PROVE  ServiceInv'
<1>1. id' = id + 1 /\ pc' = "enter" /\ UNCHANGED <<started, repeats, outVal, state, packages>>
  BY DEF Enter, controllerVars, scriptVars, histVars
<1>2. id \in Nat /\ started \in Nat /\ started <= id
  BY NumberTypes DEF OrderInv, NumbersBounded
<1>3. ReadInv' /\ AgainInv'
  BY <1>1, <1>2 DEF ReadInv, AgainInv
<1>4. ValueInv'
  BY <1>1, <1>2, ValueTypes DEF ServiceInv, ValueInv
<1> QED
  BY <1>3, <1>4 DEF ServiceInv

\* A step of the script that leaves an answer: of a call that was made.
LEMMA ServiceAnswer ==
  ASSUME TypeOK, ServiceInv, NEW w \in Write, w.cmd \in Getters => w.id <= id, Answer(w),
         UNCHANGED <<hostVars, started, repeats, state, packages, clean>>
  PROVE  ServiceInv'
  BY ValueTypes DEF ServiceInv, ReadInv, AgainInv, ValueInv, Answer, hostVars

\* The state stream carries the answers that were in the registers.
LEMMA ServicePackages ==
  ASSUME TypeOK, ServiceInv, Sample \/ Deliver \/ SkipPackage
  PROVE  ServiceInv'
<1>1. UNCHANGED <<hostVars, outVal, started, repeats>> /\ (clean' => clean)
  BY DEF Sample, Deliver, SkipPackage, scriptVars, histVars, TypeOK
<1>2. packages \in Seq(Package) /\ Current \in Package /\ Current.val = outVal
  BY RegisterTypes DEF Current
<1>3. CASE Sample
  <2>1. packages' = Append(packages, Current) /\ state' = state
    BY <1>3 DEF Sample
  <2>2. \A i \in DOMAIN packages' : packages'[i] = Current \/ (i \in DOMAIN packages /\ packages'[i] = packages[i])
    BY <1>2, <2>1, AppendElements
  <2> QED
    BY <1>1, <1>2, <2>1, <2>2 DEF ServiceInv, ReadInv, AgainInv, ValueInv, hostVars
<1>4. CASE Deliver \/ SkipPackage
  <2>1. packages # <<>> /\ packages' = Tail(packages) /\ state' \in {state, Head(packages)}
    BY <1>2, <1>4 DEF Deliver, SkipPackage
  <2>2. /\ \A i \in DOMAIN packages' : i + 1 \in DOMAIN packages /\ packages'[i] = packages[i + 1]
        /\ 1 \in DOMAIN packages /\ Head(packages) = packages[1]
    BY <1>2, <2>1, TailElements
  <2> QED
    BY <1>1, <2>1, <2>2 DEF ServiceInv, ReadInv, AgainInv, ValueInv, hostVars
<1> QED
  BY <1>3, <1>4

\* Every step keeps the three parts.
LEMMA ServiceInvStep == Inv /\ ServiceInv /\ [Next]_vars => ServiceInv'
<1> SUFFICES ASSUME TypeOK, OrderInv, ServiceInv, [Next]_vars PROVE ServiceInv'
  BY DEF Inv
<1>1. ASSUME NEW c \in Calls, Call(c) PROVE ServiceInv'
  BY <1>1, ServiceEnter DEF Call
<1>2. CASE ReuploadScript
  BY <1>2, ServiceEnter, ServiceGoto DEF ReuploadScript
<1>3. CASE CheckStopped \/ CheckRunning \/ ReadyMiss \/ ReadyTimeout
  BY <1>3, ServiceBack, ServiceGoto DEF CheckStopped, CheckRunning, ReadyMiss, ReadyTimeout
<1>4. CASE WaitReady
  <2>1. CASE Goto("readyMiss")
    BY <1>4, <2>1, ServiceGoto DEF WaitReady
  <2>2. CASE ~Goto("readyMiss")
    <3>1. ReadInv'
      BY <1>4, <2>2 DEF WaitReady, Return, ReadInv
    <3> QED
      BY <1>4, <2>2, <3>1, ServiceFrame DEF WaitReady, Return, TypeOK, controllerVars, scriptVars, histVars
  <2> QED
    BY <2>1, <2>2
<1>5. CASE WaitDone \/ DoneMiss \/ WaitStop \/ StopMiss \/ ExecutionTimeout
  BY <1>5, ServiceBack, ServiceGoto DEF WaitDone, DoneMiss, WaitStop, StopMiss, ExecutionTimeout
<1>6. CASE ReadAnswer
  <2>1. ReadInv'
    BY <1>6 DEF ReadAnswer, ReadInv
  <2> QED
    BY <1>6, <2>1, ServiceFrame DEF ReadAnswer, controllerVars, scriptVars, histVars
<1>u. CASE UploadFails
  BY <1>u, ServiceGoto DEF UploadFails
<1>7. CASE Upload
  BY <1>7 DEF Upload, ServiceInv, ReadInv, AgainInv, ValueInv
<1>8. CASE LoopRealtime
  <2>1. inReg \in Write /\ inReg.id <= id
    BY DEF TypeOK, ScriptTypeOK, OrderInv, NumbersBounded
  <2> QED
    BY <1>8, <2>1, ServiceAnswer DEF LoopRealtime, loopVars, envVars, histVars
<1>9. CASE ExecDone
  <2>1. cur \in Write /\ (cur.cmd \in Getters => cur.id <= id)
    BY <1>9 DEF ExecDone, TypeOK, ScriptTypeOK, OrderInv, NumbersBounded, NumbersTagged, Getters,
       ContactDetected
  <2> QED
    BY <1>9, <2>1, ServiceAnswer DEF ExecDone, loopVars, envVars
<1>10. CASE LoopRegular
  <2>1. repeats' # 0 /\ UNCHANGED <<hostVars, outVal, state, packages, clean>>
    BY <1>10, ValueTypes DEF LoopRegular, loopVars, envVars
  <2> QED
    BY <2>1 DEF ServiceInv, ReadInv, AgainInv, ValueInv, hostVars
<1>11. CASE Boot \/ LoopIdle \/ LoopRealtimeReady \/ LoopInternal \/ LoopStop
  <2>1. UNCHANGED <<hostVars, started, repeats, outVal, state, packages, clean>>
    BY <1>11 DEF Boot, LoopIdle, LoopRealtimeReady, LoopInternal, LoopStop, loopVars, envVars, histVars
  <2> QED
    BY <2>1 DEF ServiceInv, ReadInv, AgainInv, ValueInv, hostVars
<1>12. CASE ContactFires \/ ScriptDies \/ RobotStops \/ RobotReleased \/ ReceiveWrite
  <2>1. UNCHANGED <<hostVars, started, repeats, outVal, state, packages>> /\ (clean' => clean)
    BY <1>12 DEF ContactFires, ScriptDies, RobotStops, RobotReleased, ReceiveWrite, envVars, scriptVars,
       histVars, TypeOK
  <2> QED
    BY <2>1 DEF ServiceInv, ReadInv, AgainInv, ValueInv, hostVars
<1>13. CASE Sample \/ Deliver \/ SkipPackage
  BY <1>13, ServicePackages
<1>14. CASE UNCHANGED vars
  BY <1>14 DEF vars, hostVars, controllerVars, scriptVars, histVars, ServiceInv, ReadInv, AgainInv, ValueInv
<1> QED
  BY <1>u, <1>1, <1>2, <1>3, <1>4, <1>5, <1>6, <1>7, <1>8, <1>9, <1>10, <1>11, <1>12, <1>13, <1>14
     DEF Next, Client, Script

-----------------------------------------------------------------------------
\* A new call is a call of the service: a disturbance ends in a quiet system only.
LEMMA CallIsService ==
  ASSUME TypeOK, TypeOK', NEW c, NEW re, Enter(c, re), UNCHANGED controllerVars
  PROVE  Service!Next
<1>1. /\ ~InCall /\ InCall' /\ id' = id + 1 /\ UNCHANGED <<AtWork, started, repeats, finished, LastResult>>
  BY DEF Enter, InCall, AtWork, LastResult, Regular, controllerVars, scriptVars, histVars
<1>2. /\ clean' \in BOOLEAN /\ (clean => clean') /\ (clean' => clean \/ AtWork = 0)
  BY DEF Enter, TypeOK, Quiet, AtWork
<1>3. ASSUME NEW b \in BOOLEAN, Regular(cmd)' = b PROVE Service!Call(b)
  BY <1>1, <1>2, <1>3 DEF Service!Call
<1>4. CASE Regular(cmd)'
  <2>1. Service!Call(TRUE)
    BY <1>3, <1>4
  <2> QED
    BY <2>1 DEF Service!Next
<1>5. CASE ~Regular(cmd)'
  <2>0. Regular(cmd)' = FALSE
    BY <1>5 DEF Regular
  <2>1. Service!Call(FALSE)
    BY <1>3, <2>0
  <2> QED
    BY <2>1 DEF Service!Next
<1> QED
  BY <1>4, <1>5

\* A return is one of the service, if what it claims is true.
LEMMA ReturnIsService ==
  ASSUME TypeOK', NEW ok \in BOOLEAN, InCall, Return(ok), UNCHANGED controllerVars,
         clean' => clean /\ AtWork = 0,
         ok /\ Regular(cmd) /\ clean' => finished = id
  PROVE  Service!Next
<1>1. Service!Return(ok)
  <2>1. /\ ~InCall' /\ UNCHANGED <<id, cmd, AtWork, started, repeats, finished>> /\ clean' \in BOOLEAN
    BY DEF Return, InCall, AtWork, controllerVars, scriptVars, histVars, TypeOK
  <2>2. LastResult' = [call |-> id, ok |-> ok, sure |-> clean' /\ Regular(cmd), answer |-> 0]
    BY DEF Return, LastResult, Regular
  <2> QED
    BY <2>1, <2>2 DEF Service!Return, Regular
<1> QED
  BY <1>1 DEF Service!Next

\* Nothing that the service shows.
LEMMA StutterIsService ==
  ASSUME UNCHANGED <<id, InCall, Regular(cmd), AtWork, started, repeats, finished, LastResult, clean>>
  PROVE  UNCHANGED Service!vars
  BY DEF Service!vars

\* A step that shows at most as the end of the undisturbed run.
LEMMA DisturbIsService ==
  ASSUME TypeOK, TypeOK', clean' => clean,
         UNCHANGED <<id, InCall, Regular(cmd), AtWork, started, repeats, finished, LastResult>>
  PROVE  [Service!Next]_Service!vars
<1>1. CASE clean /\ ~clean'
  <2>1. Service!Disturb
    BY <1>1 DEF Service!Disturb, TypeOK
  <2> QED
    BY <2>1 DEF Service!Next
<1>2. CASE ~(clean /\ ~clean')
  BY <1>2, StutterIsService DEF TypeOK
<1> QED
  BY <1>1, <1>2

\* A step of the controller that is neither the begin nor the end of process_cmd.
LEMMA IdleIsService ==
  ASSUME TypeOK, TypeOK', clean' => clean, AtWork' = AtWork,
         UNCHANGED <<hostVars, started, repeats, finished>>
  PROVE  [Service!Next]_Service!vars
  BY DisturbIsService DEF hostVars, InCall, Regular, LastResult

\* Polling is invisible.
LEMMA GotoIsService ==
  ASSUME NEW label, Goto(label), InCall <=> label \notin {"idle", "read", "upload"}, UNCHANGED controllerVars
  PROVE  [Service!Next]_Service!vars
<1>1. UNCHANGED <<id, InCall, Regular(cmd), AtWork, started, repeats, finished, LastResult, clean>>
  BY DEF Goto, InCall, Regular, AtWork, LastResult, controllerVars, scriptVars, histVars
<1> QED
  BY <1>1, StutterIsService

\* A return that clears the register.
LEMMA BackIsService ==
  ASSUME TypeOK, TypeOK', CleanInv, NEW ok \in BOOLEAN, NEW ab \in BOOLEAN, InCall, ClearAndReturn(ok, ab),
         UNCHANGED controllerVars, Waiting /\ clean /\ ~ab => spc # "exec",
         ok /\ Regular(cmd) /\ clean /\ ~ab => finished = id
  PROVE  [Service!Next]_Service!vars
<1>1. Return(ok) /\ (clean' => clean /\ ~ab)
  BY DEF ClearAndReturn, TypeOK
<1>2. clean' => AtWork = 0
  BY <1>1 DEF CleanInv, ScriptInv, AtWork
<1> QED
  BY <1>1, <1>2, ReturnIsService

\* The script takes a regular command into process_cmd: of a later call than the
\* last one, or again after an upload, and undisturbed only of the call that waits.
LEMMA BeginIsService ==
  ASSUME TypeOK, TypeOK', OrderInv, OnceInv, OnceInv', CleanInv, ServiceInv, LoopRegular
  PROVE  Service!Next
<1>1. /\ spc = "loop" /\ spc' = "exec" /\ cur' = inReg /\ ~Inert(inReg) /\ ~executing
      /\ started' = inReg.id /\ UNCHANGED <<hostVars, finished, clean>>
      /\ repeats' = IF started = inReg.id THEN repeats + 1 ELSE 1
  BY DEF LoopRegular, MayProcess, Inert, loopVars, envVars
<1>2. /\ inReg.id \in Nat /\ started \in Nat /\ id \in Nat /\ repeats \in Nat
      /\ inReg.id > 0 /\ inReg.id >= started /\ inReg.id <= id /\ inReg.cmd # ContactDetected
  BY <1>1, NumberTypes, ValueTypes DEF OrderInv, NumbersTagged, NumbersGrow, NumbersBounded
<1>3. AtWork = 0 /\ AtWork' = inReg.id /\ repeats' # 0
  BY <1>1, <1>2 DEF AtWork
<1>4. inReg.id > started \/ repeats = 0
  BY <1>1, <1>2 DEF OnceInv
<1>5. clean => InCall /\ Regular(cmd) /\ inReg.id = id
  BY <1>1 DEF CleanInv, RestInv, WaitInv, Waiting, InCall, Mine
<1>6. clean => inReg.id > started
  BY <1>2, <1>4, <1>5 DEF ServiceInv, AgainInv
<1>7. UNCHANGED <<id, InCall, Regular(cmd), finished, LastResult, clean>>
  BY <1>1 DEF hostVars, InCall, Regular, LastResult
<1>8. Service!Begin(inReg.id)
  <2>1. inReg.id > started \/ (inReg.id = started /\ repeats = 0)
    BY <1>2, <1>4
  <2>2. (repeats = 0)' = FALSE
    BY <1>3
  <2> QED
    BY <1>1, <1>3, <1>5, <1>6, <1>7, <2>1, <2>2 DEF Service!Begin
<1> QED
  BY <1>2, <1>8 DEF Service!Next

\* The end of process_cmd; the internal command is not of a call.
LEMMA FinishIsService ==
  ASSUME TypeOK, TypeOK', OrderInv, CleanInv, ExecDone
  PROVE  [Service!Next]_Service!vars
<1>1. /\ spc = "exec" /\ spc' = "loop" /\ UNCHANGED <<hostVars, started, repeats, clean>>
      /\ finished' = IF cur.cmd = ContactDetected THEN finished ELSE cur.id
  BY DEF ExecDone, loopVars, envVars
<1>2. UNCHANGED <<id, InCall, Regular(cmd), LastResult>> /\ AtWork' = 0
  BY <1>1 DEF hostVars, InCall, Regular, LastResult, AtWork
<1>3. CASE AtWork = 0
  <2>1. finished' = finished
    BY <1>1, <1>3, NumberTypes DEF AtWork, OrderInv, NumbersBounded, NumbersTagged
  <2> QED
    BY <1>1, <1>2, <1>3, <2>1, DisturbIsService
<1>4. CASE AtWork # 0
  <2>1. finished' = AtWork
    BY <1>1, <1>4 DEF AtWork
  <2>2. Service!Finish
    BY <1>1, <1>2, <1>4, <2>1 DEF Service!Finish
  <2> QED
    BY <2>2 DEF Service!Next
<1> QED
  BY <1>3, <1>4

\* The script ends, in a command or between two.
LEMMA DropIsService ==
  ASSUME TypeOK, TypeOK', clean' = clean, spc' # "exec", UNCHANGED <<hostVars, started, repeats, finished>>
  PROVE  [Service!Next]_Service!vars
<1>1. UNCHANGED <<id, InCall, Regular(cmd), LastResult>> /\ AtWork' = 0
  BY DEF hostVars, InCall, Regular, LastResult, AtWork
<1>2. CASE AtWork = 0
  BY <1>1, <1>2, DisturbIsService
<1>3. CASE AtWork # 0
  <2>1. Service!Drop
    BY <1>1, <1>3 DEF Service!Drop
  <2> QED
    BY <2>1 DEF Service!Next
<1> QED
  BY <1>2, <1>3

\* The upload of reuploadScript.
LEMMA ReplaceIsService ==
  ASSUME Upload PROVE Service!Next
<1>1. /\ pc = "upload" /\ pc' = "idle" /\ spc' # "exec" /\ repeats' = 0 /\ clean' = FALSE
      /\ UNCHANGED <<cmd, id, ret, started, finished>>
  BY DEF Upload
<1>2. /\ UNCHANGED <<Regular(cmd), LastResult, InCall>> /\ AtWork' = 0 /\ ~InCall
      /\ (repeats = 0)' = TRUE
  BY <1>1 DEF Regular, LastResult, AtWork, InCall
<1>3. Service!Replace
  BY <1>1, <1>2 DEF Service!Replace
<1> QED
  BY <1>3 DEF Service!Next

\* A getter reads from the cached state: the answer is still the one of its call.
LEMMA ReadIsService ==
  ASSUME TypeOK, OrderInv, FreshInv, ServiceInv, ReadAnswer PROVE Service!Next
<1>1. /\ pc = "read" /\ pc' = "idle" /\ UNCHANGED <<cmd, id, clean, AtWork, started, repeats, finished>>
      /\ ret' = [ret EXCEPT !.val = state.val]
  BY DEF ReadAnswer, AtWork, controllerVars, scriptVars, histVars
<1>2. LastResult' = [LastResult EXCEPT !.answer = state.val]
  BY <1>1 DEF LastResult, TypeOK, HostTypeOK, Regular
<1>3. ret.ok /\ (ret.clean /\ Regular(ret.cmd) => state.val = ret.id)
  BY <1>1 DEF ServiceInv, ReadInv, FreshInv, AnswerHeld, Held
<1>4. ~InCall /\ InCall' = FALSE /\ Regular(cmd)' = Regular(cmd)
  BY <1>1 DEF InCall, Regular
<1>5. Service!Read(state.val)
  BY <1>1, <1>2, <1>3, <1>4 DEF Service!Read, LastResult, InCall
<1>6. state.val \in 0..id
  BY NumberTypes, ValueTypes DEF ServiceInv, ValueInv
<1> QED
  BY <1>5, <1>6 DEF Service!Next

\* Everything that the steps rest on.
AllInv == Inv /\ OnceInv /\ FreshInv /\ ServiceInv

\* Every step of the handshake is a step of the service or invisible.
LEMMA ServiceStep ==
  AllInv /\ AllInv' /\ [Next]_vars => [Service!Next]_Service!vars
<1> SUFFICES ASSUME TypeOK, TypeOK', OrderInv, OnceInv, OnceInv', CleanInv, SuccessInv, FreshInv, ServiceInv,
                    [Next]_vars
             PROVE  [Service!Next]_Service!vars
  BY DEF AllInv, Inv
<1>s. ~Regular(StopScript)
  BY DEF Regular
<1>1. ASSUME NEW c \in Calls, Call(c) PROVE Service!Next
  BY <1>1, CallIsService DEF Call
<1>2. CASE ReuploadScript
  <2>1. CASE state.prog = "PLAYING" /\ Enter(StopScript, TRUE)
    BY <1>2, <2>1, CallIsService DEF ReuploadScript
  <2>2. CASE Goto("upload")
    BY <1>2, <2>2, GotoIsService DEF ReuploadScript, InCall
  <2> QED
    BY <1>2, <2>1, <2>2 DEF ReuploadScript
<1>3. CASE CheckStopped \/ CheckRunning
  BY <1>3, BackIsService, GotoIsService DEF CheckStopped, CheckRunning, InCall, Waiting
<1>4. CASE ReadyMiss \/ ReadyTimeout
  BY <1>4, BackIsService, GotoIsService DEF ReadyMiss, ReadyTimeout, InCall, Waiting
<1>5. CASE WaitReady
  <2>1. CASE Goto("readyMiss")
    BY <1>5, <2>1, GotoIsService DEF WaitReady, InCall
  <2>2. CASE ~Goto("readyMiss") /\ cmd \in HostRT
    <3>1. /\ Return(TRUE) /\ (clean' => clean) /\ InCall /\ ~Waiting /\ ~Regular(cmd)
          /\ UNCHANGED controllerVars
      BY <1>5, <2>2 DEF WaitReady, InCall, Waiting, Regular, TypeOK
    <3>2. clean' => AtWork = 0
      BY <3>1 DEF CleanInv, ScriptInv, AtWork
    <3> QED
      BY <3>1, <3>2, ReturnIsService
  <2>3. CASE ~Goto("readyMiss") /\ cmd \notin HostRT
    <3>1. /\ pc' \in {"waitStop", "waitDone"} /\ InCall /\ (clean' => clean)
          /\ UNCHANGED <<cmd, id, ret, controllerVars>>
      BY <1>5, <2>3 DEF WaitReady, InCall, TypeOK
    <3>2. UNCHANGED <<id, InCall, Regular(cmd), AtWork, started, repeats, finished, LastResult>>
      BY <3>1 DEF InCall, Regular, AtWork, LastResult, controllerVars, scriptVars, histVars
    <3> QED
      BY <3>1, <3>2, DisturbIsService
  <2> QED
    BY <2>1, <2>2, <2>3
<1>6. CASE WaitDone
  <2>1. CASE state.reg = DONE /\ ClearAndReturn(TRUE, FALSE)
    <3>1. clean => finished = id /\ spc # "exec"
      BY <1>6, <2>1 DEF WaitDone, Waiting, CleanInv, WaitInv, RDY, DONE
    <3> QED
      BY <1>6, <2>1, <3>1, BackIsService DEF WaitDone, InCall
  <2>2. CASE Goto("doneMiss")
    BY <1>6, <2>2, GotoIsService DEF WaitDone, InCall
  <2> QED
    BY <1>6, <2>1, <2>2 DEF WaitDone
<1>7. CASE DoneMiss \/ ExecutionTimeout
  BY <1>7, BackIsService, GotoIsService DEF DoneMiss, ExecutionTimeout, InCall
<1>8. CASE WaitStop \/ StopMiss
  BY <1>8, <1>s, BackIsService, GotoIsService DEF WaitStop, StopMiss, InCall, Waiting, SuccessInv
<1>9. CASE ReadAnswer
  BY <1>9, ReadIsService
<1>u. CASE UploadFails
  BY <1>u, GotoIsService DEF UploadFails, InCall
<1>10. CASE Upload
  BY <1>10, ReplaceIsService
<1>11. CASE LoopRegular
  BY <1>11, BeginIsService
<1>12. CASE ExecDone
  BY <1>12, FinishIsService
<1>13. CASE Boot \/ LoopRealtime \/ LoopRealtimeReady \/ LoopIdle \/ LoopStop
  <2>1. AtWork = 0 /\ AtWork' = 0 /\ UNCHANGED <<hostVars, started, repeats, finished, clean>>
    BY <1>13 DEF Boot, LoopRealtime, LoopRealtimeReady, LoopIdle, LoopStop, AtWork, loopVars, envVars, histVars
  <2> QED
    BY <2>1, IdleIsService
<1>14. CASE LoopInternal
  <2>1. AtWork = 0 /\ AtWork' = 0 /\ UNCHANGED <<hostVars, started, repeats, finished, clean>>
    BY <1>14 DEF LoopInternal, AtWork, loopVars, envVars, histVars
  <2> QED
    BY <2>1, IdleIsService
<1>15. CASE ScriptDies
  BY <1>15, DropIsService DEF ScriptDies, envVars, histVars
<1>16. CASE RobotReleased
  <2>1. CASE spc' = "off"
    BY <1>16, <2>1, DropIsService DEF RobotReleased, histVars
  <2>2. CASE UNCHANGED spc
    <3>1. AtWork' = AtWork
      BY <1>16, <2>2 DEF RobotReleased, AtWork
    <3> QED
      BY <1>16, <3>1, IdleIsService DEF RobotReleased, histVars
  <2> QED
    BY <1>16, <2>1, <2>2 DEF RobotReleased
<1>17. CASE ContactFires \/ RobotStops \/ ReceiveWrite \/ Sample \/ Deliver \/ SkipPackage
  <2>1. AtWork' = AtWork /\ UNCHANGED <<hostVars, started, repeats, finished>> /\ (clean' => clean)
    BY <1>17 DEF ContactFires, RobotStops, ReceiveWrite, Sample, Deliver, SkipPackage, AtWork, envVars,
       scriptVars, histVars, TypeOK
  <2> QED
    BY <2>1, IdleIsService
<1>18. CASE UNCHANGED vars
  <2>1. AtWork' = AtWork /\ UNCHANGED <<hostVars, started, repeats, finished, clean>>
    BY <1>18 DEF vars, controllerVars, scriptVars, histVars, AtWork
  <2> QED
    BY <2>1, IdleIsService
<1> QED
  BY <1>u, <1>1, <1>2, <1>3, <1>4, <1>5, <1>6, <1>7, <1>8, <1>9, <1>10, <1>11, <1>12, <1>13, <1>14, <1>15,
     <1>16, <1>17, <1>18 DEF Next, Client, Script

\* sendCommand, the two streams, the registers and the script's main loop implement
\* CommandService: calls are processed in order and once per upload, and in an
\* undisturbed run while their caller waits, with a true result and their own answer.
THEOREM HandshakeIsAService == Spec => ServiceIsImplemented
<1>1. Init => AllInv
  <2>1. Init => OnceInv
    BY DEF Init, OnceInv, Clear, Inert, NoCmd
  <2>2. Init => FreshInv
    BY DEF Init, FreshInv, AnswerOnItsWay, AnswerHeld, Held, AnswerIsFresh, Waiting
  <2>3. Init => ServiceInv
    BY DEF Init, ServiceInv, ReadInv, AgainInv, ValueInv, Current
  <2>4. Init => Inv
    BY TypeInit, OrderInit, CleanInit DEF Inv, Init, SuccessInv, SuccessMeansExecuted
  <2> QED
    BY <2>1, <2>2, <2>3, <2>4 DEF AllInv
<1>2. AllInv /\ [Next]_vars => AllInv'
  BY TypeStep, OrderStep, CleanStep, SuccessStep, OnceStep, FreshStep, ServiceInvStep DEF AllInv, Inv
<1>3. Init => Service!Init
  BY DEF Init, Service!Init, InCall, AtWork, LastResult, Regular
<1> QED
  BY <1>1, <1>2, <1>3, ServiceStep, PTL DEF Spec, ServiceIsImplemented, Service!Spec
=============================================================================
