-------------------------- MODULE ControlProtocol --------------------------
(***************************************************************************)
(* The command handshake of ur_rtde.  RTDEControlInterface::sendCommand    *)
(* (src/rtde_control_interface.cpp) runs in the client's thread.  It       *)
(* writes a command code into an input register of the controller and      *)
(* polls a cached copy of an output register that the controller script    *)
(* (scripts/rtde_control.script) sets to RDY or DONE.  Between the two     *)
(* lie a TCP stream of register writes, the script's main loop, which      *)
(* samples the input register once per cycle, and a TCP stream of state    *)
(* packages that the receive thread copies into the cached robot state.    *)
(*                                                                         *)
(* Every register write carries the number of the call that made it; the   *)
(* number is a history value that no guard of the protocol reads.          *)
(***************************************************************************)
EXTENDS Naturals, Sequences

CONSTANTS
    Calls,        \* the commands the client issues (members of RobotCommand::Type)
    Faults,       \* what the environment does, a subset of AllFaults
    UrCap,        \* use_external_control_ur_cap_
    MaxCalls,     \* bound: calls of sendCommand
    MaxIncidents, \* bound: stops, script deaths, contacts and uploads
    MaxWrites,    \* bound: register writes in flight to the controller
    MaxPackages   \* bound: state packages in flight to the host

AllFaults == {"timeout",   \* one of sendCommand's clocks runs out
              "stop",      \* a protective or emergency stop
              "die",       \* the script ends with a runtime error
              "contact",   \* an armed contact detection fires
              "slice"}     \* the controller samples between DONE and READY
                           \* of a realtime command

ASSUME ConstantsAssumption ==
    /\ Faults \subseteq AllFaults
    /\ UrCap \in BOOLEAN
    /\ MaxCalls \in Nat
    /\ MaxIncidents \in Nat
    /\ MaxWrites \in Nat \ {0}
    /\ MaxPackages \in Nat \ {0}
    /\ Calls \cap {"NO_CMD", "CONTACT_DETECTED"} = {}

\* sendCommand returns at once for these ("continuous" / RT commands).
HostRT == {"SERVOJ", "SERVOL", "SERVOC", "SPEEDJ", "SPEEDL", "FORCE_MODE",
           "WATCHDOG", "GET_JOINT_TORQUES", "TOOL_CONTACT", "GET_STEPTIME",
           "GET_ACTUAL_JOINT_POSITIONS_HISTORY", "SET_EXTERNAL_FORCE_TORQUE"}

\* The script's main loop processes these in every cycle and signals READY.
ScriptRT == {"SERVOL", "SERVOJ", "SPEEDJ", "SPEEDL", "FORCE_MODE",
             "TOOL_CONTACT", "GET_STEPTIME",
             "GET_ACTUAL_JOINT_POSITIONS_HISTORY", "GET_JOINT_TORQUES",
             "GET_ACTUAL_TOOL_FLANGE_POSE"}

\* process_cmd writes an answer for these into the output registers, which
\* the host function reads from the cached state after sendCommand.
Getters == {"GET_JOINT_TORQUES", "TOOL_CONTACT", "GET_STEPTIME",
            "GET_ACTUAL_JOINT_POSITIONS_HISTORY", "GET_TARGET_WAYPOINT",
            "GET_ACTUAL_TOOL_FLANGE_POSE", "GET_TCP_OFFSET",
            "READ_CONTACT_DETECTION", "STOP_CONTACT_DETECTION",
            "IS_STEADY", "POSE_TRANS", "GET_FREEDRIVE_STATUS",
            "IS_POSE_WITHIN_SAFETY_LIMITS", "IS_JOINTS_WITHIN_SAFETY_LIMITS",
            "GET_INVERSE_KINEMATICS_DEFAULT", "GET_INVERSE_KINEMATICS_ARGS",
            "GET_FORWARD_KINEMATICS_DEFAULT", "GET_FORWARD_KINEMATICS_ARGS",
            "GET_INVERSE_KINEMATICS_HAS_SOLUTION_DEFAULT",
            "GET_INVERSE_KINEMATICS_HAS_SOLUTION_ARGS"}

NoCmd == "NO_CMD"
StopScript == "STOP_SCRIPT"
ContactDetected == "CONTACT_DETECTED"     \* 254, internal to the script

\* RTDE::send puts NO_CMD on the wire for a WATCHDOG.
Wire(c) == IF c = "WATCHDOG" THEN NoCmd ELSE c

\* sendCommand waits for DONE after these.
Regular(c) == c \notin HostRT /\ c # StopScript

\* Both sides put the command into the same class.
Agreed(c) == Wire(c) # NoCmd => (c \in HostRT <=> c \in ScriptRT)

VARIABLES
    (* client thread *)
    pc,          \* where sendCommand (or reuploadScript) stands
    cmd,         \* the command of the current call
    id,          \* number of the current call
    reupload,    \* the call is the stopScript() of reuploadScript()
    ret,         \* the last call that returned
    (* towards the controller *)
    writes,      \* register writes in flight
    inReg,       \* input_int_register_0 of the controller
    (* controller script *)
    spc,         \* where the main loop stands
    cur,         \* the command in process_cmd
    executing,   \* executing_cmd
    internal,    \* internal_cmd = 254
    armed,       \* contact_thrd # 0
    outReg,      \* output_int_register_0
    outVal,      \* the data output registers: who wrote them last
    (* controller *)
    prog,        \* runtime_state
    stop,        \* protective or emergency stop
    (* towards the host *)
    packages,    \* state packages in flight
    state,       \* the cached robot_state_
    (* history *)
    started,     \* last call whose regular command entered process_cmd
    repeats,     \* how many times it did since the script was uploaded
    finished,    \* last call whose regular command was processed
    incidents,   \* stops, script deaths, contacts and uploads so far
    clean        \* the run is undisturbed

hostVars == <<pc, cmd, id, reupload, ret>>
scriptVars == <<spc, cur, executing, internal, armed, outReg, outVal>>
histVars == <<started, repeats, finished>>
controllerVars == <<inReg, scriptVars, prog, stop, packages, state, histVars>>
vars == <<hostVars, writes, controllerVars, incidents, clean>>

RDY == 1      \* UR_CONTROLLER_RDY_FOR_CMD
DONE == 2     \* UR_CONTROLLER_DONE_WITH_CMD

Commands == Calls \cup {NoCmd, StopScript, ContactDetected}
Write == [cmd : Commands, id : Nat]
Package == [reg : {RDY, DONE}, val : Nat,
            prog : {"PLAYING", "PAUSED", "STOPPED"}, stop : BOOLEAN]
HostPC == {"idle", "enter", "gate", "waitReady", "readyMiss", "waitDone",
           "doneMiss", "waitStop", "stopMiss", "read", "upload"}

HostTypeOK ==
    /\ pc \in HostPC
    /\ cmd \in Commands
    /\ id \in Nat
    /\ reupload \in BOOLEAN
    /\ ret \in [id : Nat, cmd : Commands, ok : BOOLEAN, val : Nat, clean : BOOLEAN]

ScriptTypeOK ==
    /\ inReg \in Write
    /\ spc \in {"boot", "loop", "exec", "rtDone", "off"}
    /\ cur \in Write
    /\ executing \in BOOLEAN
    /\ internal \in BOOLEAN
    /\ armed \in BOOLEAN
    /\ outReg \in {RDY, DONE}
    /\ outVal \in Nat
    /\ prog \in {"PLAYING", "PAUSED", "STOPPED"}
    /\ stop \in BOOLEAN
    /\ started \in Nat
    /\ repeats \in Nat
    /\ finished \in Nat

\* Every variable has its type.
TypeOK ==
    /\ HostTypeOK
    /\ writes \in Seq(Write)
    /\ ScriptTypeOK
    /\ packages \in Seq(Package)
    /\ state \in Package
    /\ incidents \in 0 .. MaxIncidents
    /\ clean \in BOOLEAN

Clear == [cmd |-> NoCmd, id |-> 0]

Current == [reg |-> outReg, val |-> outVal, prog |-> prog, stop |-> stop]

(***************************************************************************)
(* The state after the constructor: the script is uploaded, its main loop  *)
(* has signalled READY and the first packages have arrived.                *)
(***************************************************************************)
Init ==
    /\ pc = "idle"
    /\ cmd = NoCmd
    /\ id = 0
    /\ reupload = FALSE
    /\ ret = [id |-> 0, cmd |-> NoCmd, ok |-> FALSE, val |-> 0, clean |-> TRUE]
    /\ writes = <<>>
    /\ inReg = Clear
    /\ spc = "loop"
    /\ cur = Clear
    /\ executing = FALSE
    /\ internal = FALSE
    /\ armed = FALSE
    /\ outReg = RDY
    /\ outVal = 0
    /\ prog = "PLAYING"
    /\ stop = FALSE
    /\ packages = <<>>
    /\ state = Current
    /\ started = 0
    /\ repeats = 0
    /\ finished = 0
    /\ incidents = 0
    /\ clean = TRUE

(***************************************************************************)
(* History.  A run is disturbed when a call gives up after its command was *)
(* sent, a contact fires, a command of a class the two sides disagree on   *)
(* is sent, the script is replaced, or DONE of a realtime command is       *)
(* sampled.  A disturbance is over when a call starts in a quiet system.   *)
(***************************************************************************)
Quiet ==
    /\ writes = <<>>
    /\ inReg.cmd = NoCmd
    /\ spc = "loop"
    /\ ~executing
    /\ ~internal
    /\ ~armed
    /\ outReg = RDY
    /\ state.reg = RDY
    /\ \A i \in DOMAIN packages : packages[i].reg = RDY

-----------------------------------------------------------------------------
(* Client thread: sendCommand.                                             *)

\* Mutant of Put: a newer package overtakes the ones in flight.
PutOvertaking(w) ==
    /\ Len(writes) < MaxWrites
    /\ writes' = <<w>> \o writes

\* RTDE::send
Put(w) ==
    /\ Len(writes) < MaxWrites
    /\ writes' = Append(writes, w)

\* Mutant of SendClearCommand: the command register is not cleared.
ForgetClearCommand == UNCHANGED writes

SendClearCommand == Put(Clear)

Return(ok) ==
    /\ ret' = [id |-> id, cmd |-> cmd, ok |-> ok, val |-> 0, clean |-> clean']
    /\ pc' = IF reupload THEN "upload"
             ELSE IF ok /\ cmd \in Getters THEN "read" ELSE "idle"
    /\ UNCHANGED <<cmd, id, reupload>>

\* sendClearCommand() and return; abandoned says that the command was sent
\* and nothing is known of it.
ClearAndReturn(ok, abandoned) ==
    /\ SendClearCommand
    /\ clean' = (clean /\ ~abandoned)
    /\ Return(ok)

Goto(label) ==
    /\ pc' = label
    /\ UNCHANGED <<cmd, id, reupload, ret, writes, clean>>

Enter(c, re) ==
    /\ pc = "idle"
    /\ id < MaxCalls
    /\ pc' = "enter"
    /\ cmd' = c
    /\ id' = id + 1
    /\ reupload' = re
    /\ clean' = (clean \/ Quiet)
    /\ UNCHANGED <<ret, writes>>

Call(c) == Enter(c, FALSE) /\ UNCHANGED <<controllerVars, incidents>>

\* runtime_state == STOPPED
CheckStopped ==
    /\ pc = "enter"
    /\ \/ state.prog = "STOPPED" /\ ClearAndReturn(FALSE, FALSE)
       \/ state.prog # "STOPPED" /\ Goto("gate")
    /\ UNCHANGED <<controllerVars, incidents>>

\* isProgramRunning() || use_external_control_ur_cap_
CheckRunning ==
    /\ pc = "gate"
    /\ \/ (state.prog = "PLAYING" \/ UrCap) /\ Goto("waitReady")
       \/ ~(state.prog = "PLAYING" \/ UrCap) /\ ClearAndReturn(FALSE, FALSE)
    /\ UNCHANGED <<controllerVars, incidents>>

TimedOut == "timeout" \in Faults

\* Mutant of ControllerReady: the command is sent without waiting for RDY.
AnyState == TRUE

\* The loop condition of the wait for RDY.
ControllerReady == state.reg = RDY

\* The wait for RDY, and rtde_->send(cmd) after it.
WaitReady ==
    /\ pc = "waitReady"
    /\ \/ /\ ~ControllerReady
          /\ Goto("readyMiss")
       \/ /\ ControllerReady
          /\ Put([cmd |-> Wire(cmd), id |-> id])
          /\ clean' = (clean /\ Agreed(cmd))
          /\ \/ cmd \in HostRT /\ Return(TRUE)
             \/ /\ cmd \notin HostRT
                /\ pc' = IF cmd = StopScript THEN "waitStop" ELSE "waitDone"
                /\ UNCHANGED <<cmd, id, reupload, ret>>
    /\ UNCHANGED <<controllerVars, incidents>>

\* The body of the wait for RDY.
ReadyMiss ==
    /\ pc = "readyMiss"
    /\ \/ state.stop /\ ClearAndReturn(FALSE, FALSE)
       \/ ~state.stop /\ Goto("waitReady")
    /\ UNCHANGED <<controllerVars, incidents>>

\* UR_GET_READY_TIMEOUT
ReadyTimeout ==
    /\ TimedOut
    /\ pc = "readyMiss"
    /\ ~state.stop
    /\ ClearAndReturn(FALSE, FALSE)
    /\ UNCHANGED <<controllerVars, incidents>>

\* The loop condition of the wait for DONE.
WaitDone ==
    /\ pc = "waitDone"
    /\ \/ state.reg = DONE /\ ClearAndReturn(TRUE, FALSE)
       \/ state.reg # DONE /\ Goto("doneMiss")
    /\ UNCHANGED <<controllerVars, incidents>>

GiveUp == state.prog # "PLAYING" \/ state.stop

\* The body of the wait for DONE.
DoneMiss ==
    /\ pc = "doneMiss"
    /\ \/ GiveUp /\ ClearAndReturn(FALSE, TRUE)
       \/ ~GiveUp /\ Goto("waitDone")
    /\ UNCHANGED <<controllerVars, incidents>>

\* STOP_SCRIPT waits for the program to end, or not at all with the UR Cap.
WaitStop ==
    /\ pc = "waitStop"
    /\ LET over == UrCap \/ state.prog # "PLAYING"
       IN  \/ over /\ ClearAndReturn(TRUE, FALSE)
           \/ ~over /\ Goto("stopMiss")
    /\ UNCHANGED <<controllerVars, incidents>>

StopMiss ==
    /\ pc = "stopMiss"
    /\ \/ state.stop /\ ClearAndReturn(FALSE, TRUE)
       \/ ~state.stop /\ Goto("waitStop")
    /\ UNCHANGED <<controllerVars, incidents>>

\* UR_EXECUTION_TIMEOUT
ExecutionTimeout ==
    /\ TimedOut
    /\ \/ pc = "doneMiss" /\ ~GiveUp
       \/ pc = "stopMiss" /\ ~state.stop
    /\ ClearAndReturn(FALSE, TRUE)
    /\ UNCHANGED <<controllerVars, incidents>>

\* A getter reads its answer from the cached state.
ReadAnswer ==
    /\ pc = "read"
    /\ ret' = [ret EXCEPT !.val = state.val]
    /\ pc' = "idle"
    /\ UNCHANGED <<cmd, id, reupload, writes, clean, controllerVars,
                   incidents>>

Incident ==
    /\ incidents < MaxIncidents
    /\ incidents' = incidents + 1

\* reuploadScript stops a running script first.
ReuploadScript ==
    /\ pc = "idle"
    /\ Incident
    /\ \/ state.prog = "PLAYING" /\ Enter(StopScript, TRUE)
       \/ state.prog # "PLAYING" /\ Goto("upload")
    /\ UNCHANGED controllerVars

\* db_client_->stop(), if a script was running, and script_client_->sendScript():
\* a new script replaces whatever ran, or nothing runs because it could not be
\* sent.  A stopped robot does not start it.
Upload ==
    /\ pc = "upload"
    /\ pc' = "idle"
    /\ reupload' = FALSE
    /\ \E sent \in BOOLEAN :
           /\ sent \/ reupload
           /\ spc' = IF sent /\ ~stop THEN "boot" ELSE "off"
           /\ prog' = IF sent /\ ~stop THEN "PLAYING" ELSE "STOPPED"
    /\ internal' = FALSE
    /\ armed' = FALSE
    /\ repeats' = 0
    /\ clean' = FALSE
    /\ UNCHANGED <<cmd, id, ret, writes, inReg, cur, executing, outReg, outVal,
                   stop, packages, state, started, finished, incidents>>

\* Nothing was stopped and nothing could be sent.
UploadFails ==
    /\ pc = "upload" /\ ~reupload
    /\ Goto("idle")
    /\ UNCHANGED <<controllerVars, incidents>>

Client ==
    \/ CheckStopped \/ CheckRunning \/ WaitReady \/ ReadyMiss \/ WaitDone
    \/ DoneMiss \/ WaitStop \/ StopMiss \/ ReadAnswer \/ Upload \/ UploadFails

-----------------------------------------------------------------------------
(* Controller: the script's main loop, one iteration per sync().           *)

Running == prog = "PLAYING" /\ ~stop

\* The RTDE server of the controller applies the next register write.
ReceiveWrite ==
    /\ writes # <<>>
    /\ inReg' = Head(writes)
    /\ writes' = Tail(writes)
    /\ UNCHANGED <<hostVars, scriptVars, prog, stop, packages, state, histVars,
                   incidents, clean>>

envVars == <<hostVars, writes, inReg, stop, packages, state>>
loopVars == <<envVars, incidents>>

\* Mutant of SignalReady: the register keeps DONE.
SignalNothing == UNCHANGED outReg

SignalReady == outReg' = RDY

SignalDone == outReg' = DONE

\* Mutant of MayProcess: the test of executing_cmd is missing.
AlwaysProcess == TRUE

MayProcess == ~executing

\* The statements before the main loop.
Boot ==
    /\ Running
    /\ spc = "boot"
    /\ spc' = "loop"
    /\ executing' = FALSE
    /\ SignalReady
    /\ UNCHANGED <<loopVars, cur, internal, armed, outVal, prog, histVars, clean>>

\* process_cmd leaves an answer in the output registers.
Answer(w) == outVal' = IF w.cmd \in Getters THEN w.id ELSE outVal

\* A realtime command: process_cmd, which ends in signal_done_with_cmd ...
LoopRealtime ==
    /\ Running
    /\ spc = "loop"
    /\ inReg.cmd \in ScriptRT
    /\ Answer(inReg)
    /\ SignalDone
    /\ spc' = "rtDone"
    /\ UNCHANGED <<loopVars, cur, executing, internal, armed, prog, histVars, clean>>

\* ... and signal_ready.
LoopRealtimeReady ==
    /\ Running
    /\ spc = "rtDone"
    /\ SignalReady
    /\ spc' = "loop"
    /\ UNCHANGED <<loopVars, cur, executing, internal, armed, outVal, prog,
                   histVars, clean>>

\* NO_CMD and no internal command.
LoopIdle ==
    /\ Running
    /\ spc = "loop"
    /\ inReg.cmd = NoCmd
    /\ ~internal
    /\ executing' = FALSE
    /\ SignalReady
    /\ UNCHANGED <<loopVars, spc, cur, internal, armed, outVal, prog, histVars, clean>>

\* NO_CMD: rtde_cmd takes the internal command, which process_cmd only sees
\* when executing_cmd is not set.
LoopInternal ==
    /\ Running
    /\ spc = "loop"
    /\ inReg.cmd = NoCmd
    /\ internal
    /\ internal' = FALSE
    /\ IF MayProcess
         THEN spc' = "exec" /\ cur' = [cmd |-> ContactDetected, id |-> 0]
         ELSE UNCHANGED <<spc, cur>>
    /\ UNCHANGED <<loopVars, executing, armed, outReg, outVal, prog, histVars, clean>>

\* STOP_SCRIPT: process_cmd returns False, the loop ends and with it every
\* thread of the script.
LoopStop ==
    /\ Running
    /\ spc = "loop"
    /\ inReg.cmd = StopScript
    /\ MayProcess
    /\ spc' = "off"
    /\ executing' = TRUE
    /\ armed' = FALSE
    /\ prog' = IF UrCap THEN prog ELSE "STOPPED"
    /\ UNCHANGED <<loopVars, cur, internal, outReg, outVal, histVars, clean>>

\* Any other command enters process_cmd.
LoopRegular ==
    /\ Running
    /\ spc = "loop"
    /\ inReg.cmd \notin ScriptRT \cup {NoCmd, StopScript}
    /\ MayProcess
    /\ spc' = "exec"
    /\ cur' = inReg
    /\ started' = inReg.id
    /\ repeats' = IF started = inReg.id THEN repeats + 1 ELSE 1
    /\ UNCHANGED <<loopVars, executing, internal, armed, outReg, outVal, prog,
                   finished, clean>>

\* process_cmd is through with a regular or an internal command.
ExecDone ==
    /\ Running
    /\ spc = "exec"
    /\ spc' = "loop"
    /\ executing' = TRUE
    /\ SignalDone
    /\ Answer(cur)
    /\ armed' = CASE cur.cmd = "START_CONTACT_DETECTION" -> TRUE
                  [] cur.cmd = "STOP_CONTACT_DETECTION" -> FALSE
                  [] OTHER -> armed
    /\ finished' = IF cur.cmd = ContactDetected THEN finished ELSE cur.id
    /\ cur' = Clear
    /\ UNCHANGED <<loopVars, internal, prog, started, repeats, clean>>

\* contact_thread detects a contact, delegates it to the main loop and ends.
ContactFires ==
    /\ "contact" \in Faults
    /\ Incident
    /\ Running
    /\ armed
    /\ armed' = FALSE
    /\ internal' = TRUE
    /\ clean' = FALSE
    /\ UNCHANGED <<envVars, spc, cur, executing, outReg, outVal, prog, histVars>>

\* A command ends the script with a runtime error.
ScriptDies ==
    /\ "die" \in Faults
    /\ Incident
    /\ Running
    /\ spc = "exec"
    /\ spc' = "off"
    /\ armed' = FALSE
    /\ prog' = "STOPPED"
    /\ UNCHANGED <<envVars, cur, executing, internal, outReg, outVal, histVars, clean>>

Script ==
    \/ Boot \/ LoopRealtime \/ LoopRealtimeReady \/ LoopIdle \/ LoopInternal
    \/ LoopStop \/ LoopRegular \/ ExecDone

-----------------------------------------------------------------------------
(* Controller and receive thread.                                          *)

\* A protective or emergency stop interrupts the program.
RobotStops ==
    /\ "stop" \in Faults
    /\ Incident
    /\ ~stop
    /\ spc # "rtDone" \/ "slice" \in Faults
    /\ stop' = TRUE
    /\ prog' \in IF prog = "PLAYING" THEN {"PLAYING", "PAUSED"} ELSE {prog}
    /\ clean' = (clean /\ spc # "rtDone")
    /\ UNCHANGED <<hostVars, writes, inReg, scriptVars, packages, state, histVars>>

\* The stop is released: the program goes on or was ended.
RobotReleased ==
    /\ stop
    /\ stop' = FALSE
    /\ \/ prog # "STOPPED" /\ prog' = "PLAYING" /\ UNCHANGED <<spc, armed>>
       \/ prog' = "STOPPED" /\ spc' = "off" /\ armed' = FALSE
    /\ UNCHANGED <<hostVars, writes, inReg, cur, executing, internal, outReg,
                   outVal, packages, state, histVars, incidents, clean>>

\* The controller sends a state package.
Sample ==
    /\ Len(packages) < MaxPackages
    /\ spc # "rtDone" \/ "slice" \in Faults
    /\ packages' = Append(packages, Current)
    /\ clean' = (clean /\ spc # "rtDone")
    /\ UNCHANGED <<hostVars, writes, inReg, scriptVars, prog, stop, state, histVars,
                   incidents>>

\* receiveData copies a package into robot_state_ ...
Deliver ==
    /\ packages # <<>>
    /\ state' = Head(packages)
    /\ packages' = Tail(packages)
    /\ UNCHANGED <<hostVars, writes, inReg, scriptVars, prog, stop, histVars,
                   incidents, clean>>

\* ... or skips it when another one is already in the buffer.
SkipPackage ==
    /\ Len(packages) > 1
    /\ packages' = Tail(packages)
    /\ UNCHANGED <<hostVars, writes, inReg, scriptVars, prog, stop, state,
                   histVars, incidents, clean>>

Next ==
    \/ \E c \in Calls : Call(c)
    \/ ReuploadScript
    \/ Client
    \/ ReadyTimeout
    \/ ExecutionTimeout
    \/ ReceiveWrite
    \/ Script
    \/ ContactFires
    \/ ScriptDies
    \/ RobotStops
    \/ RobotReleased
    \/ Sample
    \/ Deliver
    \/ SkipPackage

Spec == Init /\ [][Next]_vars

(***************************************************************************)
(* The client's thread, the receive thread, TCP and the script's cycle go  *)
(* on by themselves.  The controller sends a package in every cycle, and a *)
(* realtime command returns to the loop in every cycle: strong fairness.   *)
(* A timeout that has run out stays so, but is only looked at in the body  *)
(* of the polling loop: strong fairness.                                   *)
(***************************************************************************)
Fairness ==
    /\ WF_vars(Client)
    /\ WF_vars(ReceiveWrite)
    /\ WF_vars(Script)
    /\ SF_vars(Sample)
    /\ WF_vars(Deliver)
    /\ SF_vars(ReadyTimeout)
    /\ SF_vars(ExecutionTimeout)

FairSpec == Spec /\ Fairness

-----------------------------------------------------------------------------
(* Properties.                                                             *)

\* sendCommand reports success only for a command the script has processed,
\* as long as the run is undisturbed: a DONE still in the state stream, or
\* left in the register by an earlier command, is never taken for the answer.
SuccessMeansExecuted ==
    ret.ok /\ ret.clean /\ Regular(ret.cmd) => finished >= ret.id

\* A getter that waited for DONE returns the answer computed for this very
\* call, although it reads it from the cached state after sendCommand.
AnswerIsFresh ==
    /\ pc # "read"
    /\ ret.ok /\ ret.clean /\ Regular(ret.cmd) /\ ret.cmd \in Getters
    => ret.val = ret.id

\* An undisturbed client that is not inside a call never shares the robot
\* with a regular command that is still being processed.
IdleMeansDone == clean /\ pc = "idle" => spc # "exec"

\* process_cmd sees the commands of different calls in call order, whatever
\* is lost, overwritten or abandoned and even when the script is replaced.
InOrder == [][started' > started]_started

\* An undisturbed call returns without the help of a timeout: the script
\* gets to RDY and to DONE, or the client sees that it will not.
UndisturbedCallReturns == pc # "idle" /\ clean ~> pc = "idle" \/ ~clean

\* After a call the controller becomes ready for the next one by itself,
\* unless the program is not running or the robot is stopped.
ReadyAgain ==
    pc = "idle" ~> \/ pc # "idle"
                   \/ state.reg = RDY
                   \/ state.prog # "PLAYING" \/ state.stop

\* Every contact that the monitoring thread hands to the main loop goes
\* through process_cmd (the robot is stopped and retracted).
ContactIsProcessed ==
    [][internal /\ ~internal' /\ pc # "upload"
         => spc' = "exec" /\ cur'.cmd = ContactDetected]_internal

\* sendCommand reports success only for a command the script has processed.
SuccessMeansExecutedAlways ==
    ret.ok /\ Regular(ret.cmd) => finished >= ret.id

\* A getter of realtime class returns the answer computed for this call.
RealtimeAnswerIsFresh ==
    pc # "read" /\ ret.ok /\ ret.clean /\ ret.cmd \in Getters => ret.val = ret.id

\* One upload of the script never processes a regular command twice, although
\* the code stays in the input register for many cycles.
AtMostOnce == repeats <= 1

(***************************************************************************)
(* The service that the handshake implements.                              *)
(***************************************************************************)
InCall == pc \notin {"idle", "read", "upload"}

\* The call whose regular command is in process_cmd.
AtWork == IF spc = "exec" /\ cur.cmd # ContactDetected THEN cur.id ELSE 0

LastResult == [call |-> ret.id, ok |-> ret.ok,
               sure |-> ret.clean /\ Regular(ret.cmd), answer |-> ret.val]

Service == INSTANCE CommandService WITH
    calls <- id, open <- InCall, blocking <- Regular(cmd), running <- AtWork,
    begun <- started, again <- repeats = 0, done <- finished,
    result <- LastResult, trusted <- clean

\* The registers, the two streams, the script's loop and the polling client
\* together behave like a call that is carried out while the caller waits: the
\* steps of sendCommand and of the main loop are steps of CommandService.
ServiceIsImplemented == Service!Spec
=============================================================================
