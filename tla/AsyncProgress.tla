--------------------------- MODULE AsyncProgress ---------------------------
(***************************************************************************)
(* Asynchronous operations of the controller script and the status word    *)
(* through which the host follows them.  process_cmd (scripts/             *)
(* rtde_control.script) starts a move_thread or a stop_thread and returns; *)
(* the thread announces itself, its waypoints and its end in output        *)
(* register 2, which AsyncOperationStatus (rtde_control_interface.h)       *)
(* decodes.  A thread may lose its time slice between any two calls        *)
(* outside enter_critical ... exit_critical.                               *)
(*                                                                         *)
(* Threads are numbered by the command that starts them; the number stands *)
(* for the thread handle.                                                  *)
(***************************************************************************)
EXTENDS Integers

CONSTANTS
    Ids,        \* async_op_id counts modulo this (128 in the script)
    Counts,     \* async_wr_count counts modulo this (128 in the script)
    Waypoints,  \* waypoints of a path
    MaxOps      \* bound: commands

ASSUME AsyncAssumption ==
    /\ Ids \in 2 .. 128
    /\ Counts \in 2 .. 128
    /\ Waypoints \in Nat
    /\ MaxOps \in Nat

Stops == {"stopj", "stopl"}
Kinds == {"move", "path"} \cup Stops
Numbers == 1 .. MaxOps

VARIABLES
    mpc,        \* the main thread: where process_cmd stands
    ops,        \* commands so far: the number of the current command
    kind,       \* kind[n]: what command n is
    async,      \* async[n]: command n was given with async = 1
    thr,        \* thr[n]: the state of the thread of command n
    step,       \* step[n]: waypoints that command n has announced
    moveThrd,   \* move_thrd
    stopThrd,   \* stop_thrd
    stopType,   \* stop_type
    wrCount,    \* async_wr_count
    opId,       \* async_op_id
    reg,        \* output_int_register_2
    seen,       \* the status word the host read last
    missed,     \* history: writes since then, or -1 after an upload
    byMain      \* history: the main thread wrote the register last, in a path

threadVars == <<thr, step>>
handleVars == <<moveThrd, stopThrd, stopType>>
cmdVars == <<ops, kind, async>>
regVars == <<wrCount, opId, reg, missed, byMain>>
vars == <<mpc, cmdVars, threadVars, handleVars, regVars, seen>>

-----------------------------------------------------------------------------
(* The status word.                                                        *)

Progress(value) == IF value > 32767 THEN 32767 ELSE value

\* Mutant of Word: the operation id starts at bit 23.
WordAtBit23(id, count, value) ==
    count * 65536 + id * 8388608 + (IF value >= 0 THEN Progress(value) + 32768 ELSE 0)

\* The word that write_async_progress_register puts together.
Word(id, count, value) ==
    count * 65536 + id * 16777216 + (IF value >= 0 THEN Progress(value) + 32768 ELSE 0)

isAsyncOperationRunning(word) == (word \div 32768) % 2 = 1
operationId(word) == (word \div 16777216) % 128
changeCount(word) == (word \div 65536) % 256

\* Mutant of NextCount: the counter stops at its limit.
Saturate(c) == IF c + 1 = Counts THEN c ELSE c + 1

NextCount(c) == IF c + 1 > Counts - 1 THEN 0 ELSE c + 1

\* Mutant of NextId: the counter grows past its bits.
NoWrap(i) == i + 1

NextId(i) == IF i + 1 > Ids - 1 THEN 0 ELSE i + 1

\* write_async_progress_register; 0 announces a new operation.
WriteProgress(value, main) ==
    /\ wrCount' = NextCount(wrCount)
    /\ opId' = IF value = 0 THEN NextId(opId) ELSE opId
    /\ reg' = Word(opId', wrCount', value)
    /\ missed' = IF missed = -1 THEN -1 ELSE missed + 1
    /\ byMain' = main

SignalFinished == WriteProgress(-1, FALSE)

-----------------------------------------------------------------------------
RegTypeOK ==
    /\ wrCount \in 0 .. Counts - 1
    /\ opId \in 0 .. Ids - 1
    /\ reg \in Nat
    /\ missed \in Nat \cup {-1}
    /\ byMain \in BOOLEAN

\* Every variable has its type; the two counters stay within their bits.
TypeOK ==
    /\ mpc \in {"ready", "stopMove", "run", "block", "off", "path"}
    /\ ops \in 0 .. MaxOps
    /\ kind \in [Numbers -> Kinds]
    /\ async \in [Numbers -> BOOLEAN]
    /\ thr \in [Numbers -> {"none", "new", "busy", "last"}]
    /\ step \in [Numbers -> 0 .. Waypoints]
    /\ moveThrd \in 0 .. MaxOps
    /\ stopThrd \in 0 .. MaxOps
    /\ stopType \in Stops
    /\ RegTypeOK
    /\ seen \in Nat

\* After the first upload: reset_async_progress has written the register.
Init ==
    /\ mpc = "ready"
    /\ ops = 0
    /\ kind = [n \in Numbers |-> "move"]
    /\ async = [n \in Numbers |-> FALSE]
    /\ thr = [n \in Numbers |-> "none"]
    /\ step = [n \in Numbers |-> 0]
    /\ moveThrd = 0
    /\ stopThrd = 0
    /\ stopType = "stopj"
    /\ wrCount = 1
    /\ opId = 0
    /\ reg = Word(0, 1, -1)
    /\ seen = reg
    /\ missed = 0
    /\ byMain = FALSE

-----------------------------------------------------------------------------
(* The main thread: process_cmd.                                           *)

Arrives(k, a) ==
    /\ mpc = "ready"
    /\ ops < MaxOps
    /\ ops' = ops + 1
    /\ kind' = [kind EXCEPT ![ops'] = k]
    /\ async' = [async EXCEPT ![ops'] = a]

\* What process_cmd does next with command n: run the thread or block.
Proceed(n) == mpc' = IF async'[n] THEN "run" ELSE "block"

\* Mutant of KillMove: the thread's last word is forgotten.
KillSilently ==
    IF moveThrd # 0
      THEN /\ thr' = [thr EXCEPT ![moveThrd] = "none"]
           /\ moveThrd' = 0
           /\ UNCHANGED regVars
      ELSE UNCHANGED <<thr, moveThrd, regVars>>

\* Mutant of KillMove: the running thread is left alone.
ForgetKill == UNCHANGED <<thr, moveThrd, regVars>>

\* stop_async_move, a critical section.
KillMove ==
    IF moveThrd # 0
      THEN /\ thr' = [thr EXCEPT ![moveThrd] = "none"]
           /\ moveThrd' = 0
           /\ SignalFinished
      ELSE UNCHANGED <<thr, moveThrd, regVars>>

\* movej, movel and their variants.
MoveCommand(a) ==
    /\ Arrives("move", a)
    /\ KillMove
    /\ Proceed(ops')
    /\ UNCHANGED <<step, stopThrd, stopType, seen>>

\* exec_stopl_stopj, first critical section: an older stop_thread is killed;
\* only if there was none the asynchronous move is stopped.
StopCommand(k, a) ==
    /\ Arrives(k, a)
    /\ \/ /\ stopThrd # 0
          /\ thr' = [thr EXCEPT ![stopThrd] = "none"]
          /\ stopThrd' = 0
          /\ SignalFinished
          /\ Proceed(ops')
       \/ /\ stopThrd = 0
          /\ mpc' = "stopMove"
          /\ UNCHANGED <<thr, stopThrd, regVars>>
    /\ UNCHANGED <<step, moveThrd, stopType, seen>>

StopMove ==
    /\ mpc = "stopMove"
    /\ KillMove
    /\ mpc' = IF async[ops] THEN "run" ELSE "block"
    /\ UNCHANGED <<cmdVars, step, stopThrd, stopType, seen>>

\* run move_thread() or run stop_thread().  exec_stopl_stopj sets stop_type for
\* the thread, to stopl whatever the command is.
RunThread ==
    /\ mpc = "run"
    /\ thr' = [thr EXCEPT ![ops] = "new"]
    /\ IF kind[ops] \in Stops
         THEN stopThrd' = ops /\ stopType' = "stopl" /\ UNCHANGED moveThrd
         ELSE moveThrd' = ops /\ UNCHANGED <<stopThrd, stopType>>
    /\ mpc' = "ready"
    /\ UNCHANGED <<cmdVars, step, regVars, seen>>

\* The next waypoint of a path: signal_async_progress(i) and the move to it.
MainWaypoint ==
    /\ mpc = "block"
    /\ kind[ops] = "path"
    /\ step[ops] < Waypoints
    /\ WriteProgress(step[ops], TRUE)
    /\ step' = [step EXCEPT ![ops] = @ + 1]
    /\ UNCHANGED <<mpc, cmdVars, thr, handleVars, seen>>

\* A synchronous command is through.
Unblock ==
    /\ mpc = "block"
    /\ kind[ops] = "path" => step[ops] = Waypoints
    /\ mpc' = "ready"
    /\ UNCHANGED <<cmdVars, threadVars, handleVars, regVars, seen>>

\* movePath stops the script, with all its threads, ...
StopScript(a) ==
    /\ Arrives("path", a)
    /\ mpc' = "off"
    /\ thr' = [n \in Numbers |-> "none"]
    /\ UNCHANGED <<step, handleVars, regVars, seen>>

\* ... and uploads it again: the globals start over and reset_async_progress
\* writes the register.
Boot ==
    /\ mpc = "off"
    /\ mpc' = "path"
    /\ moveThrd' = 0
    /\ stopThrd' = 0
    /\ stopType' = "stopj"
    /\ wrCount' = NextCount(0)
    /\ opId' = 0
    /\ reg' = Word(0, wrCount', -1)
    /\ missed' = -1
    /\ byMain' = FALSE
    /\ UNCHANGED <<cmdVars, threadVars, seen>>

\* MOVE_PATH
PathCommand ==
    /\ mpc = "path"
    /\ KillMove
    /\ mpc' = IF async[ops] THEN "run" ELSE "block"
    /\ UNCHANGED <<cmdVars, step, stopThrd, stopType, seen>>

Main ==
    \/ StopMove \/ RunThread \/ MainWaypoint \/ Unblock \/ Boot \/ PathCommand

-----------------------------------------------------------------------------
(* move_thread and stop_thread.                                            *)

\* signal_async_operation_started
ThreadStarts(n) ==
    /\ thr[n] = "new"
    /\ thr' = [thr EXCEPT ![n] = "busy"]
    /\ WriteProgress(0, FALSE)
    /\ UNCHANGED <<mpc, cmdVars, step, handleVars, seen>>

\* The next waypoint of exec_move_path.
ThreadWaypoint(n) ==
    /\ thr[n] = "busy"
    /\ kind[n] = "path"
    /\ step[n] < Waypoints
    /\ WriteProgress(step[n], FALSE)
    /\ step' = [step EXCEPT ![n] = @ + 1]
    /\ UNCHANGED <<mpc, cmdVars, thr, handleVars, seen>>

\* The movement is over: the critical section that clears the handle.
ThreadClears(n) ==
    /\ thr[n] = "busy"
    /\ kind[n] = "path" => step[n] = Waypoints
    /\ thr' = [thr EXCEPT ![n] = "last"]
    /\ IF kind[n] \in Stops
         THEN stopThrd' = 0 /\ UNCHANGED moveThrd
         ELSE moveThrd' = 0 /\ UNCHANGED stopThrd
    /\ UNCHANGED <<mpc, cmdVars, step, stopType, regVars, seen>>

\* signal_async_operation_finished
ThreadFinishes(n) ==
    /\ thr[n] = "last"
    /\ thr' = [thr EXCEPT ![n] = "none"]
    /\ SignalFinished
    /\ UNCHANGED <<mpc, cmdVars, step, handleVars, seen>>

Thread(n) ==
    ThreadStarts(n) \/ ThreadWaypoint(n) \/ ThreadClears(n) \/ ThreadFinishes(n)

\* getAsyncOperationProgressEx
HostReads ==
    /\ seen' = reg
    /\ missed' = 0
    /\ UNCHANGED <<mpc, cmdVars, threadVars, handleVars, wrCount, opId, reg, byMain>>

Next ==
    \/ \E a \in BOOLEAN : MoveCommand(a) \/ StopScript(a)
    \/ \E k \in Stops, a \in BOOLEAN : StopCommand(k, a)
    \/ Main
    \/ \E n \in Numbers : Thread(n)
    \/ HostReads

Spec == Init /\ [][Next]_vars

\* Every thread of the script gets its time slices.
FairSpec == Spec /\ WF_vars(Main) /\ \A n \in Numbers : WF_vars(Thread(n))

-----------------------------------------------------------------------------
(* Properties.                                                             *)

Moving(n) == thr[n] \in {"new", "busy"} /\ kind[n] \notin Stops

\* At most one move thread drives the robot, and none while the main thread
\* moves it itself: whatever the order of commands and thread ends, the kill
\* in stop_async_move reaches the thread that is still moving.
OneMover ==
    /\ \A m, n \in Numbers : Moving(m) /\ Moving(n) => m = n
    /\ mpc = "block" /\ kind[ops] \notin Stops => \A n \in Numbers : ~Moving(n)

Live == {n \in Numbers : thr[n] \in {"busy", "last"}}

\* The status says "running" only while some thread is going to say
\* "finished"; the exceptions are a script that was stopped for an upload and
\* a synchronous path, which reports its waypoints too.
RunningIsAnswered ==
    isAsyncOperationRunning(reg) => Live # {} \/ mpc = "off" \/ byMain

\* The operation id and the change counter that the host decodes from the
\* status word are the script's, through every wrap and every upload.
WordIsDecoded ==
    /\ operationId(reg) = opId
    /\ changeCount(reg) = wrCount

\* A host that finds the word it read last has missed nothing, or as many
\* writes as make the change counter come round, or an upload.
EqualMeansUnchanged == seen = reg /\ missed > 0 => missed >= Counts

\* An operation that is reported as running is reported as finished in the
\* end, unless it is a synchronous path.
RunningEnds == isAsyncOperationRunning(reg) ~> ~isAsyncOperationRunning(reg) \/ byMain

\* A stop decelerates the way it was asked to: linearly in tool space for
\* stopL and in joint space for stopJ, whatever stop ran before it.
StopsAsAsked ==
    /\ mpc = "block" /\ kind[ops] \in Stops => stopType = kind[ops]
    /\ \A n \in Numbers : thr[n] = "busy" /\ kind[n] \in Stops => stopType = kind[n]

\* Between two commands the running bit is set only while an asynchronous
\* operation is running.
RunningMeansAsync == mpc = "ready" /\ isAsyncOperationRunning(reg) => Live # {}

\* As long as an operation is running, its operation id does not change.
OperationIdStable ==
    [][\A n \in Numbers : thr[n] = "busy" /\ thr'[n] = "busy" /\ Live = {n} /\ Live' = {n}
          => operationId(reg') = operationId(reg)]_reg
=============================================================================
