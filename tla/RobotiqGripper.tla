--------------------------- MODULE RobotiqGripper ---------------------------
(***************************************************************************)
(* RobotiqGripper: threads of a client that share one gripper object.      *)
(* Every function is a sequence of exchanges, GET or SET of a few device   *)
(* variables under the mutex, and of loops that poll until the device has  *)
(* caught up.  The device goes its own way between two exchanges.          *)
(*                                                                         *)
(* Positions 0..255 are counted in coarse steps.  A value in the units of  *)
(* the client is counted in half steps, after multiplication with the      *)
(* factor of convertValueUnit, so that there is something to round.        *)
(***************************************************************************)
EXTENDS Integers, Sequences, FiniteSets, TLC

CONSTANTS
    Threads,   \* threads of the client
    Calls,     \* thread -> the functions it calls
    MaxPos,    \* the position 255, closed
    Slack,     \* the 5 steps autoCalibrate takes off
    MaxCalls   \* bound: calls of all threads

ASSUME GripperAssumption == MaxPos \in Nat /\ Slack \in 0..(MaxPos - 1) /\ MaxCalls \in Nat

VARIABLES
    dev,      \* variables of the device
    closedAt, \* history: where the last motion towards 255 ended
    answers,  \* answers on their way, in order
    mutex,    \* {} or the thread that holds mutex_
    pc, mode, stage,              \* per thread: where it is, MoveMode, the caller
    fPosition, goal,              \* per thread: fPosition and Position of move
    waiting,                      \* threads that wait for an answer
    alone,                        \* per thread: no other thread has set a variable of the
                                  \* device or taken a position since its call began
    cut,                          \* an answer to getVars came in several pieces
    min_position, max_position, unit, calls

vars == <<dev, closedAt, answers, mutex, pc, mode, stage, fPosition, goal, waiting, alone,
          cut, min_position, max_position, unit, calls>>
device == <<dev, closedAt>>
object == <<min_position, max_position, unit>>

\* Object status and fault status.
MOVING == 0
STOPPED_OUTER_OBJECT == 1
STOPPED_INNER_OBJECT == 2
AT_DEST == 3
NO_FAULT == 0
EMCY_RELEASE_ACTIVE == 11
EMCY_RELEASE_FINISHED == 15

Positions == 0..MaxPos
Clamp(x, lo, hi) == IF x < lo THEN lo ELSE IF x > hi THEN hi ELSE x

\* roundf goes away from zero at the half, the cast to int towards zero.
Round(h) == IF h >= 0 THEN (h + 1) \div 2 ELSE 0 - ((1 - h) \div 2)
Truncate(h) == IF h >= 0 THEN h \div 2 ELSE 0 - ((0 - h) \div 2)

ToDeviceUninverted(h) == IF unit = "UNIT_DEVICE" THEN Truncate(h) ELSE Round(h)
\* convertValueUnit: positions count from the closed end in every unit but the
\* device's own.  What is converted there and back is rounded to what it was:
\* the error of a division by the factor and a multiplication is far below 1/2.
ToDevice(h) == IF unit = "UNIT_DEVICE" THEN Truncate(h) ELSE max_position - Round(h)
FromDevice(x) == IF unit = "UNIT_DEVICE" THEN 2 * x ELSE 2 * (max_position - x)

(* Exchanges *)

Get(v) == [op |-> "GET", vars |-> <<v>>, value |-> 0]
Set(v, x) == [op |-> "SET", vars |-> <<v>>, value |-> x]

\* The exchange at each place of the functions.
Request(t) ==
    CASE pc[t] = "set" -> Set("POS", goal[t])        \* POS, SPE, FOR and GTO
      [] pc[t] = "pre" -> Get("PRE")
      [] pc[t] = "obj" -> Get("OBJ")
      [] pc[t] \in {"max", "max_inner", "min", "isopen", "dump"} -> Get("POS")
      [] pc[t] \in {"active", "reset_sta", "act_sta0", "act_sta3"} -> Get("STA")
      [] pc[t] \in {"reset", "again"} -> Set("ACT", 0)
      [] pc[t] = "reset_atr" -> Set("ATR", 0)
      [] pc[t] \in {"reset_act", "act_act0", "act_act1"} -> Get("ACT")
      [] pc[t] = "act_set" -> Set("ACT", 1)
      [] pc[t] = "rel_atr0" -> Set("ATR", 0)
      [] pc[t] = "rel_ard" -> Set("ARD", 1)            \* Direction
      [] pc[t] = "rel_act" -> Set("ACT", 1)
      [] pc[t] = "rel_atr1" -> Set("ATR", 1)
      [] pc[t] \in {"rel_begun", "rel_done", "rel_finished"} -> Get("FLT")
      [] OTHER -> [op |-> "GET", vars |-> <<"STA", "OBJ">>, value |-> 0]   \* getVars

\* Where a thread goes on after the answer x: the loops and the callers.
StartMove(t, position, caller) ==
    /\ pc' = [pc EXCEPT ![t] = "set"]
    /\ goal' = [goal EXCEPT ![t] = position]
    /\ stage' = [stage EXCEPT ![t] = caller]

To(t, label) ==
    /\ pc' = [pc EXCEPT ![t] = label]
    /\ IF label = "idle" THEN /\ goal' = [goal EXCEPT ![t] = 0]
                             /\ stage' = [stage EXCEPT ![t] = "client"]
       ELSE UNCHANGED <<goal, stage>>

\* The end of move_impl: back to the caller, or on with the calibration.
Moved(t, status) ==
    \/ /\ stage[t] = "open_first"
       /\ IF status = AT_DEST THEN StartMove(t, MaxPos, "close") ELSE To(t, "idle")
    \/ /\ stage[t] = "close"
       /\ To(t, IF status = AT_DEST THEN "max"
                ELSE IF status = STOPPED_INNER_OBJECT THEN "max_inner" ELSE "idle")
    \/ /\ stage[t] = "open"
       /\ To(t, IF status \in {AT_DEST, STOPPED_OUTER_OBJECT} THEN "min" ELSE "idle")
    \/ stage[t] \notin {"open_first", "close", "open"} /\ To(t, "idle")

AfterObjUntilThere(t, x) ==
    IF mode[t] = "WAIT_FINISHED" /\ x # AT_DEST THEN To(t, "obj") ELSE Moved(t, x)

\* waitForMotionComplete, or objectDetectionStatus when the move only starts.
AfterObj(t, x) ==
    IF mode[t] = "WAIT_FINISHED" /\ x = MOVING THEN To(t, "obj") ELSE Moved(t, x)

AfterPreUnchecked(t, x) == To(t, "obj")

\* The loop until the device has taken over the position asked for.
AfterPre(t, x) == IF x = goal[t] THEN To(t, "obj") ELSE To(t, "pre")

\* activate goes on to the calibration or to dumpVars.
Activated(t) == IF stage[t] = "calibrate" THEN StartMove(t, 0, "open_first") ELSE To(t, "dump")

AfterActivation(t, x) ==
    \/ pc[t] = "active" /\ IF x = 3 THEN Activated(t) ELSE To(t, "reset")
    \/ pc[t] \in {"reset", "again"} /\ To(t, "reset_atr")
    \/ pc[t] = "reset_atr" /\ To(t, "reset_act")
    \/ pc[t] = "reset_act" /\ To(t, IF x # 0 THEN "again" ELSE "reset_sta")
    \/ pc[t] = "reset_sta" /\ To(t, IF x # 0 THEN "again" ELSE "act_act0")
    \/ pc[t] = "act_act0" /\ To(t, IF x # 0 THEN "act_act0" ELSE "act_sta0")
    \/ pc[t] = "act_sta0" /\ To(t, IF x # 0 THEN "act_act0" ELSE "act_set")
    \/ pc[t] = "act_set" /\ To(t, "act_act1")
    \/ pc[t] = "act_act1" /\ To(t, IF x # 1 THEN "act_act1" ELSE "act_sta3")
    \/ pc[t] = "act_sta3" /\ IF x # 3 THEN To(t, "act_act1") ELSE Activated(t)

\* emergencyRelease reads the fault status twice in the condition of its loop.
AfterRelease(t, x) ==
    \/ pc[t] = "rel_atr0" /\ To(t, "rel_ard")
    \/ pc[t] = "rel_ard" /\ To(t, "rel_act")
    \/ pc[t] = "rel_act" /\ To(t, "rel_atr1")
    \/ pc[t] = "rel_atr1" /\ To(t, "rel_begun")
    \/ /\ pc[t] = "rel_begun"
       /\ To(t, IF x # EMCY_RELEASE_ACTIVE THEN "rel_done"
                ELSE IF mode[t] = "START_MOVE" THEN "idle" ELSE "rel_finished")
    \/ /\ pc[t] = "rel_done"
       /\ To(t, IF x # EMCY_RELEASE_FINISHED THEN "rel_begun"
                ELSE IF mode[t] = "START_MOVE" THEN "idle" ELSE "rel_finished")
    \/ /\ pc[t] = "rel_finished"
       /\ To(t, IF x # EMCY_RELEASE_FINISHED THEN "rel_finished" ELSE "idle")

Answered(t, x) ==
    \/ pc[t] = "set" /\ To(t, "pre")
    \/ pc[t] = "pre" /\ AfterPre(t, x)
    \/ pc[t] = "obj" /\ AfterObj(t, x)
    \/ pc[t] = "max" /\ StartMove(t, 0, "open")
    \/ pc[t] = "max_inner" /\ To(t, "slack")
    \/ pc[t] = "min" /\ To(t, "dump")
    \/ pc[t] \in {"dump", "getvars", "isopen"} /\ To(t, "idle")
    \/ AfterRelease(t, x)
    \/ AfterActivation(t, x)

-----------------------------------------------------------------------------
Init ==
    /\ \E active \in {0, 1} :
         dev = [ACT |-> active, STA |-> 3 * active, ATR |-> 0, ARD |-> 0, REQ |-> 0,
                POS |-> 0, PRE |-> 0, OBJ |-> AT_DEST, FLT |-> NO_FAULT]
    /\ closedAt = 0
    /\ answers = <<>> /\ mutex = {}
    /\ pc = [t \in Threads |-> "idle"]
    /\ fPosition = [t \in Threads |-> 0] /\ goal = [t \in Threads |-> 0]
    /\ mode = [t \in Threads |-> "WAIT_FINISHED"] /\ stage = [t \in Threads |-> "client"]
    /\ waiting = {}
    /\ alone = [t \in Threads |-> TRUE] /\ cut = FALSE
    /\ min_position = 0 /\ max_position = MaxPos
    /\ unit \in {"UNIT_DEVICE", "UNIT_NORMALIZED"}
    /\ calls = 0

(* Calls *)

Begin(t, label, value, m, caller) ==
    /\ pc[t] = "idle" /\ calls < MaxCalls
    /\ calls' = calls + 1
    /\ pc' = [pc EXCEPT ![t] = label]
    /\ fPosition' = [fPosition EXCEPT ![t] = value]
    /\ mode' = [mode EXCEPT ![t] = m]
    /\ stage' = [stage EXCEPT ![t] = caller]
    /\ alone' = [alone EXCEPT ![t] = TRUE]
    /\ UNCHANGED <<device, answers, mutex, goal, waiting, cut, object>>

Modes == {"START_MOVE", "WAIT_FINISHED"}

\* open and close convert an end of the range for move, which converts it back:
\* max_position_ is read twice, without the mutex.
Move(t) == \E h \in {-1, 1, 2 * MaxPos + 1}, m \in Modes : Begin(t, "convert", h, m, "client")
Open(t) == \E m \in Modes : Begin(t, "convert", FromDevice(0), m, "open()")
Close(t) == \E m \in Modes : Begin(t, "convert", FromDevice(MaxPos), m, "close()")
Activate(t) == \E auto \in {"calibrate", "client"} : Begin(t, "active", 0, "WAIT_FINISHED", auto)
EmergencyRelease(t) == \E m \in Modes : Begin(t, "rel_atr0", 0, m, "client")
GetVars(t) == Begin(t, "getvars", 0, "WAIT_FINISHED", "client")
IsOpen(t) == Begin(t, "isopen", 0, "WAIT_FINISHED", "client")

Call(t) ==
    \/ "move" \in Calls[t] /\ (Move(t) \/ Open(t) \/ Close(t))
    \/ "activate" \in Calls[t] /\ Activate(t)
    \/ "release" \in Calls[t] /\ EmergencyRelease(t)
    \/ "getvars" \in Calls[t] /\ (GetVars(t) \/ IsOpen(t))

\* The conversion of move, with the range as it is now.
Convert(t) ==
    /\ pc[t] = "convert"
    /\ pc' = [pc EXCEPT ![t] = "set"]
    /\ goal' = [goal EXCEPT ![t] = Clamp(ToDevice(fPosition[t]), 0, MaxPos)]
    /\ fPosition' = [fPosition EXCEPT ![t] = 0]
    /\ UNCHANGED <<device, answers, mutex, mode, stage, waiting, alone, cut, object, calls>>

(* getVar, getVars and setVars *)

\* Where a thread is busy with the object and not with the device.
Local == {"idle", "convert", "slack"}

\* The request, and the answer the device makes of its variables.
Exchange(t) ==
    /\ mutex' = {t}
    /\ LET r == Request(t)
       IN  /\ answers' = answers \o [i \in DOMAIN r.vars |->
                [of |-> t, op |-> r.op, var |-> r.vars[i],
                 value |-> IF r.op = "GET" THEN dev[r.vars[i]] ELSE 0]]
           /\ dev' = IF r.op = "GET" THEN dev
                     ELSE [dev EXCEPT ![IF r.vars[1] = "POS" THEN "REQ" ELSE r.vars[1]] = r.value]
           /\ alone' = [u \in Threads |-> alone[u] /\ (r.op = "GET" \/ u = t)]
    /\ waiting' = waiting \cup {t}
    /\ UNCHANGED <<closedAt, pc, mode, stage, fPosition, goal, cut, object, calls>>

SendUnlocked(t) == pc[t] \notin Local /\ t \notin waiting /\ Exchange(t)

Send(t) == pc[t] \notin Local /\ mutex = {} /\ Exchange(t)

\* The places where autoCalibrate reads a position.
Calibrating == {"max", "max_inner", "min"}

CalibrateSwapped(t, x) ==
    /\ max_position' = IF pc[t] = "min" THEN x ELSE max_position
    /\ min_position' = IF pc[t] \in {"max", "max_inner"} THEN x ELSE min_position

\* What autoCalibrate keeps of the positions it reads.  The slack it takes off
\* min_position_ is overwritten by the position read after it.
Calibrate(t, x) ==
    /\ max_position' = IF pc[t] \in {"max", "max_inner"} THEN Clamp(x, x, MaxPos) ELSE max_position
    /\ min_position' = IF pc[t] = "min" THEN x ELSE min_position

\* autoCalibrate has closed on something: a second write of max_position_.
TakeSlack(t) ==
    /\ pc[t] = "slack"
    /\ max_position' = max_position - Slack
    /\ StartMove(t, 0, "open")
    /\ alone' = [u \in Threads |-> alone[u] /\ u = t]
    /\ UNCHANGED <<device, answers, mutex, mode, fPosition, waiting, cut, min_position, unit, calls>>

\* move_impl insists on an acknowledgement, the other callers of setVar do not
\* look at it; getVar insists on the name of its variable, getVars on nothing.
Accepts(t, a) ==
    CASE pc[t] = "getvars" -> TRUE
      [] pc[t] = "set" -> a.op = "SET"
      [] Request(t).op = "SET" /\ pc[t] # "set" -> TRUE
      [] OTHER -> a.op = "GET" /\ a.var = Request(t).vars[1]

\* receive reads what is there: the answer to getVars may come in two pieces, the
\* second of which stays behind.  The exceptions of getVar and move_impl end the
\* call.
Receive(t) ==
    /\ t \in waiting /\ answers # <<>>
    /\ waiting' = waiting \ {t}
    /\ LET a == Head(answers)
       IN  /\ \E rest \in {<<>>, Tail(answers)} :
                /\ answers' = rest
                /\ cut' = (cut \/ rest # <<>>)
           /\ \/ /\ Accepts(t, a)
                 /\ Answered(t, a.value)
                 /\ Calibrate(t, a.value)
              \/ /\ ~ Accepts(t, a)
                 /\ To(t, "idle")
                 /\ UNCHANGED <<min_position, max_position>>
    /\ alone' = [u \in Threads |-> alone[u] /\ (u = t \/ pc[t] \notin Calibrating)]
    /\ mutex' = {}
    /\ UNCHANGED <<device, mode, fPosition, unit, calls>>

(* The device, external *)

Device(d) ==
    /\ dev' = d
    /\ dev # d
    /\ closedAt' = IF d.PRE = MaxPos /\ d.OBJ # MOVING THEN d.POS ELSE closedAt
    /\ UNCHANGED <<answers, mutex, pc, mode, stage, fPosition, goal, waiting, alone, cut,
                   object, calls>>

DeviceActivates ==
    \/ dev.ACT = 0 /\ Device([dev EXCEPT !.STA = 0, !.FLT = NO_FAULT])
    \/ dev.ACT = 1 /\ dev.STA = 0 /\ Device([dev EXCEPT !.STA = 1])
    \/ dev.ACT = 1 /\ dev.STA = 1 /\ Device([dev EXCEPT !.STA = 3])

\* An active gripper takes over the requested position and sets out.
DeviceTakesOver ==
    /\ dev.STA = 3 /\ dev.PRE # dev.REQ
    /\ Device([dev EXCEPT !.PRE = dev.REQ,
                          !.OBJ = IF dev.POS = dev.REQ THEN AT_DEST ELSE MOVING])

\* The fingers stop where they should or at an object on the way.
DeviceArrives ==
    /\ dev.OBJ = MOVING
    /\ \E end \in Positions :
         /\ end \in (dev.POS..dev.PRE) \cup (dev.PRE..dev.POS)
         /\ Device([dev EXCEPT !.POS = end,
                               !.OBJ = IF end = dev.PRE THEN AT_DEST
                                       ELSE IF dev.PRE > end THEN STOPPED_INNER_OBJECT
                                       ELSE STOPPED_OUTER_OBJECT])

DeviceReleases ==
    /\ dev.ACT = 1 /\ dev.ATR = 1
    /\ \/ dev.FLT = NO_FAULT /\ Device([dev EXCEPT !.FLT = EMCY_RELEASE_ACTIVE])
       \/ dev.FLT = EMCY_RELEASE_ACTIVE /\ Device([dev EXCEPT !.FLT = EMCY_RELEASE_FINISHED])

Next ==
    \/ \E t \in Threads : Call(t) \/ Convert(t) \/ Send(t) \/ Receive(t) \/ TakeSlack(t)
    \/ DeviceActivates \/ DeviceTakesOver \/ DeviceArrives \/ DeviceReleases

\* The device answers and goes on; threads that have begun a call are scheduled
\* and get the mutex in the end.
Spec ==
    /\ Init /\ [][Next]_vars
    /\ \A t \in Threads : /\ SF_vars(Send(t)) /\ WF_vars(Receive(t))
                           /\ WF_vars(Convert(t)) /\ WF_vars(TakeSlack(t))
    /\ WF_vars(DeviceActivates) /\ WF_vars(DeviceTakesOver)
    /\ WF_vars(DeviceArrives) /\ WF_vars(DeviceReleases)

-----------------------------------------------------------------------------
(* Properties *)

\* The variables have their types; a position that is sent to the device is in
\* the device's range whatever the client passed and whatever the calibration
\* has found.
TypeOK ==
    /\ dev.REQ \in Positions /\ dev.PRE \in Positions /\ dev.POS \in Positions
    /\ dev.OBJ \in {MOVING, AT_DEST, STOPPED_INNER_OBJECT, STOPPED_OUTER_OBJECT}
    /\ dev.STA \in {0, 1, 3} /\ dev.FLT \in {NO_FAULT, EMCY_RELEASE_ACTIVE, EMCY_RELEASE_FINISHED}
    /\ mutex \subseteq Threads /\ waiting \subseteq Threads /\ Cardinality(mutex) <= 1
    /\ min_position \in Positions /\ max_position \in (0 - Slack)..MaxPos
    /\ closedAt \in Positions /\ fPosition \in [Threads -> Int]
    /\ goal \in [Threads -> Positions] /\ mode \in [Threads -> Modes]
    /\ cut \in BOOLEAN /\ alone \in [Threads -> BOOLEAN] /\ calls \in 0..MaxCalls

\* A thread gets the answer to its own request, however the calls of the threads
\* interleave, until an answer to getVars has come in pieces.
AnswersMatch ==
    [][\A t \in Threads : (t \in waiting /\ t \notin waiting' /\ ~ cut) =>
            Head(answers).of = t]_vars

\* A move that waited and reports AT_DEST has reached the position it was asked
\* for: the status is never that of the motion before it.  No other thread has
\* set anything since the call began.
DoneMeansThere ==
    [][\A t \in Threads :
         (/\ pc[t] = "obj" /\ t \in waiting /\ t \notin waiting'
          /\ mode[t] = "WAIT_FINISHED" /\ Head(answers).value = AT_DEST /\ alone[t] /\ ~ cut)
         => dev.POS = goal[t]]_vars

\* An open() or close() that waited and reports AT_DEST leaves a gripper that is
\* open for isOpen, or closed for isClosed, in every unit and with every range
\* a calibration has left, a negative one too, although the end is converted
\* there and back.  No other thread has taken a position meanwhile.
OpenedIsOpen ==
    [][\A t \in Threads :
         (/\ pc[t] = "obj" /\ t \in waiting /\ t \notin waiting'
          /\ mode[t] = "WAIT_FINISHED" /\ Head(answers).value = AT_DEST /\ alone[t] /\ ~ cut)
         => /\ stage[t] = "open()" => dev.POS <= min_position
            /\ stage[t] = "close()" => dev.POS >= max_position]_vars

\* An undisturbed autoCalibrate leaves a range in which the gripper is open where
\* the last opening stopped and closed where the closing before it stopped,
\* wherever objects were met, and the range is not upside down when the two are
\* at least the slack apart.
CalibrationCoversTheEnds ==
    [][\A t \in Threads :
         (pc[t] = "min" /\ t \in waiting /\ t \notin waiting' /\ alone[t] /\ ~ cut)
         => /\ dev.POS <= min_position' /\ max_position' <= closedAt
            /\ dev.POS + Slack <= closedAt => min_position' <= max_position']_vars

\* The range autoCalibrate leaves is never upside down.  It is when the fingers
\* have closed on something less than the slack from where they open to.
RangeIsUpright ==
    [][\A t \in Threads :
         (pc[t] = "min" /\ t \in waiting /\ t \notin waiting' /\ alone[t] /\ ~ cut)
         => min_position' <= max_position']_vars

\* open() and close() ask for the ends of the range also while another thread
\* calibrates.  They do not: max_position_ may change between their two reads.
EndsAreAskedFor ==
    \A t \in Threads : pc[t] = "set" => /\ stage[t] = "open()" => goal[t] = 0
                                        /\ stage[t] = "close()" => goal[t] = MaxPos

\* A call returns unless another thread sets something meanwhile or a move was
\* asked of a gripper that is not active: the reset and the activation are taken
\* over by the device, the position asked for is repeated, and the loops see it.
CallReturns ==
    \A t \in Threads :
        pc[t] # "idle" ~> (\/ pc[t] = "idle" \/ ~ alone[t] \/ cut
                           \/ pc[t] = "pre" /\ dev.STA # 3)
=============================================================================
