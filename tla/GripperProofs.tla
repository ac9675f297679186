--------------------------- MODULE GripperProofs ---------------------------
(***************************************************************************)
(* Proofs about RobotiqGripper, for every number of threads, whatever they *)
(* call: a thread gets its own answers, a finished move is at its goal, a  *)
(* gripper that was opened is open and one that was closed is closed, and  *)
(* autoCalibrate finds where the fingers have stopped.                     *)
(***************************************************************************)
EXTENDS RobotiqGripper, TLAPS

Fields == {"ACT", "STA", "ATR", "ARD", "REQ", "POS", "PRE", "OBJ", "FLT"}
Answers == [of : Threads, op : {"GET", "SET"}, var : Fields, value : Int]
PerThread(f) == f = [t \in Threads |-> f[t]]

\* The mutex is held from the request to the answer.
TypeInv ==
    /\ dev \in [Fields -> Int] /\ closedAt \in Int
    /\ answers \in Seq(Answers)
    /\ mutex = waiting /\ (waiting = {} \/ \E t \in Threads : waiting = {t})
    /\ \A t \in waiting : pc[t] \notin Local
    /\ PerThread(pc) /\ PerThread(stage)
    /\ goal \in [Threads -> Int] /\ fPosition \in [Threads -> Int]
    /\ alone \in [Threads -> BOOLEAN] /\ cut \in BOOLEAN
    /\ min_position \in Int /\ max_position \in Int

\* autoCalibrate asks for the ends.  So do open() and close(): what they convert
\* is the end as long as nobody changes the range between their two reads.
Undisturbed(t) ==
    /\ (stage[t] = "open()" /\ pc[t] = "convert") => fPosition[t] = FromDevice(0)
    /\ (stage[t] = "open()" /\ pc[t] # "convert") => goal[t] = 0
    /\ (stage[t] = "close()" /\ pc[t] = "convert") => fPosition[t] = FromDevice(MaxPos)
    /\ (stage[t] = "close()" /\ pc[t] # "convert") => goal[t] = MaxPos

GoalInv ==
    \A t \in Threads : /\ stage[t] \in {"open_first", "open"} => goal[t] = 0
                       /\ stage[t] = "close" => goal[t] = MaxPos
                       /\ pc[t] = "convert" => stage[t] \notin {"open_first", "open", "close"}
                       /\ alone[t] => Undisturbed(t)

\* The answers on their way are those of the thread that waits.
OwnInv ==
    ~ cut => /\ waiting = {} => answers = <<>>
             /\ \A t \in waiting : answers # <<>> /\ \A i \in 1..Len(answers) : answers[i].of = t

\* What the status of the device says of its position.
DeviceInv ==
    /\ dev["POS"] >= 0 /\ dev["POS"] <= MaxPos
    /\ dev["OBJ"] = AT_DEST => dev["POS"] = dev["PRE"]
    /\ (dev["PRE"] = MaxPos /\ dev["OBJ"] # MOVING) => closedAt = dev["POS"]

\* The range lies between positions of the device, except that the slack may take
\* its end below 0.
RangeInv ==
    /\ min_position >= 0 /\ max_position <= MaxPos
    /\ \A i \in 1..Len(answers) :
         (answers[i].op = "GET" /\ answers[i].var = "POS") =>
            answers[i].value >= 0 /\ answers[i].value <= MaxPos

\* How far the device has followed a move.
Settled == {"obj", "slack"} \cup Calibrating

Following(t) ==
    /\ ((pc[t] = "set" /\ t \in waiting) \/ pc[t] \in {"pre"} \cup Settled) => dev["REQ"] = goal[t]
    /\ (pc[t] = "pre" /\ t \in waiting /\ answers[1].value = goal[t]) => dev["PRE"] = goal[t]
    /\ pc[t] \in Settled => dev["PRE"] = goal[t]
    /\ (pc[t] = "obj" /\ t \in waiting /\ answers[1].value # MOVING)
          => dev["OBJ"] = answers[1].value

\* Where the fingers are when autoCalibrate reads the position, and what it knows
\* of the closing while it opens again.
Calibration(t) ==
    /\ pc[t] = "max" => dev["OBJ"] = AT_DEST /\ stage[t] = "close"
    /\ pc[t] = "max_inner" => dev["OBJ"] = STOPPED_INNER_OBJECT /\ stage[t] = "close"
    /\ pc[t] = "slack" => /\ dev["OBJ"] = STOPPED_INNER_OBJECT /\ stage[t] = "close"
                          /\ max_position = closedAt
    /\ pc[t] = "min" => stage[t] = "open"
    /\ (pc[t] \in Calibrating /\ t \in waiting) =>
         answers[1].op = "GET" /\ answers[1].var = "POS" /\ answers[1].value = dev["POS"]
    /\ pc[t] = "min" => dev["OBJ"] # MOVING
    /\ stage[t] = "open" =>
         /\ max_position <= closedAt /\ closedAt - Slack <= max_position
         /\ dev["PRE"] # 0 => dev["PRE"] = MaxPos /\ dev["OBJ"] # MOVING
         /\ dev["REQ"] # 0 => dev["REQ"] = MaxPos /\ dev["PRE"] = MaxPos

MotionInv == \A t \in Threads : (alone[t] /\ ~ cut) => Following(t) /\ Calibration(t)

GripperInv == TypeInv /\ GoalInv /\ OwnInv /\ DeviceInv /\ RangeInv /\ MotionInv

-----------------------------------------------------------------------------
(* Where a thread goes after an answer *)

\* It is back, it starts another move of the calibration, or it goes on with the
\* same goal for the same caller.
Result(t, x, l, g, s) ==
    \/ l = "idle" /\ g = 0 /\ s = "client"
    \/ l = "set" /\ g = 0 /\ s = "open_first"
    \/ l = "set" /\ g = MaxPos /\ s = "close"
    \/ l = "set" /\ g = 0 /\ s = "open" /\ pc[t] = "max"
    \/ /\ g = goal[t] /\ s = stage[t]
       /\ \/ l = "pre" /\ pc[t] \in {"set", "pre"}
          \/ l = "obj" /\ pc[t] = "pre" /\ x = goal[t]
          \/ l = "obj" /\ pc[t] = "obj"
          \/ l = "max" /\ pc[t] = "obj" /\ s = "close" /\ x = AT_DEST
          \/ l = "max_inner" /\ pc[t] = "obj" /\ s = "close" /\ x = STOPPED_INNER_OBJECT
          \/ l = "min" /\ pc[t] = "obj" /\ s = "open" /\ x \in {AT_DEST, STOPPED_OUTER_OBJECT}
          \/ l = "slack" /\ pc[t] = "max_inner"
          \/ l \notin {"set", "pre", "convert"} \cup Settled

GoesTo(t, x) ==
    /\ PerThread(pc') /\ PerThread(stage') /\ goal' \in [Threads -> Int]
    /\ \A u \in Threads \ {t} : pc'[u] = pc[u] /\ goal'[u] = goal[u] /\ stage'[u] = stage[u]
    /\ Result(t, x, pc'[t], goal'[t], stage'[t])

LEMMA Updated ==
    ASSUME NEW f, PerThread(f), NEW t \in Threads, NEW v
    PROVE  PerThread([f EXCEPT ![t] = v])
  BY DEF PerThread

LEMMA ToGoes ==
    ASSUME TypeInv, NEW t \in Threads, NEW x, NEW l, To(t, l),
           l # "idle" => Result(t, x, l, goal[t], stage[t])
    PROVE  GoesTo(t, x)
  <1>0. PerThread(pc) /\ PerThread(stage) /\ goal \in [Threads -> Int]
    BY DEF TypeInv
  <1>1. CASE l = "idle"
    <2>1. pc' = [pc EXCEPT ![t] = l] /\ goal' = [goal EXCEPT ![t] = 0] /\ stage' = [stage EXCEPT ![t] = "client"]
      BY <1>1 DEF To
    <2>2. Result(t, x, l, 0, "client")
      BY <1>1 DEF Result
    <2>3. Result(t, x, pc'[t], goal'[t], stage'[t])
      BY <2>1, <2>2 DEF TypeInv, PerThread
    <2>4. PerThread(pc') /\ PerThread(stage')
      BY <1>0, <2>1, Updated
    <2>6. goal' \in [Threads -> Int]
      BY <1>0, <2>1
    <2>5. \A u \in Threads \ {t} : pc'[u] = pc[u] /\ goal'[u] = goal[u] /\ stage'[u] = stage[u]
      BY <1>0, <2>1 DEF PerThread
    <2> QED
      BY <2>3, <2>4, <2>5, <2>6 DEF GoesTo
  <1>2. CASE l # "idle"
    <2>1. pc' = [pc EXCEPT ![t] = l] /\ goal' = goal /\ stage' = stage
      BY <1>2 DEF To
    <2>2. Result(t, x, pc'[t], goal'[t], stage'[t])
      BY <1>2, <2>1 DEF TypeInv, PerThread
    <2> QED
      BY <2>1, <2>2 DEF GoesTo, TypeInv, PerThread
  <1> QED
    BY <1>1, <1>2

LEMMA StartGoes ==
    ASSUME TypeInv, NEW t \in Threads, NEW x, NEW g \in Int, NEW s, StartMove(t, g, s),
           Result(t, x, "set", g, s)
    PROVE  GoesTo(t, x)
  <1>1. Result(t, x, pc'[t], goal'[t], stage'[t])
    BY DEF StartMove, TypeInv, PerThread
  <1> QED
    BY <1>1 DEF StartMove, GoesTo, TypeInv, PerThread

LEMMA MovedGoes ==
    ASSUME TypeInv, NEW t \in Threads, NEW x, pc[t] = "obj", Moved(t, x)
    PROVE  GoesTo(t, x)
  <1>0. MaxPos \in Int
    BY GripperAssumption
  <1>1. CASE stage[t] = "open_first"
    <2>1. StartMove(t, MaxPos, "close") \/ To(t, "idle")
      BY <1>1 DEF Moved
    <2>2. Result(t, x, "set", MaxPos, "close")
      BY DEF Result
    <2> QED
      BY <1>0, <2>1, <2>2, ToGoes, StartGoes
  <1>2. CASE stage[t] = "close"
    <2>1. \/ x = AT_DEST /\ To(t, "max")
          \/ x = STOPPED_INNER_OBJECT /\ To(t, "max_inner")
          \/ To(t, "idle")
      BY <1>2 DEF Moved
    <2>2. x = AT_DEST => Result(t, x, "max", goal[t], stage[t])
      BY <1>2 DEF Result
    <2>3. x = STOPPED_INNER_OBJECT => Result(t, x, "max_inner", goal[t], stage[t])
      BY <1>2 DEF Result
    <2> QED
      BY <2>1, <2>2, <2>3, ToGoes
  <1>3. CASE stage[t] = "open"
    <2>1. \/ x \in {AT_DEST, STOPPED_OUTER_OBJECT} /\ To(t, "min")
          \/ To(t, "idle")
      BY <1>3 DEF Moved
    <2>2. x \in {AT_DEST, STOPPED_OUTER_OBJECT} => Result(t, x, "min", goal[t], stage[t])
      BY <1>3 DEF Result
    <2> QED
      BY <2>1, <2>2, ToGoes
  <1>4. CASE stage[t] \notin {"open_first", "close", "open"}
    BY <1>4, ToGoes DEF Moved
  <1> QED
    BY <1>1, <1>2, <1>3, <1>4

\* activate and emergencyRelease.
LEMMA ElsewhereGoes ==
    ASSUME TypeInv, NEW t \in Threads, NEW x, AfterRelease(t, x) \/ AfterActivation(t, x)
    PROVE  GoesTo(t, x)
  <1> DEFINE Elsewhere == {"dump", "reset", "again", "reset_atr", "reset_act", "reset_sta", "act_act0",
                           "act_sta0", "act_set", "act_act1", "act_sta3", "rel_ard", "rel_act",
                           "rel_atr1", "rel_begun", "rel_done", "rel_finished", "idle"}
  <1>1. \A l \in Elsewhere : Result(t, x, l, goal[t], stage[t])
    BY DEF Result, Settled, Calibrating
  <1>2. Result(t, x, "set", 0, "open_first")
    BY DEF Result
  <1>3. Activated(t) => StartMove(t, 0, "open_first") \/ To(t, "dump")
    BY DEF Activated
  <1>4. AfterRelease(t, x) => \E l \in Elsewhere : To(t, l)
    BY DEF AfterRelease
  <1>5. AfterActivation(t, x) => Activated(t) \/ \E l \in Elsewhere : To(t, l)
    BY DEF AfterActivation
  <1>6. Activated(t) => GoesTo(t, x)
    BY <1>1, <1>2, <1>3, ToGoes, StartGoes
  <1>7. ASSUME NEW l \in Elsewhere, To(t, l) PROVE GoesTo(t, x)
    BY <1>1, <1>7, ToGoes
  <1> QED
    BY <1>4, <1>5, <1>6, <1>7

LEMMA AnsweredGoes ==
    ASSUME TypeInv, NEW t \in Threads, NEW x, Answered(t, x)
    PROVE  GoesTo(t, x)
  <1> USE TypeInv
  <1>1. ASSUME pc[t] = "set", To(t, "pre") PROVE GoesTo(t, x)
    <2>1. Result(t, x, "pre", goal[t], stage[t])
      BY <1>1 DEF Result
    <2> QED
      BY <1>1, <2>1, ToGoes
  <1>2. ASSUME pc[t] = "pre", AfterPre(t, x) PROVE GoesTo(t, x)
    <2>1. Result(t, x, "pre", goal[t], stage[t]) /\ (x = goal[t] => Result(t, x, "obj", goal[t], stage[t]))
      BY <1>2 DEF Result
    <2>2. CASE x = goal[t] /\ To(t, "obj")
      BY <2>1, <2>2, ToGoes
    <2>3. CASE To(t, "pre")
      BY <2>1, <2>3, ToGoes
    <2> QED
      BY <1>2, <2>2, <2>3 DEF AfterPre
  <1>3. ASSUME pc[t] = "obj", AfterObj(t, x) PROVE GoesTo(t, x)
    <2>1. Result(t, x, "obj", goal[t], stage[t])
      BY <1>3 DEF Result
    <2>2. CASE To(t, "obj")
      BY <2>1, <2>2, ToGoes
    <2>3. CASE Moved(t, x)
      BY <1>3, <2>3, MovedGoes
    <2> QED
      BY <1>3, <2>2, <2>3 DEF AfterObj
  <1>4. ASSUME pc[t] = "max", StartMove(t, 0, "open") PROVE GoesTo(t, x)
    <2>1. Result(t, x, "set", 0, "open")
      BY <1>4 DEF Result
    <2> QED
      BY <1>4, <2>1, StartGoes
  <1>8. ASSUME pc[t] = "max_inner", To(t, "slack") PROVE GoesTo(t, x)
    <2>1. Result(t, x, "slack", goal[t], stage[t])
      BY <1>8 DEF Result
    <2> QED
      BY <1>8, <2>1, ToGoes
  <1>5. ASSUME To(t, "dump") PROVE GoesTo(t, x)
    <2>1. Result(t, x, "dump", goal[t], stage[t])
      BY DEF Result, Settled, Calibrating
    <2> QED
      BY <1>5, <2>1, ToGoes
  <1>6. ASSUME To(t, "idle") PROVE GoesTo(t, x)
    BY <1>6, ToGoes
  <1>7. ASSUME AfterRelease(t, x) \/ AfterActivation(t, x) PROVE GoesTo(t, x)
    BY <1>7, ElsewhereGoes
  <1> QED
    BY <1>1, <1>2, <1>3, <1>4, <1>5, <1>6, <1>7, <1>8 DEF Answered
-----------------------------------------------------------------------------
(* The steps *)

LEMMA InitGripper == Init => GripperInv
  <1> SUFFICES ASSUME Init PROVE GripperInv
    OBVIOUS
  <1>0. MaxPos \in Nat /\ MaxPos >= 1
    BY GripperAssumption
  <1>1. /\ pc = [t \in Threads |-> "idle"] /\ goal = [t \in Threads |-> 0]
        /\ fPosition = [t \in Threads |-> 0]
        /\ stage = [t \in Threads |-> "client"] /\ waiting = {} /\ mutex = {} /\ answers = <<>>
        /\ min_position = 0 /\ max_position = MaxPos /\ closedAt = 0
    BY DEF Init
  <1>2. alone = [t \in Threads |-> TRUE] /\ cut = FALSE
    BY DEF Init
  <1>4. /\ dev \in [Fields -> Int] /\ dev["POS"] = 0 /\ dev["PRE"] = 0
        /\ dev["OBJ"] = AT_DEST
    <2> PICK active \in {0, 1} :
           dev = [ACT |-> active, STA |-> 3 * active, ATR |-> 0, ARD |-> 0, REQ |-> 0,
                  POS |-> 0, PRE |-> 0, OBJ |-> AT_DEST, FLT |-> NO_FAULT]
      BY DEF Init
    <2> QED
      BY DEF Fields, AT_DEST, NO_FAULT
  <1>5. PerThread(pc) /\ PerThread(stage) /\ goal \in [Threads -> Int] /\ fPosition \in [Threads -> Int]
    BY <1>1 DEF PerThread
  <1>6. alone \in [Threads -> BOOLEAN] /\ cut \in BOOLEAN
    BY <1>2
  <1>7. TypeInv
    BY <1>0, <1>1, <1>4, <1>5, <1>6 DEF TypeInv
  <1>8. GoalInv /\ OwnInv
    BY <1>1 DEF GoalInv, Undisturbed, OwnInv
  <1>9. DeviceInv
    BY <1>0, <1>1, <1>4 DEF DeviceInv
  <1>10. MotionInv
    BY <1>1 DEF MotionInv, Following, Calibration, Settled, Calibrating
  <1>11. RangeInv
    BY <1>0, <1>1 DEF RangeInv
  <1> QED
    BY <1>7, <1>8, <1>9, <1>10, <1>11 DEF GripperInv

\* The functions of the client: the thread is idle and waits for nothing.
LEMMA BeginStep ==
    ASSUME GripperInv, NEW t \in Threads, NEW l, NEW h \in Int, NEW m, NEW s,
           Begin(t, l, h, m, s),
           l \notin {"idle", "set", "pre"} \cup Settled,
           s \notin {"open_first", "open", "close"},
           s = "open()" => l = "convert" /\ h = FromDevice(0),
           s = "close()" => l = "convert" /\ h = FromDevice(MaxPos)
    PROVE  GripperInv'
  <1>1. /\ pc' = [pc EXCEPT ![t] = l] /\ fPosition' = [fPosition EXCEPT ![t] = h]
        /\ stage' = [stage EXCEPT ![t] = s] /\ pc[t] = "idle"
    BY DEF Begin
  <1>2. alone' = [alone EXCEPT ![t] = TRUE]
    BY DEF Begin
  <1>3. UNCHANGED <<dev, closedAt, answers, mutex, goal, waiting, min_position, max_position, unit>>
    BY DEF Begin, device, object
  <1>4. UNCHANGED cut
    BY DEF Begin
  <1>5. /\ PerThread(pc) /\ PerThread(stage) /\ goal \in [Threads -> Int]
        /\ fPosition \in [Threads -> Int] /\ t \notin waiting
    BY <1>1 DEF GripperInv, TypeInv, Local
  <1>6. PerThread(pc') /\ PerThread(stage')
    BY <1>1, <1>5, Updated
  <1>7. /\ fPosition' \in [Threads -> Int] /\ pc'[t] = l /\ fPosition'[t] = h /\ stage'[t] = s
        /\ \A u \in Threads \ {t} : /\ pc'[u] = pc[u] /\ fPosition'[u] = fPosition[u]
                                    /\ stage'[u] = stage[u]
    BY <1>1, <1>5 DEF PerThread
  <1>8. alone' \in [Threads -> BOOLEAN] /\ \A u \in Threads \ {t} : alone'[u] = alone[u]
    BY <1>2 DEF GripperInv, TypeInv
  <1>9. cut' \in BOOLEAN
    BY <1>4 DEF GripperInv, TypeInv
  <1>10. \A u \in waiting' : pc'[u] \notin Local
    BY <1>3, <1>5, <1>7 DEF GripperInv, TypeInv
  <1>11. TypeInv'
    BY <1>3, <1>6, <1>7, <1>8, <1>9, <1>10 DEF GripperInv, TypeInv
  <1>12. GoalInv'
    <2>1. ASSUME NEW u \in Threads, u # t
          PROVE  /\ stage'[u] \in {"open_first", "open"} => goal'[u] = 0
                 /\ stage'[u] = "close" => goal'[u] = MaxPos
                 /\ pc'[u] = "convert" => stage'[u] \notin {"open_first", "open", "close"}
      BY <1>3, <1>7, <2>1 DEF GripperInv, GoalInv
    <2>2. ASSUME NEW u \in Threads, u # t, alone'[u] PROVE Undisturbed(u)'
      <3>1. Undisturbed(u)
        BY <1>8, <2>2 DEF GripperInv, GoalInv
      <3> QED
        BY <1>3, <1>7, <2>2, <3>1 DEF Undisturbed, FromDevice
    <2>3. Undisturbed(t)'
      BY <1>3, <1>7 DEF Undisturbed, FromDevice
    <2>4. stage'[t] \notin {"open_first", "open", "close"}
      BY <1>7
    <2> QED
      BY <2>1, <2>2, <2>3, <2>4 DEF GoalInv
  <1>13. OwnInv' /\ RangeInv'
    BY <1>3, <1>4 DEF GripperInv, OwnInv, RangeInv
  <1>14. DeviceInv'
    BY <1>3 DEF GripperInv, DeviceInv
  <1>15. ASSUME NEW u \in Threads, alone'[u], ~ cut' PROVE Following(u)' /\ Calibration(u)'
    <2>1. CASE u = t
      BY <2>1, <1>3, <1>5, <1>7 DEF Following, Calibration, Settled, Calibrating
    <2>2. CASE u # t
      <3>1. alone[u] /\ ~ cut
        BY <1>15, <2>2, <1>8, <1>4
      <3>2. Following(u) /\ Calibration(u)
        BY <3>1 DEF GripperInv, MotionInv
      <3> QED
        BY <2>2, <3>2, <1>3, <1>7 DEF Following, Calibration
    <2> QED
      BY <2>1, <2>2
  <1>16. MotionInv'
    BY <1>15 DEF MotionInv
  <1> QED
    BY <1>11, <1>12, <1>13, <1>14, <1>16 DEF GripperInv

LEMMA CallStep ==
    ASSUME GripperInv, NEW t \in Threads, Call(t)
    PROVE  GripperInv'
  <1>0. MaxPos \in Int /\ max_position \in Int
    BY GripperAssumption DEF GripperInv, TypeInv
  <1>1. \A l \in {"convert", "active", "rel_atr0", "getvars", "isopen"} :
            l \notin {"idle", "set", "pre"} \cup Settled
    BY DEF Settled, Calibrating
  <1>2. CASE Move(t)
    <2>1. \A h \in {-1, 1, 2 * MaxPos + 1} : h \in Int
      BY <1>0
    <2> QED
      BY <1>1, <1>2, <2>1, BeginStep DEF Move
  <1>3. CASE Open(t)
    <2>1. FromDevice(0) \in Int
      BY <1>0 DEF FromDevice
    <2> QED
      BY <1>1, <1>3, <2>1, BeginStep DEF Open
  <1>4. CASE Close(t)
    <2>1. FromDevice(MaxPos) \in Int
      BY <1>0 DEF FromDevice
    <2> QED
      BY <1>1, <1>4, <2>1, BeginStep DEF Close
  <1>5. CASE Activate(t)
    BY <1>1, <1>5, BeginStep DEF Activate
  <1>6. CASE EmergencyRelease(t)
    BY <1>1, <1>6, BeginStep DEF EmergencyRelease
  <1>7. CASE GetVars(t) \/ IsOpen(t)
    BY <1>1, <1>7, BeginStep DEF GetVars, IsOpen
  <1> QED
    BY <1>2, <1>3, <1>4, <1>5, <1>6, <1>7 DEF Call

\* What is converted there and back with one range is what it was.
LEMMA ThereAndBack ==
    ASSUME NEW x \in 0..MaxPos, max_position \in Int
    PROVE  Clamp(ToDevice(FromDevice(x)), 0, MaxPos) = x
  <1>0. MaxPos \in Nat
    BY GripperAssumption
  <1>1. ASSUME NEW k \in Int PROVE Round(2 * k) = k /\ Truncate(2 * k) = k
    BY DEF Round, Truncate
  <1>2. ToDevice(FromDevice(x)) = x
    <2>1. CASE unit = "UNIT_DEVICE"
      BY <1>0, <1>1, <2>1 DEF ToDevice, FromDevice
    <2>2. CASE unit # "UNIT_DEVICE"
      <3>1. Round(2 * (max_position - x)) = max_position - x
        BY <1>0, <1>1
      <3>2. ToDevice(FromDevice(x)) = max_position - Round(2 * (max_position - x))
        BY <2>2 DEF ToDevice, FromDevice
      <3> QED
        BY <1>0, <3>1, <3>2
    <2> QED
      BY <2>1, <2>2
  <1> QED
    BY <1>0, <1>2 DEF Clamp

LEMMA ConvertStep ==
    ASSUME GripperInv, NEW t \in Threads, Convert(t)
    PROVE  GripperInv'
  <1> DEFINE g == Clamp(ToDevice(fPosition[t]), 0, MaxPos)
  <1>0. MaxPos \in Nat /\ TypeInv
    BY GripperAssumption DEF GripperInv
  <1>1. /\ pc' = [pc EXCEPT ![t] = "set"] /\ fPosition' = [fPosition EXCEPT ![t] = 0]
        /\ goal' = [goal EXCEPT ![t] = g] /\ pc[t] = "convert"
    BY DEF Convert
  <1>2. /\ UNCHANGED <<dev, closedAt, answers, mutex, waiting, stage, min_position, max_position, unit>>
        /\ alone' = alone /\ cut' = cut
    BY DEF Convert, device, object
  <1>3. g \in Int
    <2>1. fPosition[t] \in Int /\ max_position \in Int
      BY <1>0 DEF TypeInv
    <2>2. Round(fPosition[t]) \in Int /\ Truncate(fPosition[t]) \in Int
      BY <2>1 DEF Round, Truncate
    <2> QED
      BY <1>0, <2>1, <2>2 DEF Clamp, ToDevice
  <1>4. alone[t] => (stage[t] = "open()" => g = 0) /\ (stage[t] = "close()" => g = MaxPos)
    <2> SUFFICES ASSUME alone[t]
                 PROVE  (stage[t] = "open()" => g = 0) /\ (stage[t] = "close()" => g = MaxPos)
      OBVIOUS
    <2>1. Undisturbed(t) /\ max_position \in Int /\ 0 \in 0..MaxPos /\ MaxPos \in 0..MaxPos
      BY <1>0 DEF GripperInv, GoalInv, TypeInv
    <2> QED
      BY <1>1, <2>1, ThereAndBack DEF Undisturbed
  <1> HIDE DEF g
  <1>10. PerThread(pc') /\ PerThread(stage') /\ t \notin waiting
    BY <1>0, <1>1, <1>2, Updated DEF TypeInv, Local
  <1>5. /\ goal' \in [Threads -> Int] /\ fPosition' \in [Threads -> Int]
        /\ pc'[t] = "set" /\ goal'[t] = g
        /\ \A u \in Threads \ {t} : /\ pc'[u] = pc[u] /\ fPosition'[u] = fPosition[u]
                                    /\ goal'[u] = goal[u]
    BY <1>0, <1>1, <1>3 DEF TypeInv, PerThread
  <1>6. TypeInv'
    <2>1. alone' \in [Threads -> BOOLEAN] /\ cut' \in BOOLEAN
      BY <1>0, <1>2 DEF TypeInv
    <2>2. \A u \in waiting' : pc'[u] \notin Local
      BY <1>0, <1>2, <1>5, <1>10 DEF TypeInv
    <2> QED
      BY <1>0, <1>2, <1>5, <1>10, <2>1, <2>2 DEF TypeInv
  <1>7. GoalInv'
    <2>1. ASSUME NEW u \in Threads
          PROVE  /\ stage'[u] \in {"open_first", "open"} => goal'[u] = 0
                 /\ stage'[u] = "close" => goal'[u] = MaxPos
                 /\ pc'[u] = "convert" => stage'[u] \notin {"open_first", "open", "close"}
      BY <1>1, <1>2, <1>5 DEF GripperInv, GoalInv
    <2>2. ASSUME NEW u \in Threads, alone'[u] PROVE Undisturbed(u)'
      <3>1. alone[u] /\ Undisturbed(u)
        BY <1>2, <2>2 DEF GripperInv, GoalInv
      <3>2. CASE u = t
        BY <1>2, <1>4, <1>5, <3>1, <3>2 DEF Undisturbed
      <3>3. CASE u # t
        BY <1>2, <1>5, <3>1, <3>3 DEF Undisturbed, FromDevice
      <3> QED
        BY <3>2, <3>3
    <2> QED
      BY <2>1, <2>2 DEF GoalInv
  <1>8. OwnInv' /\ RangeInv' /\ DeviceInv'
    BY <1>2 DEF GripperInv, OwnInv, RangeInv, DeviceInv
  <1>9. ASSUME NEW u \in Threads, alone'[u], ~ cut' PROVE Following(u)' /\ Calibration(u)'
    <2>1. Following(u) /\ Calibration(u)
      BY <1>2, <1>9 DEF GripperInv, MotionInv
    <2>2. CASE u = t
      BY <1>2, <1>5, <1>10, <2>1, <2>2 DEF Following, Calibration, Settled, Calibrating
    <2>3. CASE u # t
      BY <1>2, <1>5, <2>1, <2>3 DEF Following, Calibration
    <2> QED
      BY <2>2, <2>3
  <1> QED
    BY <1>6, <1>7, <1>8, <1>9 DEF GripperInv, MotionInv

\* A change of the device that a thread may miss: nothing that a status has
\* promised, the position taken over, or the end of a motion.
LEMMA DeviceStep ==
    ASSUME GripperInv, NEW d \in [Fields -> Int], Device(d), d["REQ"] = dev["REQ"],
           d["POS"] >= 0, d["POS"] <= MaxPos, d["OBJ"] = AT_DEST => d["POS"] = d["PRE"],
           \/ d["PRE"] = dev["PRE"] /\ d["POS"] = dev["POS"] /\ d["OBJ"] = dev["OBJ"]
           \/ dev["PRE"] # dev["REQ"] /\ d["PRE"] = dev["REQ"] /\ d["POS"] = dev["POS"]
           \/ dev["OBJ"] = MOVING /\ d["PRE"] = dev["PRE"]
    PROVE  GripperInv'
  <1>0. MaxPos \in Nat /\ MaxPos >= 1
    BY GripperAssumption
  <1>1. dev' = d /\ closedAt' = IF d["PRE"] = MaxPos /\ d["OBJ"] # MOVING THEN d["POS"] ELSE closedAt
    BY DEF Device
  <1>2. UNCHANGED <<answers, mutex, pc, goal, fPosition, stage, waiting, min_position, max_position, unit>>
    BY DEF Device, object
  <1>3. alone' = alone /\ cut' = cut
    BY DEF Device
  <1>4. TypeInv'
    <2>1. alone' \in [Threads -> BOOLEAN] /\ cut' \in BOOLEAN
      BY <1>3 DEF GripperInv, TypeInv
    <2>2. closedAt' \in Int
      BY <1>1 DEF GripperInv, TypeInv, Fields
    <2> QED
      BY <1>1, <1>2, <2>1, <2>2 DEF GripperInv, TypeInv
  <1>5. GoalInv'
    <2>1. \A t \in Threads : Undisturbed(t) => Undisturbed(t)'
      BY <1>2 DEF Undisturbed, FromDevice
    <2> QED
      BY <1>2, <1>3, <2>1 DEF GripperInv, GoalInv
  <1>6. OwnInv' /\ RangeInv' /\ DeviceInv'
    BY <1>1, <1>2, <1>3 DEF GripperInv, OwnInv, RangeInv, DeviceInv
  <1>7. ASSUME NEW t \in Threads, alone'[t], ~ cut' PROVE Following(t)' /\ Calibration(t)'
    <2>1. Following(t) /\ Calibration(t)
      BY <1>3, <1>7 DEF GripperInv, MotionInv
    <2>2. CASE d["PRE"] = dev["PRE"] /\ d["POS"] = dev["POS"] /\ d["OBJ"] = dev["OBJ"]
      <3>1. closedAt' = closedAt
        BY <1>1, <2>2 DEF GripperInv, DeviceInv
      <3> QED
        BY <1>1, <1>2, <2>1, <2>2, <3>1 DEF Following, Calibration
    <2>3. CASE dev["PRE"] # dev["REQ"] /\ d["PRE"] = dev["REQ"] /\ d["POS"] = dev["POS"]
      <3>1. pc[t] \notin Settled
        BY <2>1, <2>3 DEF Following
      <3>2. Following(t)'
        BY <1>1, <1>2, <2>1, <2>3, <3>1 DEF Following, Settled, Calibrating
      <3>3. stage[t] = "open" => d["PRE"] = 0 /\ d["REQ"] = 0 /\ closedAt' = closedAt
        BY <1>0, <1>1, <2>1, <2>3 DEF Calibration
      <3>4. Calibration(t)'
        BY <1>1, <1>2, <2>1, <3>1, <3>3 DEF Calibration, Settled, Calibrating
      <3> QED
        BY <3>2, <3>4
    <2>4. CASE dev["OBJ"] = MOVING /\ d["PRE"] = dev["PRE"]
      <3>1. Following(t)'
        BY <1>1, <1>2, <2>1, <2>4 DEF Following, MOVING
      <3>2. pc[t] \notin Calibrating \cup {"slack"}
        BY <2>1, <2>4 DEF Calibration, Calibrating, MOVING, AT_DEST, STOPPED_INNER_OBJECT
      <3>3. stage[t] = "open" => d["PRE"] = 0 /\ closedAt' = closedAt
        BY <1>0, <1>1, <2>1, <2>4 DEF Calibration
      <3>4. Calibration(t)'
        BY <1>1, <1>2, <2>1, <2>4, <3>2, <3>3 DEF Calibration, Calibrating
      <3> QED
        BY <3>1, <3>4
    <2> QED
      BY <2>2, <2>3, <2>4
  <1>8. MotionInv'
    BY <1>7 DEF MotionInv
  <1> QED
    BY <1>4, <1>5, <1>6, <1>8 DEF GripperInv

LEMMA DeviceSteps ==
    ASSUME GripperInv,
           DeviceActivates \/ DeviceTakesOver \/ DeviceArrives \/ DeviceReleases
    PROVE  GripperInv'
  <1>0. dev \in [Fields -> Int] /\ MaxPos \in Nat
    BY GripperAssumption DEF GripperInv, TypeInv
  <1>1. ASSUME NEW d \in [Fields -> Int], Device(d), d["REQ"] = dev["REQ"], d["PRE"] = dev["PRE"],
               d["POS"] = dev["POS"], d["OBJ"] = dev["OBJ"]
        PROVE  GripperInv'
    <2>1. d["POS"] >= 0 /\ d["POS"] <= MaxPos /\ (d["OBJ"] = AT_DEST => d["POS"] = d["PRE"])
      BY <1>1 DEF GripperInv, DeviceInv
    <2> QED
      BY <1>1, <2>1, DeviceStep
  <1>2. CASE DeviceActivates \/ DeviceReleases
    <2>1. ASSUME NEW w \in Int, NEW v \in Int, Device([dev EXCEPT !.STA = w, !.FLT = v]) PROVE GripperInv'
      <3> DEFINE d == [dev EXCEPT !.STA = w, !.FLT = v]
      <3>1. /\ d \in [Fields -> Int] /\ d["REQ"] = dev["REQ"] /\ d["PRE"] = dev["PRE"]
            /\ d["POS"] = dev["POS"] /\ d["OBJ"] = dev["OBJ"]
        BY <1>0 DEF Fields
      <3>2. Device(d)
        BY <2>1
      <3> HIDE DEF d
      <3> QED
        BY <1>1, <3>1, <3>2
    <2>2. ASSUME NEW v \in Int, Device([dev EXCEPT !.STA = v]) PROVE GripperInv'
      <3> DEFINE d == [dev EXCEPT !.STA = v]
      <3>1. /\ d \in [Fields -> Int] /\ d["REQ"] = dev["REQ"] /\ d["PRE"] = dev["PRE"]
            /\ d["POS"] = dev["POS"] /\ d["OBJ"] = dev["OBJ"]
        BY <1>0 DEF Fields
      <3>2. Device(d)
        BY <2>2
      <3> HIDE DEF d
      <3> QED
        BY <1>1, <3>1, <3>2
    <2>3. ASSUME NEW v \in Int, Device([dev EXCEPT !.FLT = v]) PROVE GripperInv'
      <3> DEFINE d == [dev EXCEPT !.FLT = v]
      <3>1. /\ d \in [Fields -> Int] /\ d["REQ"] = dev["REQ"] /\ d["PRE"] = dev["PRE"]
            /\ d["POS"] = dev["POS"] /\ d["OBJ"] = dev["OBJ"]
        BY <1>0 DEF Fields
      <3>2. Device(d)
        BY <2>3
      <3> HIDE DEF d
      <3> QED
        BY <1>1, <3>1, <3>2
    <2>4. NO_FAULT \in Int /\ EMCY_RELEASE_ACTIVE \in Int /\ EMCY_RELEASE_FINISHED \in Int
      BY DEF NO_FAULT, EMCY_RELEASE_ACTIVE, EMCY_RELEASE_FINISHED
    <2>5. CASE Device([dev EXCEPT !.STA = 0, !.FLT = NO_FAULT])
      <3>1. PICK w \in Int, v \in Int : w = 0 /\ v = NO_FAULT
        BY <2>4
      <3>2. Device([dev EXCEPT !.STA = w, !.FLT = v])
        BY <2>5, <3>1, Zenon
      <3> QED
        BY <2>1, <3>2, Zenon
    <2>6. CASE Device([dev EXCEPT !.STA = 1]) \/ Device([dev EXCEPT !.STA = 3])
      BY <2>2, <2>6
    <2>7. CASE \/ Device([dev EXCEPT !.FLT = EMCY_RELEASE_ACTIVE])
               \/ Device([dev EXCEPT !.FLT = EMCY_RELEASE_FINISHED])
      BY <2>3, <2>4, <2>7
    <2> QED
      BY <1>2, <2>5, <2>6, <2>7 DEF DeviceActivates, DeviceReleases
  <1>3. CASE DeviceTakesOver
    <2> DEFINE status == IF dev.POS = dev.REQ THEN AT_DEST ELSE MOVING
               d == [dev EXCEPT !.PRE = dev.REQ, !.OBJ = status]
    <2>1. Device(d) /\ dev["PRE"] # dev["REQ"]
      BY <1>3 DEF DeviceTakesOver
    <2>2. /\ d \in [Fields -> Int] /\ d["REQ"] = dev["REQ"] /\ d["PRE"] = dev["REQ"]
          /\ d["POS"] = dev["POS"]
          /\ d["OBJ"] = status
      <3>1. dev.REQ \in Int /\ status \in Int
        BY <1>0 DEF AT_DEST, MOVING, Fields
      <3> HIDE DEF status
      <3> QED
        BY <1>0, <3>1 DEF Fields
    <2> HIDE DEF d
    <2>4. d["POS"] >= 0 /\ d["POS"] <= MaxPos /\ (d["OBJ"] = AT_DEST => d["POS"] = d["PRE"])
      BY <2>2 DEF GripperInv, DeviceInv, AT_DEST, MOVING
    <2> QED
      BY <2>1, <2>2, <2>4, DeviceStep
  <1>4. CASE DeviceArrives
    <2>0. PICK end \in Positions :
             Device([dev EXCEPT !.POS = end,
                                !.OBJ = IF end = dev.PRE THEN AT_DEST
                                        ELSE IF dev.PRE > end THEN STOPPED_INNER_OBJECT
                                        ELSE STOPPED_OUTER_OBJECT])
      BY <1>4, Zenon DEF DeviceArrives
    <2> DEFINE status == IF end = dev.PRE THEN AT_DEST
                         ELSE IF dev.PRE > end THEN STOPPED_INNER_OBJECT ELSE STOPPED_OUTER_OBJECT
               d == [dev EXCEPT !.POS = end, !.OBJ = status]
    <2>1. Device(d) /\ dev["OBJ"] = MOVING
      <3>1. Device(d)
        BY <2>0, Zenon
      <3>2. dev["OBJ"] = MOVING
        BY <1>4, Zenon DEF DeviceArrives
      <3> QED
        BY <3>1, <3>2
    <2>2. /\ end \in Int /\ end >= 0 /\ end <= MaxPos /\ status \in Int
          /\ status = AT_DEST => end = dev["PRE"]
      BY <1>0 DEF Positions, AT_DEST, STOPPED_INNER_OBJECT, STOPPED_OUTER_OBJECT
    <2> HIDE DEF status
    <2>3. /\ d \in [Fields -> Int] /\ d["REQ"] = dev["REQ"] /\ d["PRE"] = dev["PRE"]
          /\ d["POS"] = end /\ d["OBJ"] = status
      BY <1>0, <2>2 DEF Fields
    <2> HIDE DEF d
    <2> QED
      BY <2>1, <2>2, <2>3, DeviceStep
  <1> QED
    BY <1>2, <1>3, <1>4
\* What a thread asks of the device: only move_impl sets the position, and nothing
\* sets what the device reports of its motion.
Asked(t, r) ==
    /\ r.op \in {"GET", "SET"} /\ r.value \in Int
    /\ \E n \in {1, 2} : r.vars \in [1..n -> Fields]
    /\ pc[t] = "set" => r.op = "SET" /\ r.vars[1] = "POS" /\ r.value = goal[t]
    /\ (r.op = "SET" /\ pc[t] # "set") => r.vars[1] \in {"ACT", "ATR", "ARD"}
    /\ pc[t] = "pre" => r.op = "GET" /\ r.vars[1] = "PRE"
    /\ pc[t] = "obj" => r.op = "GET" /\ r.vars[1] = "OBJ"
    /\ pc[t] \in Calibrating => r.op = "GET" /\ r.vars[1] = "POS"

LEMMA RequestAsked ==
    ASSUME TypeInv, NEW t \in Threads
    PROVE  Asked(t, Request(t))
  <1>0. goal[t] \in Int
    BY DEF TypeInv
  <1>1. ASSUME NEW v \in Fields, NEW r, r = Get(v),
               pc[t] \notin {"set", "pre", "obj"} \cup Calibrating
        PROVE  Asked(t, r)
    BY <1>1 DEF Asked, Get
  <1>2. ASSUME NEW v \in {"ACT", "ATR", "ARD"}, NEW x \in Int, NEW r, r = Set(v, x),
               pc[t] \notin {"set", "pre", "obj"} \cup Calibrating
        PROVE  Asked(t, r)
    BY <1>2 DEF Asked, Set, Fields
  <1>3. CASE pc[t] \in {"set", "pre", "obj"} \cup Calibrating
    <2>1. /\ pc[t] = "set" => Request(t) = Set("POS", goal[t])
          /\ pc[t] = "pre" => Request(t) = Get("PRE")
          /\ pc[t] = "obj" => Request(t) = Get("OBJ")
          /\ pc[t] \in Calibrating => Request(t) = Get("POS")
      BY DEF Request, Calibrating
    <2>2. CASE pc[t] = "set"
      BY <1>0, <2>1, <2>2 DEF Asked, Set, Fields, Calibrating
    <2>3. CASE pc[t] = "pre"
      BY <2>1, <2>3 DEF Asked, Get, Fields, Calibrating
    <2>4. CASE pc[t] = "obj"
      BY <2>1, <2>4 DEF Asked, Get, Fields, Calibrating
    <2>5. CASE pc[t] \in Calibrating
      BY <2>1, <2>5 DEF Asked, Get, Fields, Calibrating
    <2> QED
      BY <1>3, <2>2, <2>3, <2>4, <2>5
  <1>4. CASE pc[t] \notin {"set", "pre", "obj"} \cup Calibrating
    <2>1. \/ \E v \in {"POS", "STA", "ACT", "FLT"} : Request(t) = Get(v)
          \/ \E v \in {"ACT", "ATR", "ARD"}, x \in {0, 1} : Request(t) = Set(v, x)
          \/ Request(t) = [op |-> "GET", vars |-> <<"STA", "OBJ">>, value |-> 0]
      BY <1>4, ZenonT(60) DEF Request, Calibrating
    <2>2. CASE \E v \in {"POS", "STA", "ACT", "FLT"} : Request(t) = Get(v)
      BY <1>1, <1>4, <2>2 DEF Fields
    <2>3. CASE \E v \in {"ACT", "ATR", "ARD"}, x \in {0, 1} : Request(t) = Set(v, x)
      BY <1>0, <1>2, <1>4, <2>3
    <2>4. CASE Request(t) = [op |-> "GET", vars |-> <<"STA", "OBJ">>, value |-> 0]
      <3>1. <<"STA", "OBJ">> \in [1..2 -> Fields]
        BY DEF Fields
      <3> QED
        BY <1>4, <2>4, <3>1 DEF Asked
    <2> QED
      BY <2>1, <2>2, <2>3, <2>4
  <1> QED
    BY <1>3, <1>4
\* The answers of the device to r.
Reply(t, r) ==
    [i \in DOMAIN r.vars |-> [of |-> t, op |-> r.op, var |-> r.vars[i],
                              value |-> IF r.op = "GET" THEN dev[r.vars[i]] ELSE 0]]

LEMMA Replied ==
    ASSUME TypeInv, NEW t \in Threads, NEW r, Asked(t, r)
    PROVE  /\ Reply(t, r) \in Seq(Answers) /\ Reply(t, r) # <<>>
           /\ \A i \in 1..Len(Reply(t, r)) : Reply(t, r)[i].of = t
           /\ Reply(t, r)[1].op = r.op /\ Reply(t, r)[1].var = r.vars[1]
           /\ r.op = "GET" => Reply(t, r)[1].value = dev[r.vars[1]]
           /\ \A i \in 1..Len(Reply(t, r)) :
                (Reply(t, r)[i].op = "GET" /\ Reply(t, r)[i].var = "POS") =>
                    Reply(t, r)[i].value = dev["POS"]
  <1> PICK n \in {1, 2} : r.vars \in [1..n -> Fields]
    BY DEF Asked
  <1> DEFINE A(i) == [of |-> t, op |-> r.op, var |-> r.vars[i],
                      value |-> IF r.op = "GET" THEN dev[r.vars[i]] ELSE 0]
  <1>1. Reply(t, r) = [i \in 1..n |-> A(i)]
    BY DEF Reply
  <1>2. \A i \in 1..n : A(i) \in Answers
    <2> TAKE i \in 1..n
    <2>1. r.vars[i] \in Fields /\ r.op \in {"GET", "SET"}
      BY DEF Asked
    <2>2. (IF r.op = "GET" THEN dev[r.vars[i]] ELSE 0) \in Int
      BY <2>1 DEF TypeInv
    <2> QED
      BY <2>1, <2>2 DEF Answers
  <1>3. \A i \in 1..n :
            /\ A(i).of = t /\ A(i).op = r.op /\ A(i).var = r.vars[i]
            /\ r.op = "GET" => A(i).value = dev[r.vars[i]]
            /\ (A(i).op = "GET" /\ A(i).var = "POS") => A(i).value = dev["POS"]
    OBVIOUS
  <1> HIDE DEF A
  <1>4. Reply(t, r) \in Seq(Answers) /\ Len(Reply(t, r)) = n
    BY <1>1, <1>2
  <1>5. 1 \in 1..n /\ Reply(t, r) # <<>> /\ \A i \in 1..n : Reply(t, r)[i] = A(i)
    BY <1>1, <1>4
  <1> QED
    BY <1>3, <1>4, <1>5

LEMMA SendStep ==
    ASSUME GripperInv, NEW t \in Threads, Send(t)
    PROVE  GripperInv'
  <1> DEFINE r == Request(t)
             f == IF r.vars[1] = "POS" THEN "REQ" ELSE r.vars[1]
  <1>0. MaxPos \in Nat /\ MaxPos >= 1
    BY GripperAssumption
  <1>1. Asked(t, r) /\ TypeInv
    BY RequestAsked DEF GripperInv
  <1>2. /\ mutex = {} /\ mutex' = {t} /\ waiting' = waiting \cup {t} /\ pc[t] \notin Local
        /\ answers' = answers \o Reply(t, r)
        /\ dev' = IF r.op = "GET" THEN dev ELSE [dev EXCEPT ![f] = r.value]
    BY DEF Send, Exchange, Reply
  <1>3. alone' = [u \in Threads |-> alone[u] /\ (r.op = "GET" \/ u = t)]
    BY DEF Send, Exchange
  <1>4. UNCHANGED <<closedAt, pc, goal, fPosition, stage, min_position, max_position, unit>>
    BY DEF Send, Exchange, object
  <1>5. UNCHANGED cut
    BY DEF Send, Exchange
  <1> HIDE DEF r
  <1>6. waiting = {} /\ waiting' = {t}
    BY <1>1, <1>2 DEF TypeInv
  <1>7. /\ dev' \in [Fields -> Int]
        /\ dev'["POS"] = dev["POS"] /\ dev'["PRE"] = dev["PRE"] /\ dev'["OBJ"] = dev["OBJ"]
        /\ dev'["REQ"] = IF pc[t] = "set" THEN goal[t] ELSE dev["REQ"]
    <2>0. dev \in [Fields -> Int] /\ r.value \in Int
      BY <1>1 DEF TypeInv, Asked
    <2>1. CASE r.op = "GET"
      BY <1>1, <1>2, <2>0, <2>1 DEF Asked
    <2>2. CASE pc[t] = "set"
      <3>1. dev' = [dev EXCEPT !["REQ"] = r.value] /\ r.value = goal[t]
        BY <1>1, <1>2, <2>2 DEF Asked
      <3> QED
        BY <2>0, <2>2, <3>1 DEF Fields
    <2>3. CASE r.op = "SET" /\ pc[t] # "set"
      <3>1. dev' = [dev EXCEPT ![f] = r.value] /\ f \in {"ACT", "ATR", "ARD"}
        BY <1>1, <1>2, <2>3 DEF Asked
      <3> HIDE DEF f
      <3> QED
        BY <2>0, <2>3, <3>1 DEF Fields
    <2> QED
      BY <1>1, <2>1, <2>2, <2>3 DEF Asked
  <1>8. /\ answers' \in Seq(Answers)
        /\ ~ cut => answers' = Reply(t, r)
    BY <1>1, <1>2, <1>6, Replied DEF GripperInv, TypeInv, OwnInv
  <1>9. /\ alone' \in [Threads -> BOOLEAN]
        /\ \A u \in Threads : alone'[u] => alone[u] /\ (r.op = "GET" \/ u = t)
    BY <1>3
  <1>10. cut' \in BOOLEAN
    BY <1>1, <1>5 DEF TypeInv
  <1>11. TypeInv'
    <2>1. /\ mutex' = waiting' /\ \E u \in Threads : waiting' = {u}
          /\ \A u \in waiting' : pc'[u] \notin Local
      BY <1>2, <1>4, <1>6
    <2>2. /\ closedAt' \in Int /\ fPosition' \in [Threads -> Int]
          /\ PerThread(pc') /\ PerThread(stage') /\ goal' \in [Threads -> Int]
          /\ min_position' \in Int /\ max_position' \in Int
      BY <1>1, <1>4 DEF TypeInv
    <2> QED
      BY <1>7, <1>8, <1>9, <1>10, <2>1, <2>2 DEF TypeInv
  <1>12. GoalInv'
    <2>1. \A u \in Threads : Undisturbed(u) => Undisturbed(u)'
      BY <1>4 DEF Undisturbed, FromDevice
    <2> QED
      BY <1>4, <1>9, <2>1 DEF GripperInv, GoalInv
  <1>13. OwnInv'
    BY <1>1, <1>5, <1>6, <1>8, Replied DEF OwnInv
  <1>14. DeviceInv'
    BY <1>4, <1>7 DEF GripperInv, DeviceInv
  <1>15. RangeInv'
    <2>1. /\ Reply(t, r) \in Seq(Answers) /\ answers \in Seq(Answers)
          /\ \A i \in 1..Len(Reply(t, r)) :
               (Reply(t, r)[i].op = "GET" /\ Reply(t, r)[i].var = "POS") =>
                   Reply(t, r)[i].value = dev["POS"]
      BY <1>1, Replied DEF TypeInv
    <2> DEFINE new == Reply(t, r)
    <2> HIDE DEF new
    <2>2. \A i \in 1..Len(answers') :
              \/ i \in 1..Len(answers) /\ answers'[i] = answers[i]
              \/ \E j \in 1..Len(new) : answers'[i] = new[j]
      <3>1. new \in Seq(Answers) /\ answers \in Seq(Answers) /\ answers' = answers \o new
        BY <1>2, <2>1 DEF new
      <3> QED
        BY <3>1
    <2>3. /\ \A j \in 1..Len(new) : (new[j].op = "GET" /\ new[j].var = "POS") =>
                                        new[j].value >= 0 /\ new[j].value <= MaxPos
          /\ \A i \in 1..Len(answers) : (answers[i].op = "GET" /\ answers[i].var = "POS") =>
                                        answers[i].value >= 0 /\ answers[i].value <= MaxPos
      BY <2>1 DEF GripperInv, RangeInv, DeviceInv, new
    <2> QED
      BY <1>4, <2>2, <2>3 DEF GripperInv, RangeInv
  <1>16. ASSUME NEW u \in Threads, alone'[u], ~ cut' PROVE Following(u)' /\ Calibration(u)'
    <2>1. alone[u] /\ ~ cut /\ (r.op = "GET" \/ u = t)
      BY <1>5, <1>9, <1>16
    <2>2. Following(u) /\ Calibration(u)
      BY <2>1 DEF GripperInv, MotionInv
    <2>6. u = t /\ stage[t] = "open" => goal[t] = 0
      BY DEF GripperInv, GoalInv
    <2>3. CASE u = t
      <3>1. /\ answers' = Reply(t, r) /\ answers'[1].op = r.op /\ answers'[1].var = r.vars[1]
            /\ (r.op = "GET" => answers'[1].value = dev[r.vars[1]])
        BY <1>1, <1>8, <2>1, Replied
      <3>2. /\ pc[t] = "pre" => answers'[1].value = dev["PRE"]
            /\ pc[t] = "obj" => answers'[1].value = dev["OBJ"]
            /\ pc[t] \in Calibrating =>
                 answers'[1].op = "GET" /\ answers'[1].var = "POS" /\ answers'[1].value = dev["POS"]
        BY <1>1, <3>1 DEF Asked
      <3> QED
        BY <1>0, <1>4, <1>6, <1>7, <2>2, <2>3, <2>6, <3>2 DEF Following, Calibration, Settled, Calibrating
    <2>4. CASE u # t
      <3>1. pc[t] # "set"
        BY <1>1, <2>1, <2>4 DEF Asked
      <3> QED
        BY <1>4, <1>6, <1>7, <2>2, <2>4, <3>1 DEF Following, Calibration
    <2> QED
      BY <2>3, <2>4
  <1>17. MotionInv'
    BY <1>16 DEF MotionInv
  <1> QED
    BY <1>11, <1>12, <1>13, <1>14, <1>15, <1>17 DEF GripperInv
\* The answer comes, or what is left of an earlier one.
LEMMA ReceiveStep ==
    ASSUME GripperInv, NEW t \in Threads, Receive(t)
    PROVE  GripperInv'
  <1> DEFINE x == Head(answers).value
  <1>0. MaxPos \in Int /\ MaxPos >= 1 /\ Slack \in Int /\ Slack >= 0 /\ Slack <= MaxPos - 1
    BY GripperAssumption
  <1>1. /\ TypeInv /\ t \in waiting /\ answers # <<>> /\ waiting' = waiting \ {t} /\ mutex' = {}
        /\ UNCHANGED <<dev, closedAt, fPosition, unit>>
    BY DEF GripperInv, Receive, device
  <1>2. alone' = [u \in Threads |-> alone[u] /\ (u = t \/ pc[t] \notin Calibrating)]
    BY DEF Receive
  <1>3. \E rest \in {<<>>, Tail(answers)} : answers' = rest /\ cut' = (cut \/ rest # <<>>)
    BY DEF Receive
  <1>4. \/ Answered(t, x) /\ Calibrate(t, x) /\ Accepts(t, Head(answers))
        \/ To(t, "idle") /\ UNCHANGED <<min_position, max_position>>
    BY DEF Receive
  <1>5. waiting = {t} /\ waiting' = {}
    BY <1>1 DEF TypeInv
  <1>6. x = answers[1].value /\ x \in Int /\ answers' \in Seq(Answers)
    <2>1. answers \in Seq(Answers) /\ answers # <<>>
      BY <1>1 DEF TypeInv
    <2>2. Head(answers) = answers[1] /\ answers[1] \in Answers /\ Tail(answers) \in Seq(Answers)
      BY <2>1
    <2>3. answers' \in Seq(Answers)
      <3>1. answers' = <<>> \/ answers' = Tail(answers)
        BY <1>3
      <3>2. <<>> \in Seq(Answers)
        OBVIOUS
      <3> QED
        BY <2>2, <3>1, <3>2, Zenon
    <2>4. answers[1].value \in Int
      BY <2>2 DEF Answers
    <2> QED
      BY <2>2, <2>3, <2>4
  <1> HIDE DEF x
  <1>7. cut' \in BOOLEAN /\ (~ cut' => ~ cut /\ answers' = <<>>)
    BY <1>3
  <1>8. GoesTo(t, x)
    BY <1>1, <1>4, ToGoes, AnsweredGoes
  <1>9. /\ PerThread(pc') /\ PerThread(stage') /\ goal' \in [Threads -> Int]
        /\ \A u \in Threads \ {t} : pc'[u] = pc[u] /\ goal'[u] = goal[u] /\ stage'[u] = stage[u]
        /\ Result(t, x, pc'[t], goal'[t], stage'[t])
    BY <1>8 DEF GoesTo
  <1>10. /\ alone' \in [Threads -> BOOLEAN]
         /\ \A u \in Threads : alone'[u] => alone[u] /\ (u = t \/ pc[t] \notin Calibrating)
    BY <1>2
  \* The calibration takes a position, or it leaves its range alone.
  <1>11. /\ pc[t] # "min" => min_position' = min_position
         /\ pc[t] = "min" => min_position' = min_position \/ (min_position' = x /\ x >= 0)
         /\ pc[t] \notin {"max", "max_inner"} => max_position' = max_position
         /\ pc[t] \in {"max", "max_inner"} =>
               \/ max_position' = max_position /\ pc'[t] = "idle"
               \/ max_position' = x /\ x <= MaxPos
    <2>1. CASE Calibrate(t, x) /\ Accepts(t, Head(answers)) /\ pc[t] \in Calibrating
      <3>1. Request(t) = Get("POS")
        BY <2>1 DEF Request, Calibrating
      <3>2. Head(answers).op = "GET" /\ Head(answers).var = "POS"
        BY <2>1, <3>1 DEF Accepts, Get, Calibrating
      <3>3. Head(answers) = answers[1] /\ 1 \in 1..Len(answers)
        BY <1>1 DEF TypeInv
      <3>4. x >= 0 /\ x <= MaxPos
        BY <1>6, <3>2, <3>3 DEF GripperInv, RangeInv
      <3> QED
        BY <1>0, <1>6, <2>1, <3>4 DEF Calibrate, Clamp, Calibrating
    <2>2. CASE Calibrate(t, x) /\ pc[t] \notin Calibrating
      BY <2>2 DEF Calibrate, Calibrating
    <2>3. CASE To(t, "idle") /\ UNCHANGED <<min_position, max_position>>
      BY <1>1, <2>3 DEF To, TypeInv, PerThread
    <2> QED
      BY <1>4, <2>1, <2>2, <2>3
  <1>12. min_position' \in Int /\ max_position' \in Int
    BY <1>1, <1>6, <1>11 DEF TypeInv
  <1>13. TypeInv'
    <2>1. closedAt' \in Int /\ dev' \in [Fields -> Int] /\ fPosition' \in [Threads -> Int]
      BY <1>1 DEF TypeInv
    <2> QED
      BY <1>1, <1>5, <1>6, <1>7, <1>9, <1>10, <1>12, <2>1 DEF TypeInv
  <1>14. GoalInv'
    <2>0. pc[t] # "convert"
      BY <1>1 DEF TypeInv, Local
    <2>1. ASSUME NEW u \in Threads
          PROVE  /\ stage'[u] \in {"open_first", "open"} => goal'[u] = 0
                 /\ stage'[u] = "close" => goal'[u] = MaxPos
                 /\ pc'[u] = "convert" => stage'[u] \notin {"open_first", "open", "close"}
      BY <1>9 DEF GripperInv, GoalInv, Result
    <2>2. ASSUME NEW u \in Threads, alone'[u] PROVE Undisturbed(u)'
      <3>1. Undisturbed(u) /\ (u = t \/ pc[t] \notin Calibrating)
        BY <1>10, <2>2 DEF GripperInv, GoalInv
      <3>2. CASE u = t
        BY <1>9, <2>0, <3>1, <3>2 DEF Undisturbed, Result
      <3>3. CASE u # t
        <4>1. max_position' = max_position
          BY <1>11, <3>1, <3>3 DEF Calibrating
        <4> QED
          BY <1>1, <1>9, <3>1, <3>3, <4>1 DEF Undisturbed, FromDevice
      <3> QED
        BY <3>2, <3>3
    <2> QED
      BY <2>1, <2>2 DEF GoalInv
  <1>15. OwnInv'
    BY <1>5, <1>7 DEF OwnInv
  <1>16. DeviceInv'
    BY <1>1 DEF GripperInv, DeviceInv
  <1>17. RangeInv'
    <2>1. min_position >= 0 /\ max_position <= MaxPos
      BY DEF GripperInv, RangeInv
    <2>2. min_position' >= 0 /\ max_position' <= MaxPos
      BY <1>11, <2>1
    <2>3. answers \in Seq(Answers) /\ answers # <<>> /\ (answers' = <<>> \/ answers' = Tail(answers))
      BY <1>1, <1>3 DEF TypeInv
    <2>4. \A i \in 1..Len(answers') : i + 1 \in 1..Len(answers) /\ answers'[i] = answers[i + 1]
      BY <2>3
    <2>5. \A i \in 1..Len(answers') :
              (answers'[i].op = "GET" /\ answers'[i].var = "POS") =>
                 answers'[i].value >= 0 /\ answers'[i].value <= MaxPos
      BY <2>4 DEF GripperInv, RangeInv
    <2> QED
      BY <2>2, <2>5 DEF RangeInv
  <1>18. ASSUME NEW u \in Threads, alone'[u], ~ cut' PROVE Following(u)' /\ Calibration(u)'
    <2>1. alone[u] /\ ~ cut /\ (u = t \/ pc[t] \notin Calibrating)
      BY <1>7, <1>10, <1>18
    <2>0. Following(u) /\ Calibration(u)
      BY <2>1 DEF GripperInv, MotionInv
    <2>2. CASE u # t
      <3>2. max_position' = max_position
        BY <1>11, <2>1, <2>2 DEF Calibrating
      <3> QED
        BY <1>1, <1>5, <1>9, <2>0, <2>2, <3>2 DEF Following, Calibration
    <2>3. CASE u = t
      \* Where the fingers have stopped when the end of the range is read.
      <3>1. pc[t] \in {"max", "max_inner"} =>
               /\ dev["PRE"] = MaxPos /\ dev["REQ"] = MaxPos /\ dev["OBJ"] # MOVING
               /\ x = closedAt
        BY <1>5, <1>6, <2>0, <2>3 DEF Following, Calibration, Settled, Calibrating, GripperInv,
              GoalInv, DeviceInv, AT_DEST, STOPPED_INNER_OBJECT, MOVING
      <3>2. Following(t)'
        BY <1>1, <1>5, <1>6, <1>9, <2>0, <2>3
           DEF Following, Result, Settled, Calibrating, AT_DEST, MOVING, STOPPED_INNER_OBJECT,
               STOPPED_OUTER_OBJECT
      <3>3. pc[t] = "obj" /\ x # MOVING => dev["OBJ"] = x
        BY <1>5, <1>6, <2>0, <2>3 DEF Following
      <3>4. Calibration(t)'
        <4>0. closedAt \in Int /\ max_position' \in Int
          BY <1>1, <1>12 DEF TypeInv
        <4>1. /\ pc'[t] = "max" => dev["OBJ"] = AT_DEST /\ stage'[t] = "close"
              /\ pc'[t] = "max_inner" => dev["OBJ"] = STOPPED_INNER_OBJECT /\ stage'[t] = "close"
              /\ pc'[t] = "min" => dev["OBJ"] # MOVING /\ stage'[t] = "open"
          BY <1>9, <3>3 DEF Result, Settled, Calibrating, AT_DEST, MOVING, STOPPED_INNER_OBJECT,
                STOPPED_OUTER_OBJECT
        <4>2. pc'[t] = "slack" => /\ dev["OBJ"] = STOPPED_INNER_OBJECT /\ stage'[t] = "close"
                                  /\ max_position' = closedAt
          BY <1>9, <1>11, <2>0, <2>3, <3>1 DEF Result, Settled, Calibration
        <4>3. stage'[t] = "open" =>
                /\ max_position' <= closedAt /\ closedAt - Slack <= max_position'
                /\ dev["PRE"] # 0 => dev["PRE"] = MaxPos /\ dev["OBJ"] # MOVING
                /\ dev["REQ"] # 0 => dev["REQ"] = MaxPos /\ dev["PRE"] = MaxPos
          <5> SUFFICES ASSUME stage'[t] = "open"
                       PROVE  /\ max_position' <= closedAt /\ closedAt - Slack <= max_position'
                              /\ dev["PRE"] # 0 => dev["PRE"] = MaxPos /\ dev["OBJ"] # MOVING
                              /\ dev["REQ"] # 0 => dev["REQ"] = MaxPos /\ dev["PRE"] = MaxPos
            OBVIOUS
          <5>1. CASE pc[t] = "max" /\ pc'[t] = "set"
            <6>1. max_position' = closedAt
              BY <1>11, <3>1, <5>1
            <6> QED
              BY <1>0, <3>1, <4>0, <5>1, <6>1
          <5>2. CASE stage[t] = "open"
            <6>1. pc[t] \notin {"max", "max_inner"}
              BY <2>0, <2>3, <5>2 DEF Calibration
            <6> QED
              BY <1>11, <2>0, <2>3, <5>2, <6>1 DEF Calibration
          <5> QED
            BY <1>9, <5>1, <5>2 DEF Result
        <4> QED
          BY <1>1, <1>5, <4>1, <4>2, <4>3 DEF Calibration
      <3> QED
        BY <2>3, <3>2, <3>4
    <2> QED
      BY <2>2, <2>3
  <1>20. MotionInv'
    BY <1>18 DEF MotionInv
  <1> QED
    BY <1>13, <1>14, <1>15, <1>16, <1>17, <1>20 DEF GripperInv

\* The second write of max_position_: other threads are disturbed by it.
LEMMA TakeSlackStep ==
    ASSUME GripperInv, NEW t \in Threads, TakeSlack(t)
    PROVE  GripperInv'
  <1>0. MaxPos \in Nat /\ MaxPos >= 1 /\ Slack \in Nat /\ TypeInv
    BY GripperAssumption DEF GripperInv
  <1>1. /\ pc[t] = "slack" /\ max_position' = max_position - Slack
        /\ pc' = [pc EXCEPT ![t] = "set"] /\ goal' = [goal EXCEPT ![t] = 0]
        /\ stage' = [stage EXCEPT ![t] = "open"]
        /\ UNCHANGED <<dev, closedAt, answers, mutex, fPosition, waiting, min_position, unit>>
    BY DEF TakeSlack, StartMove, device
  <1>2. alone' = [u \in Threads |-> alone[u] /\ u = t] /\ cut' = cut
    BY DEF TakeSlack
  <1>3. alone' \in [Threads -> BOOLEAN] /\ cut' \in BOOLEAN /\ \A u \in Threads : alone'[u] => alone[u] /\ u = t
    BY <1>0, <1>2 DEF TypeInv
  <1>4. PerThread(pc') /\ PerThread(stage')
    BY <1>0, <1>1, Updated DEF TypeInv
  <1>13. t \notin waiting
    BY <1>0, <1>1 DEF TypeInv, Local
  <1>5. /\ goal' \in [Threads -> Int] /\ fPosition' \in [Threads -> Int]
        /\ pc'[t] = "set" /\ goal'[t] = 0 /\ stage'[t] = "open"
        /\ \A u \in Threads \ {t} : pc'[u] = pc[u] /\ goal'[u] = goal[u] /\ stage'[u] = stage[u]
    BY <1>0, <1>1 DEF TypeInv, PerThread
  <1>6. TypeInv'
    <2>1. \A u \in waiting' : pc'[u] \notin Local
      BY <1>0, <1>1, <1>5, <1>13 DEF TypeInv
    <2>2. max_position' \in Int
      BY <1>0, <1>1 DEF TypeInv
    <2> QED
      BY <1>0, <1>1, <1>3, <1>4, <1>5, <2>1, <2>2 DEF TypeInv
  <1>7. GoalInv'
    <2>1. Undisturbed(t)'
      BY <1>5 DEF Undisturbed
    <2> QED
      BY <1>3, <1>5, <2>1 DEF GripperInv, GoalInv
  <1>8. OwnInv'
    BY <1>1, <1>2 DEF GripperInv, OwnInv
  <1>9. DeviceInv'
    BY <1>1 DEF GripperInv, DeviceInv
  <1>10. RangeInv'
    <2>1. max_position' <= MaxPos
      BY <1>0, <1>1 DEF GripperInv, RangeInv, TypeInv
    <2> QED
      BY <1>1, <2>1 DEF GripperInv, RangeInv
  <1>11. ASSUME alone[t], ~ cut PROVE Following(t)' /\ Calibration(t)'
    <2>1. Following(t) /\ Calibration(t)
      BY <1>11 DEF GripperInv, MotionInv
    <2>2. /\ max_position = closedAt /\ dev["OBJ"] # MOVING
          /\ dev["PRE"] = MaxPos /\ dev["REQ"] = MaxPos
      BY <1>1, <2>1 DEF Calibration, Following, Settled, GripperInv, GoalInv, STOPPED_INNER_OBJECT, MOVING
    <2>3. closedAt \in Int
      BY <1>0 DEF TypeInv
    <2>4. Following(t)'
      BY <1>1, <1>5, <1>13 DEF Following, Settled, Calibrating
    <2>5. Calibration(t)'
      BY <1>0, <1>1, <1>5, <1>13, <2>2, <2>3 DEF Calibration, Calibrating
    <2> QED
      BY <2>4, <2>5
  <1>12. MotionInv'
    BY <1>2, <1>3, <1>11 DEF MotionInv
  <1> QED
    BY <1>6, <1>7, <1>8, <1>9, <1>10, <1>12 DEF GripperInv

LEMMA NextGripper ==
    ASSUME GripperInv, [Next]_vars
    PROVE  GripperInv'
  <1>1. CASE \E t \in Threads : Call(t) \/ Convert(t) \/ Send(t) \/ Receive(t) \/ TakeSlack(t)
    BY <1>1, CallStep, ConvertStep, SendStep, ReceiveStep, TakeSlackStep
  <1>2. CASE DeviceActivates \/ DeviceTakesOver \/ DeviceArrives \/ DeviceReleases
    BY <1>2, DeviceSteps
  <1>3. CASE UNCHANGED vars
    <2>1. UNCHANGED <<dev, closedAt, answers, mutex, pc, goal, fPosition, stage, waiting,
                      min_position, max_position, unit>>
      BY <1>3 DEF vars
    <2>2. alone' = alone /\ cut' = cut
      BY <1>3 DEF vars
    <2>3. TypeInv'
      <3>1. alone' \in [Threads -> BOOLEAN] /\ cut' \in BOOLEAN
        BY <2>2 DEF GripperInv, TypeInv
      <3> QED
        BY <2>1, <3>1 DEF GripperInv, TypeInv
    <2>4. GoalInv'
      <3>1. \A t \in Threads : Undisturbed(t) => Undisturbed(t)'
        BY <2>1 DEF Undisturbed, FromDevice
      <3> QED
        BY <2>1, <2>2, <3>1 DEF GripperInv, GoalInv
    <2>5. OwnInv' /\ RangeInv' /\ DeviceInv'
      BY <2>1, <2>2 DEF GripperInv, OwnInv, RangeInv, DeviceInv
    <2>6. MotionInv'
      BY <2>1, <2>2 DEF GripperInv, MotionInv, Following, Calibration
    <2> QED
      BY <2>3, <2>4, <2>5, <2>6 DEF GripperInv
  <1> QED
    BY <1>1, <1>2, <1>3 DEF Next

LEMMA AlwaysGripper == Spec => []GripperInv
  BY InitGripper, NextGripper, PTL DEF Spec

-----------------------------------------------------------------------------
(* The theorems *)

\* getVar, getVars and setVars hold the mutex from send to receive: as long as no
\* answer was cut in pieces, what a thread reads is the answer to its own request.
THEOREM AnswersAreMatched == Spec => AnswersMatch
  <1>1. ASSUME GripperInv, NEW t \in Threads, t \in waiting, ~ cut
        PROVE  Head(answers).of = t
    <2>1. answers \in Seq(Answers) /\ answers # <<>> /\ \A i \in 1..Len(answers) : answers[i].of = t
      BY <1>1 DEF GripperInv, TypeInv, OwnInv
    <2> QED
      BY <2>1
  <1>2. GripperInv => \A t \in Threads : (t \in waiting /\ t \notin waiting' /\ ~ cut) =>
                          Head(answers).of = t
    BY <1>1
  <1> QED
    BY <1>2, AlwaysGripper, PTL DEF AnswersMatch

\* What AT_DEST means to the thread that waited for it.
LEMMA Arrived ==
    ASSUME GripperInv, NEW t \in Threads, pc[t] = "obj", t \in waiting,
           Head(answers).value = AT_DEST, alone[t], ~ cut
    PROVE  dev.POS = goal[t]
  <1>1. answers \in Seq(Answers) /\ answers # <<>>
    BY DEF GripperInv, TypeInv, OwnInv
  <1>2. answers[1].value = AT_DEST
    BY <1>1
  <1>3. Following(t)
    BY DEF GripperInv, MotionInv
  <1>4. dev["PRE"] = goal[t] /\ dev["OBJ"] = AT_DEST
    BY <1>2, <1>3 DEF Following, Settled, AT_DEST, MOVING
  <1> QED
    BY <1>4 DEF GripperInv, DeviceInv

\* move_impl first polls PRE until the device has taken the position over: an
\* AT_DEST that waitForMotionComplete reads after that is not the one of the
\* motion before, and the fingers are where the caller wanted them.
THEOREM DoneIsThere == Spec => DoneMeansThere
  <1>2. GripperInv =>
          \A t \in Threads :
            (/\ pc[t] = "obj" /\ t \in waiting /\ t \notin waiting'
             /\ mode[t] = "WAIT_FINISHED" /\ Head(answers).value = AT_DEST /\ alone[t] /\ ~ cut)
            => dev.POS = goal[t]
    BY Arrived
  <1> QED
    BY <1>2, AlwaysGripper, PTL DEF DoneMeansThere

\* open() and close() convert an end of the range to the unit of the client and
\* move rounds it back with a second read of max_position_: without another
\* thread's calibration in between, a gripper that reports AT_DEST is open for
\* isOpen or closed for isClosed, whatever range earlier calibrations, also
\* interrupted or overlapping ones, have left in the object.
THEOREM OpeningOpens == Spec => OpenedIsOpen
  <1>1. ASSUME GripperInv, NEW t \in Threads, pc[t] = "obj", t \in waiting,
               Head(answers).value = AT_DEST, alone[t], ~ cut
        PROVE  /\ stage[t] = "open()" => dev.POS <= min_position
               /\ stage[t] = "close()" => dev.POS >= max_position
    <2>1. dev.POS = goal[t] /\ Undisturbed(t) /\ pc[t] # "convert"
      BY <1>1, Arrived DEF GripperInv, GoalInv
    <2>2. /\ min_position \in Int /\ max_position \in Int /\ MaxPos \in Int
          /\ min_position >= 0 /\ max_position <= MaxPos
      BY <1>1, GripperAssumption DEF GripperInv, TypeInv, RangeInv
    <2> QED
      BY <2>1, <2>2 DEF Undisturbed
  <1>2. GripperInv =>
          \A t \in Threads :
            (/\ pc[t] = "obj" /\ t \in waiting /\ t \notin waiting'
             /\ mode[t] = "WAIT_FINISHED" /\ Head(answers).value = AT_DEST /\ alone[t] /\ ~ cut)
            => /\ stage[t] = "open()" => dev.POS <= min_position
               /\ stage[t] = "close()" => dev.POS >= max_position
    BY <1>1
  <1> QED
    BY <1>2, AlwaysGripper, PTL DEF OpenedIsOpen

\* autoCalibrate stores a position only after a motion that the device has
\* reported finished: undisturbed, it leaves the place where the opening stopped
\* and the place where the closing stopped, less the slack if that was at an
\* object, wherever on the way the objects were.
THEOREM CalibrationFindsTheEnds == Spec => CalibrationCoversTheEnds
  <1>1. ASSUME GripperInv, [Next]_vars, NEW t \in Threads, pc[t] = "min", t \in waiting,
               t \notin waiting', alone[t], ~ cut
        PROVE  /\ dev.POS <= min_position' /\ max_position' <= closedAt
               /\ dev.POS + Slack <= closedAt => min_position' <= max_position'
    <2>0. /\ Slack \in Int /\ dev["POS"] \in Int /\ closedAt \in Int /\ max_position \in Int
          /\ (waiting = {} \/ \E u \in Threads : waiting = {u})
      BY <1>1, GripperAssumption DEF GripperInv, TypeInv, Fields
    <2>1. Receive(t)
      <3>1. ASSUME NEW u \in Threads, Receive(u) PROVE u = t
        BY <1>1, <2>0, <3>1 DEF Receive
      <3>2. \A u \in Threads : Call(u) => waiting' = waiting
        BY DEF Call, Move, Open, Close, Activate, EmergencyRelease, GetVars, IsOpen, Begin
      <3>3. \A u \in Threads : Convert(u) \/ TakeSlack(u) => waiting' = waiting
        BY DEF Convert, TakeSlack
      <3>4. \A u \in Threads : Send(u) => t \in waiting'
        BY <1>1 DEF Send, Exchange
      <3>5. (DeviceActivates \/ DeviceTakesOver \/ DeviceArrives \/ DeviceReleases) => waiting' = waiting
        <4>1. \A d : Device(d) => waiting' = waiting
          BY DEF Device
        <4> QED
          BY <4>1, Zenon DEF DeviceActivates, DeviceTakesOver, DeviceArrives, DeviceReleases
      <3>6. UNCHANGED vars => waiting' = waiting
        BY DEF vars
      <3> QED
        BY <1>1, <3>1, <3>2, <3>3, <3>4, <3>5, <3>6, Zenon DEF Next
    <2>2. Following(t) /\ Calibration(t)
      BY <1>1 DEF GripperInv, MotionInv
    <2>3. stage[t] = "open" /\ answers[1].value = dev["POS"]
      BY <1>1, <2>2 DEF Calibration, Calibrating
    <2>4. Head(answers) = answers[1] /\ Head(answers).of = t /\ answers # <<>>
      BY <1>1 DEF GripperInv, TypeInv, OwnInv
    <2>5. Accepts(t, Head(answers))
      <3>1. Request(t) = Get("POS")
        BY <1>1 DEF Request
      <3>2. Head(answers).op = "GET" /\ Head(answers).var = "POS"
        BY <1>1, <2>2, <2>4 DEF Calibration, Calibrating
      <3> QED
        BY <1>1, <3>1, <3>2 DEF Accepts, Get
    <2>6. Calibrate(t, dev["POS"])
      BY <1>1, <2>1, <2>3, <2>4, <2>5 DEF Receive
    <2>7. min_position' = dev["POS"] /\ max_position' = max_position
      BY <1>1, <2>6 DEF Calibrate
    <2> QED
      BY <2>0, <2>2, <2>3, <2>7 DEF Calibration
  <1>2. (GripperInv /\ [Next]_vars) =>
          \A t \in Threads :
            (pc[t] = "min" /\ t \in waiting /\ t \notin waiting' /\ alone[t] /\ ~ cut)
            => /\ dev.POS <= min_position' /\ max_position' <= closedAt
               /\ dev.POS + Slack <= closedAt => min_position' <= max_position'
    BY <1>1
  <1> QED
    BY <1>2, AlwaysGripper, PTL DEF Spec, CalibrationCoversTheEnds
=============================================================================
