-------------------------- MODULE CommandRegisters --------------------------
(***************************************************************************)
(* What a command carries.  Every function of RTDEControlInterface fills a *)
(* RobotCommand: a type, the number of an input recipe and its arguments.  *)
(* RTDE::send packs them in an order of its own, the controller unpacks    *)
(* them by the recipe that setupRecipes declared, and process_cmd of       *)
(* scripts/rtde_control.script reads the registers by number.  Four tables *)
(* in two languages have to agree.  RTDEIOInterface writes to the same     *)
(* controller through a session of its own.                                *)
(*                                                                         *)
(* A register holds the number of the call that wrote it and the argument  *)
(* it was meant to be, never a value.  The handshake around the registers  *)
(* is ControlProtocol's; here the host sees DONE as soon as it is there.   *)
(***************************************************************************)
EXTENDS Naturals, Sequences, SequencesExt, FiniteSets, TLC

CONSTANTS
    Version,    \* major and minor version of the controller, a pair
    Functions,  \* the control functions the client calls, a subset of AllFunctions
    IoIds,      \* the output numbers the client passes to the digital setters
    MaxCalls,   \* bound: calls of control functions
    MaxOps      \* bound: calls of both interfaces and losses of the IO connection

(* Registers and arguments *)

IntReg(n) == <<"int", n>>
DoubleReg(n) == <<"double", n>>
Doubles(from, to) == [k \in 1..(to - from + 1) |-> DoubleReg(from + k - 1)]

Vec(name) == [k \in 1..6 |-> <<name, k>>]      \* std::vector of six
Vec3(name) == [k \in 1..3 |-> <<name, k>>]
One(name) == << <<name, 1>> >>
Opt == One("speed") \o One("acceleration")

\* RTDEControlInterface::setupRecipes, RECIPE_1 to RECIPE_21.
Recipe == <<
    <<IntReg(0)>> \o Doubles(0, 7) \o <<IntReg(1)>>,                        \*  1
    <<IntReg(0)>> \o Doubles(0, 10),                                     \*  2
    [k \in 1..8 |-> IntReg(k - 1)] \o Doubles(0, 17),                    \*  3
    <<IntReg(0)>>,                                                       \*  4
    <<IntReg(0)>> \o Doubles(0, 8),                                      \*  5
    <<IntReg(0)>> \o Doubles(0, 5),                                      \*  6
    <<IntReg(0)>> \o Doubles(0, 3),                                      \*  7
    <<IntReg(0), DoubleReg(0)>>,                                            \*  8
    <<IntReg(0), IntReg(1)>>,                                               \*  9
    <<IntReg(0)>> \o Doubles(0, 13),                                     \* 10
    <<IntReg(0)>>,                                                       \* 11
    <<IntReg(0)>> \o Doubles(0, 11),                                     \* 12
    <<IntReg(0)>> \o Doubles(0, 7),                                      \* 13
    <<IntReg(0)>> \o Doubles(0, 13),                                     \* 14
    <<IntReg(0), IntReg(1)>>,                                               \* 15
    <<IntReg(0)>> \o Doubles(0, 12),                                     \* 16
    [k \in 1..7 |-> IntReg(k - 1)] \o Doubles(0, 5),                     \* 17
    <<IntReg(0), IntReg(1)>> \o Doubles(0, 6),                              \* 18
    <<IntReg(0), DoubleReg(0), IntReg(1)>>,                                    \* 19
    <<IntReg(0)>> \o Doubles(0, 9),                                      \* 20
    <<IntReg(0)>> \o [k \in 1..6 |-> <<"external_force_torque", k>>]>>   \* 21

(***************************************************************************)
(* The control functions.  val is what the function puts into              *)
(* robot_cmd.val_, checked says that it calls verifyValueIsWithin first,   *)
(* answer the output registers it returns.                                 *)
(***************************************************************************)
Fn(name, type, recipe, val) ==
    [fn |-> name, type |-> type, recipe |-> recipe, val |-> val,
     checked |-> FALSE, answer |-> {}]
Checked(f) == [f EXCEPT !.checked = TRUE]
Returns(f, registers) == [f EXCEPT !.answer = registers]

OutInt == {IntReg(1)}
OutDoubles == {DoubleReg(n) : n \in 0..5}

StopFunctions == {Fn("stopL", "STOPL", 19, One("a")),
                  Fn("stopJ", "STOPJ", 19, One("a"))}

MoveFunctions ==
    {Checked(Fn("movePath", "MOVE_PATH", 15, <<>>)),
     Checked(Fn("moveJ", "MOVEJ", 1, Vec("q") \o Opt)),
     Checked(Fn("moveJ_IK", "MOVEJ_IK", 1, Vec("transform") \o Opt)),
     Checked(Fn("moveL", "MOVEL", 1, Vec("transform") \o Opt)),
     Checked(Fn("moveL_FK", "MOVEL_FK", 1, Vec("q") \o Opt)),
     Fn("jogStart", "JOG_START", 14, Vec("speeds") \o One("feature")
            \o One("acc") \o Vec("custom_frame")),
     Fn("jogStop", "JOG_STOP", 4, <<>>)}

ServoFunctions ==
    {Fn("forceMode", "FORCE_MODE", 3,
        Vec("task_frame") \o Vec("wrench") \o Vec("limits")),
     Fn("forceModeStop", "FORCE_MODE_STOP", 4, <<>>),
     Fn("zeroFtSensor", "ZERO_FT_SENSOR", 4, <<>>),
     Checked(Fn("speedJ", "SPEEDJ", 13, Vec("qd") \o One("acceleration") \o One("time"))),
     Checked(Fn("speedL", "SPEEDL", 13, Vec("xd") \o One("acceleration") \o One("time"))),
     Checked(Fn("servoJ", "SERVOJ", 2, Vec("q") \o Opt \o One("time")
                    \o One("lookahead_time") \o One("gain"))),
     Checked(Fn("servoL", "SERVOL", 2, Vec("pose") \o Opt \o One("time")
                    \o One("lookahead_time") \o One("gain"))),
     Fn("speedStop", "SPEED_STOP", 8, One("a")),
     Fn("servoStop", "SERVO_STOP", 8, One("a")),
     Checked(Fn("servoC", "SERVOC", 5, Vec("pose") \o Opt \o One("blend")))}

SettingFunctions ==
    {Fn("setPayload", "SET_PAYLOAD", 7, One("mass") \o Vec3("cog")),
     Fn("teachMode", "TEACH_MODE", 4, <<>>),
     Fn("endTeachMode", "END_TEACH_MODE", 4, <<>>),
     Fn("forceModeSetDamping", "FORCE_MODE_SET_DAMPING", 8, One("damping")),
     Fn("forceModeSetGainScaling", "FORCE_MODE_SET_GAIN_SCALING", 8, One("scaling")),
     Returns(Fn("toolContact", "TOOL_CONTACT", 6, Vec("direction")), OutInt),
     Returns(Fn("getStepTime", "GET_STEPTIME", 4, <<>>), {DoubleReg(0)}),
     Returns(Fn("getActualJointPositionsHistory",
                "GET_ACTUAL_JOINT_POSITIONS_HISTORY", 9, <<>>), OutDoubles),
     Returns(Fn("getTargetWaypoint", "GET_TARGET_WAYPOINT", 4, <<>>), OutDoubles)}

KinematicFunctions ==
    {Fn("setTcp", "SET_TCP", 6, Vec("tcp_offset")),
     Returns(Fn("getInverseKinematics", "GET_INVERSE_KINEMATICS_DEFAULT", 6, Vec("x")),
             OutDoubles),
     Returns(Fn("getInverseKinematics(qnear)", "GET_INVERSE_KINEMATICS_ARGS", 10,
                Vec("x") \o Vec("qnear") \o One("max_position_error")
                    \o One("max_orientation_error")), OutDoubles),
     Returns(Fn("poseTrans", "POSE_TRANS", 12, Vec("p_from") \o Vec("p_from_to")),
             OutDoubles)}

SafetyFunctions ==
    {Fn("triggerProtectiveStop", "PROTECTIVE_STOP", 4, <<>>),
     Fn("setWatchdog", "SET_WATCHDOG", 8, One("min_frequency")),
     Fn("kickWatchdog", "WATCHDOG", 11, <<>>),
     Returns(Fn("isPoseWithinSafetyLimits", "IS_POSE_WITHIN_SAFETY_LIMITS", 6, Vec("pose")),
             OutInt),
     Fn("startContactDetection", "START_CONTACT_DETECTION", 6, Vec("direction")),
     Returns(Fn("stopContactDetection", "STOP_CONTACT_DETECTION", 4, <<>>), OutInt),
     Returns(Fn("readContactDetection", "READ_CONTACT_DETECTION", 4, <<>>), OutInt),
     Returns(Fn("isJointsWithinSafetyLimits", "IS_JOINTS_WITHIN_SAFETY_LIMITS", 6, Vec("q")),
             OutInt)}

QueryFunctions ==
    {Returns(Fn("getJointTorques", "GET_JOINT_TORQUES", 4, <<>>), OutDoubles),
     Returns(Fn("getTCPOffset", "GET_TCP_OFFSET", 4, <<>>), OutDoubles),
     Returns(Fn("getForwardKinematics()", "GET_FORWARD_KINEMATICS_DEFAULT", 4, <<>>),
             OutDoubles),
     Returns(Fn("getForwardKinematics(q)", "GET_FORWARD_KINEMATICS_ARGS", 6, Vec("q")),
             OutDoubles),
     Returns(Fn("getForwardKinematics(q, tcp_offset)", "GET_FORWARD_KINEMATICS_ARGS", 12,
                Vec("q") \o Vec("tcp_offset")), OutDoubles),
     Returns(Fn("isSteady", "IS_STEADY", 4, <<>>), OutInt),
     Checked(Fn("moveUntilContact", "MOVE_UNTIL_CONTACT", 16,
                Vec("xd") \o Vec("direction") \o One("acceleration")))}

FtVal == One("sensor_mass") \o Vec3("sensor_measuring_offset") \o Vec3("sensor_cog")

FreedriveFunctions ==
    {Fn("freedriveMode", "FREEDRIVE_MODE", 17, Vec("feature")),
     Fn("endFreedriveMode", "END_FREEDRIVE_MODE", 4, <<>>),
     Returns(Fn("getFreedriveStatus", "GET_FREEDRIVE_STATUS", 4, <<>>), OutInt),
     Fn("setExternalForceTorque", "SET_EXTERNAL_FORCE_TORQUE", 21,
        Vec("external_force_torque")),
     Fn("ftRtdeInputEnable", "FT_RTDE_INPUT_ENABLE", 18, FtVal),
     Fn("enableExternalFtSensor", "ENABLE_EXTERNAL_FT_SENSOR", 18, FtVal),
     Returns(Fn("getActualToolFlangePose", "GET_ACTUAL_TOOL_FLANGE_POSE", 4, <<>>),
             OutDoubles)}

TargetFunctions ==
    {Fn("setGravity", "SET_GRAVITY", 7, Vec3("direction") \o One("dummy")),
     Returns(Fn("getInverseKinematicsHasSolution",
                "GET_INVERSE_KINEMATICS_HAS_SOLUTION_DEFAULT", 6, Vec("x")), OutInt),
     Returns(Fn("getInverseKinematicsHasSolution(qnear)",
                "GET_INVERSE_KINEMATICS_HAS_SOLUTION_ARGS", 10,
                Vec("x") \o Vec("qnear") \o One("max_position_error")
                    \o One("max_orientation_error")), OutInt),
     Fn("setTargetPayload", "SET_TARGET_PAYLOAD", 20,
        One("mass") \o Vec3("cog") \o Vec("inertia"))}

AllFunctions ==
    StopFunctions \cup MoveFunctions \cup ServoFunctions \cup SettingFunctions
        \cup KinematicFunctions \cup SafetyFunctions \cup QueryFunctions
        \cup FreedriveFunctions \cup TargetFunctions

\* An output number is a shift count: 1u << 32 and more are not defined.
ASSUME RegistersAssumption ==
    /\ Functions \subseteq AllFunctions /\ IoIds \subseteq 0..31
    /\ MaxCalls \in Nat /\ MaxOps \in Nat

Named(names) == {f \in AllFunctions : f.fn \in names}

(***************************************************************************)
(* RTDE::send: what goes on the wire after the recipe number.              *)
(***************************************************************************)
\* Mutant: the selection vector before the type.
IntsBeforeSwapped(type) ==
    IF type = "FORCE_MODE" THEN Vec("selection_vector") \o One("force_mode_type")
    ELSE IF type = "FREEDRIVE_MODE" THEN Vec("free_axes") ELSE <<>>

IntsBefore(type) ==
    CASE type \in {"FT_RTDE_INPUT_ENABLE", "ENABLE_EXTERNAL_FT_SENSOR"} -> One("enable")
      [] type = "FREEDRIVE_MODE" -> Vec("free_axes")
      [] type = "FORCE_MODE" -> One("force_mode_type") \o Vec("selection_vector")
      [] type = "GET_ACTUAL_JOINT_POSITIONS_HISTORY" -> One("steps")
      [] OTHER -> <<>>

IntsAfter(type) ==
    IF type \in {"MOVEJ", "MOVEJ_IK", "MOVEL", "MOVEL_FK", "MOVE_PATH", "STOPJ", "STOPL"}
    THEN One("async") ELSE <<>>

Pack(f) ==
    << <<IF f.type = "WATCHDOG" THEN "NO_CMD" ELSE f.type, 0>> >>
        \o IntsBefore(f.type) \o f.val \o IntsAfter(f.type)

(***************************************************************************)
(* process_cmd: which register each branch passes on as which argument     *)
(* (under the host's name for it), which output registers it writes, and   *)
(* the versions its lines are kept for ("$5.10|3.15" is the pair of 5.10   *)
(* and 3.15).                                                              *)
(***************************************************************************)
PoseAt(name, n) == {<< <<name, k>>, DoubleReg(n + k - 1)>> : k \in 1..6}
ListAt(name, n) == {<< <<name, k>>, DoubleReg(n + k - 1)>> : k \in 1..3}
FloatAt(name, n) == {<< <<name, 1>>, DoubleReg(n)>>}
IntAt(name, n) == {<< <<name, 1>>, IntReg(n)>>}
IntsAt(name, n) == {<< <<name, k>>, IntReg(n + k - 1)>> : k \in 1..6}

None == <<0, 0>>
Always == <<None, None>>
Since(major, minor) == << <<major, minor>>, None>>
Branch(need, uses, writes) == [need |-> need, uses |-> uses, writes |-> writes]

MoveArgs(target) ==
    PoseAt(target, 0) \cup FloatAt("speed", 6) \cup FloatAt("acceleration", 7)
        \cup IntAt("async", 1)
ServoArgs(target) ==
    PoseAt(target, 0) \cup FloatAt("time", 8) \cup FloatAt("lookahead_time", 9)
        \cup FloatAt("gain", 10)
SpeedArgs(target) ==
    PoseAt(target, 0) \cup FloatAt("acceleration", 6) \cup FloatAt("time", 7)
KinArgs == PoseAt("x", 0) \cup PoseAt("qnear", 6) \cup FloatAt("max_position_error", 12)
               \cup FloatAt("max_orientation_error", 13)
FtArgs == IntAt("enable", 1) \cup FloatAt("sensor_mass", 0)
              \cup ListAt("sensor_measuring_offset", 1) \cup ListAt("sensor_cog", 4)
StopArgs == FloatAt("a", 0) \cup IntAt("async", 1)

MotionBranches ==
    [MOVEJ |-> Branch(Always, MoveArgs("q"), {}),
     MOVEJ_IK |-> Branch(Always, MoveArgs("transform"), {}),
     MOVEL |-> Branch(Always, MoveArgs("transform"), {}),
     MOVEL_FK |-> Branch(Always, MoveArgs("q"), {}),
     FORCE_MODE |-> Branch(Always, IntAt("force_mode_type", 1)
         \cup IntsAt("selection_vector", 2) \cup PoseAt("task_frame", 0)
         \cup PoseAt("wrench", 6) \cup PoseAt("limits", 12), {}),
     FORCE_MODE_STOP |-> Branch(Always, {}, {}),
     ZERO_FT_SENSOR |-> Branch(Always, {}, {})]

ServoBranches ==
    [SPEEDJ |-> Branch(Always, SpeedArgs("qd"), {}),
     SPEEDL |-> Branch(Always, SpeedArgs("xd"), {}),
     SERVOJ |-> Branch(Always, ServoArgs("q"), {}),
     SERVOC |-> Branch(Always, PoseAt("pose", 0) \cup FloatAt("speed", 6)
         \cup FloatAt("acceleration", 7) \cup FloatAt("blend", 8), {}),
     SPEED_STOP |-> Branch(Always, FloatAt("a", 0), {}),
     SERVO_STOP |-> Branch(Always, FloatAt("a", 0), {}),
     SET_PAYLOAD |-> Branch(Always, FloatAt("mass", 0) \cup ListAt("cog", 1), {}),
     TEACH_MODE |-> Branch(Always, {}, {}),
     END_TEACH_MODE |-> Branch(Always, {}, {}),
     FORCE_MODE_SET_DAMPING |-> Branch(Since(3, 5), FloatAt("damping", 0), {}),
     FORCE_MODE_SET_GAIN_SCALING |-> Branch(Since(5, 0), FloatAt("scaling", 0), {})]

QueryBranches ==
    [SERVOL |-> Branch(Always, ServoArgs("pose"), {}),
     TOOL_CONTACT |-> Branch(Since(5, 4), PoseAt("direction", 0), OutInt),
     GET_STEPTIME |-> Branch(Since(5, 4), {}, {DoubleReg(0)}),
     GET_ACTUAL_JOINT_POSITIONS_HISTORY |-> Branch(Since(5, 4), IntAt("steps", 1), OutDoubles),
     GET_TARGET_WAYPOINT |-> Branch(Since(5, 3), {}, OutDoubles),
     SET_TCP |-> Branch(Always, PoseAt("tcp_offset", 0), {}),
     GET_INVERSE_KINEMATICS_ARGS |-> Branch(Always, KinArgs, OutDoubles),
     PROTECTIVE_STOP |-> Branch(Since(3, 8), {}, {}),
     STOPL |-> Branch(Always, StopArgs, {}),
     STOPJ |-> Branch(Always, StopArgs, {}),
     SET_WATCHDOG |-> Branch(Always, FloatAt("min_frequency", 0), {}),
     IS_POSE_WITHIN_SAFETY_LIMITS |-> Branch(Always, PoseAt("pose", 0), OutInt),
     IS_JOINTS_WITHIN_SAFETY_LIMITS |-> Branch(Always, PoseAt("q", 0), OutInt),
     GET_JOINT_TORQUES |-> Branch(Always, {}, OutDoubles),
     POSE_TRANS |-> Branch(Always, PoseAt("p_from", 0) \cup PoseAt("p_from_to", 6), OutDoubles),
     GET_TCP_OFFSET |-> Branch(Since(3, 6), {}, OutDoubles)]

KinematicBranches ==
    [JOG_START |-> Branch(Always, PoseAt("speeds", 0) \cup FloatAt("feature", 6)
         \cup FloatAt("acc", 7) \cup PoseAt("custom_frame", 8), {}),
     JOG_STOP |-> Branch(Always, {}, {}),
     GET_FORWARD_KINEMATICS_DEFAULT |-> Branch(Always, {}, OutDoubles),
     GET_FORWARD_KINEMATICS_ARGS |->
         Branch(Always, PoseAt("q", 0) \cup PoseAt("tcp_offset", 6), OutDoubles),
     MOVE_PATH |-> Branch(Always, IntAt("async", 1), {}),
     GET_INVERSE_KINEMATICS_DEFAULT |-> Branch(Always, PoseAt("x", 0), OutDoubles),
     IS_STEADY |-> Branch(Always, {}, OutInt),
     MOVE_UNTIL_CONTACT |-> Branch(Since(5, 4), PoseAt("xd", 0)
         \cup PoseAt("direction", 6) \cup FloatAt("acceleration", 12), {}),
     FREEDRIVE_MODE |-> Branch(Since(5, 10), IntsAt("free_axes", 1) \cup PoseAt("feature", 0), {}),
     END_FREEDRIVE_MODE |-> Branch(Since(5, 10), {}, {}),
     GET_FREEDRIVE_STATUS |-> Branch(Since(5, 10), {}, OutInt)]

SensorBranches ==
    [FT_RTDE_INPUT_ENABLE |-> Branch(Since(5, 9), FtArgs, {}),
     ENABLE_EXTERNAL_FT_SENSOR |-> Branch(Always, FtArgs, {}),
     GET_ACTUAL_TOOL_FLANGE_POSE |-> Branch(Always, {}, OutDoubles),
     SET_GRAVITY |-> Branch(Always, ListAt("direction", 0), {}),
     GET_INVERSE_KINEMATICS_HAS_SOLUTION_DEFAULT |->
         Branch(<< <<5, 10>>, <<3, 15>> >>, PoseAt("x", 0), OutInt),
     GET_INVERSE_KINEMATICS_HAS_SOLUTION_ARGS |->
         Branch(<< <<5, 10>>, <<3, 15>> >>, KinArgs, OutInt),
     START_CONTACT_DETECTION |-> Branch(Always, PoseAt("direction", 0), {}),
     STOP_CONTACT_DETECTION |-> Branch(Always, {}, OutInt),
     READ_CONTACT_DETECTION |-> Branch(Always, {}, OutInt),
     SET_TARGET_PAYLOAD |-> Branch(Since(5, 10), FloatAt("mass", 0)
         \cup ListAt("cog", 1) \cup PoseAt("inertia", 4), {})]

\* ScriptClient::removeUnsupportedFunctions keeps a line marked need.
Keeps(version, need) ==
    \/ version[1] > need[1][1]
    \/ version[1] = need[1][1] /\ version[2] >= need[1][2]
    \/ version[1] = need[2][1] /\ version[2] >= need[2][2]

\* SET_EXTERNAL_FORCE_TORQUE has no branch: process_cmd only signals DONE.
NoBranch == Branch(Always, {}, {})

ScriptBranch(type) ==
    CASE type \in DOMAIN MotionBranches -> MotionBranches[type]
      [] type \in DOMAIN ServoBranches -> ServoBranches[type]
      [] type \in DOMAIN QueryBranches -> QueryBranches[type]
      [] type \in DOMAIN KinematicBranches -> KinematicBranches[type]
      [] type \in DOMAIN SensorBranches -> SensorBranches[type]
      [] OTHER -> NoBranch

\* The branch as it is left in the uploaded script.
Uploaded(type) ==
    LET b == ScriptBranch(type) IN IF Keeps(Version, b.need) THEN b ELSE NoBranch

\* sendCommand does not wait for these; the script signals READY after those.
HostContinuous == {"SERVOJ", "SERVOL", "SERVOC", "SPEEDJ", "SPEEDL", "FORCE_MODE",
                   "WATCHDOG", "GET_JOINT_TORQUES", "TOOL_CONTACT", "GET_STEPTIME",
                   "GET_ACTUAL_JOINT_POSITIONS_HISTORY", "SET_EXTERNAL_FORCE_TORQUE"}
ScriptRealtime == {"SERVOL", "SERVOJ", "SPEEDJ", "SPEEDL", "FORCE_MODE", "TOOL_CONTACT",
                   "GET_STEPTIME", "GET_ACTUAL_JOINT_POSITIONS_HISTORY",
                   "GET_JOINT_TORQUES", "GET_ACTUAL_TOOL_FLANGE_POSE"}

(***************************************************************************)
(* RTDEIOInterface: recipes 1 to 16 of its own session.                    *)
(***************************************************************************)
Banks == {"standard", "tool", "configurable"}
IoDigitalRecipe(bank) == <<IntReg(23), <<bank, "mask">>, <<bank, "value">> >>
IoSliderRecipe == <<IntReg(23), <<"slider", "mask">>, <<"slider", "fraction">> >>
IoAnalogRecipe == <<IntReg(23), <<"analog", "mask">>, <<"analog", "type">>,
                    <<"analog", 0>>, <<"analog", 1>> >>
\* Mutant: counted from the first register.
IoIntRecipeLow(n) == <<IntReg(23), IntReg(n - 18)>>
IoIntRecipe(n) == <<IntReg(23), IntReg(n)>>
IoDoubleRecipe(n) == <<IntReg(23), DoubleReg(n)>>
IoRegisters == {IntReg(23)} \cup {IntReg(n) : n \in 18..22} \cup {DoubleReg(n) : n \in 18..22}

ControlRegisters == UNION {Range(Recipe[k]) : k \in DOMAIN Recipe}
Registers == ControlRegisters \cup IoRegisters

VARIABLES
    in,        \* input registers of the controller: who wrote what
    out,       \* output registers: the call whose branch wrote them
    log,       \* the control functions called so far
    pc,        \* the client: "idle", "wait" for DONE, "read" the answer
    ret,       \* what the last call returned, by the writer of each register
    executing, \* executing_cmd of the script
    ready,     \* output_int_register_0 is RDY
    done,      \* the last call that process_cmd has gone through
    used,      \* the arguments it passed on, with the registers they came from
    link,      \* the connection of RTDEIOInterface
    levels,    \* digital outputs of the controller
    analog,    \* analog outputs: the IO call that set them, voltage or current
    asked,     \* history: the levels and analog values last asked for
    io         \* IO calls and losses of the connection so far

controlVars == <<out, log, pc, ret, executing, ready, done, used>>
ioVars == <<link, levels, analog, asked, io>>
vars == <<in, controlVars, ioVars>>

Untouched == [who |-> "nobody", call |-> 0, field |-> <<"none", 0>>]

Init ==
    /\ in = [[r \in Registers |-> Untouched] EXCEPT ![IntReg(0)].field = <<"NO_CMD", 0>>]
    /\ out = [r \in OutInt \cup OutDoubles |-> 0]
    /\ log = <<>>
    /\ pc = "idle"
    /\ ret = [call |-> 0, from |-> {}]
    /\ executing = FALSE
    /\ ready = TRUE
    /\ done = 0
    /\ used = {}
    /\ link = "up"
    /\ levels = [b \in Banks |-> [k \in 0..7 |-> FALSE]]
    /\ analog = [k \in 0..1 |-> [by |-> 0, type |-> "current"]]
    /\ asked = [levels |-> levels, analog |-> analog]
    /\ io = 0

Within == Len(log) + io < MaxOps

\* The controller's RTDE server stores a package by its recipe; one of another
\* size than the recipe it throws away.
Unpack(recipe, who, call, fields) ==
    IF Len(fields) # Len(recipe) THEN in
    ELSE [r \in Registers |->
             IF r \in Range(recipe)
             THEN [who |-> who, call |-> call,
                   field |-> fields[CHOOSE k \in DOMAIN recipe : recipe[k] = r]]
             ELSE in[r]]

(* The client and the script *)

Call(f) ==
    /\ pc = "idle" /\ ready
    /\ Len(log) < MaxCalls /\ Within
    /\ log' = Append(log, f)
    /\ in' = Unpack(Recipe[f.recipe], "control", Len(log'), Pack(f))
    /\ pc' = IF f.type \in HostContinuous THEN "read" ELSE "wait"
    /\ UNCHANGED <<out, ret, executing, ready, done, used, ioVars>>

\* verifyValueIsWithin throws before anything is sent.
Reject(f) ==
    /\ pc = "idle" /\ f.checked
    /\ Len(log) < MaxCalls /\ Within
    /\ log' = Append(log, f)
    /\ ret' = [call |-> Len(log'), from |-> {}]
    /\ UNCHANGED <<in, out, pc, executing, ready, done, used, ioVars>>

\* sendClearCommand: NO_CMD through recipe 4.
ClearCommand == in' = Unpack(Recipe[4], "control", Len(log), << <<"NO_CMD", 0>> >>)

Answered(f) == ret' = [call |-> Len(log), from |-> {out[r] : r \in f.answer}]

\* Mutant: the wait for DONE left out.
FinishEarly ==
    /\ pc = "wait"
    /\ pc' = "idle"
    /\ ClearCommand
    /\ Answered(Last(log))
    /\ UNCHANGED <<out, log, executing, ready, done, used, ioVars>>

Finish ==
    /\ pc = "wait" /\ done = Len(log)
    /\ pc' = "idle"
    /\ ClearCommand
    /\ Answered(Last(log))
    /\ UNCHANGED <<out, log, executing, ready, done, used, ioVars>>

FinishContinuous ==
    /\ pc = "read"
    /\ pc' = "idle"
    /\ Answered(Last(log))
    /\ UNCHANGED <<in, out, log, executing, ready, done, used, ioVars>>

\* A call that does not get RDY within 3 s clears the register and gives up.
ReadyTimeout ==
    /\ pc = "idle" /\ ~ready
    /\ ClearCommand
    /\ UNCHANGED <<controlVars, ioVars>>

Cmd == in[IntReg(0)].field[1]

\* process_cmd of the command in the register.
ProcessCmd ==
    LET b == Uploaded(Cmd)
    IN  /\ used' = {[as |-> u[1], reg |-> in[u[2]]] : u \in b.uses}
        /\ out' = [r \in DOMAIN out |->
                       IF r \in b.writes THEN in[IntReg(0)].call ELSE out[r]]
        /\ done' = in[IntReg(0)].call

ScriptIdle ==
    /\ Cmd = "NO_CMD"
    /\ executing \/ ~ready
    /\ executing' = FALSE
    /\ ready' = TRUE
    /\ UNCHANGED <<in, out, log, pc, ret, done, used, ioVars>>

ScriptRealtimeCmd ==
    /\ Cmd \in ScriptRealtime
    /\ ProcessCmd
    /\ ready' = TRUE
    /\ UNCHANGED <<in, log, pc, ret, executing, ioVars>>

ScriptRegularCmd ==
    /\ Cmd \notin ScriptRealtime \cup {"NO_CMD"}
    /\ ~executing
    /\ ProcessCmd
    /\ executing' = TRUE
    /\ ready' = FALSE
    /\ UNCHANGED <<in, log, pc, ret, ioVars>>

(* RTDEIOInterface *)

Bit(k, byte) == (byte \div 2^k) % 2 = 1
\* Mutant: the number of the output taken modulo 8.
MaskModulo(id) == 2^(id % 8)
\* static_cast<uint8_t>(1u << output_id)
Mask(id) == (2^id) % 256

\* RTDE::sendAll is silent without a connection.  A write to a connection that
\* has broken vanishes or throws; sendCommand catches that and disconnects, but
\* the session is CONNECTED and not STARTED, so that disconnect sends a pause
\* first and throws again.  Nothing is sent a second time in either case.
IoSends ==
    /\ Within
    /\ io' = io + 1
    /\ link = "up"
    /\ UNCHANGED link
IoIsLost ==
    /\ Within
    /\ io' = io + 1
    /\ link # "up"
    /\ UNCHANGED <<in, controlVars, link, levels, analog, asked>>

IoWrites(recipe) ==
    in' = Unpack(recipe, "io", io', [k \in DOMAIN recipe |-> <<"io", k>>])

SetDigitalOut(bank, id, level) ==
    LET value == IF level THEN Mask(id) ELSE 0
    IN  /\ IoSends
        /\ IoWrites(IoDigitalRecipe(bank))
        /\ levels' = [levels EXCEPT ![bank] =
                         [k \in 0..7 |-> IF Bit(k, Mask(id)) THEN Bit(k, value) ELSE @[k]]]
        /\ asked' = [asked EXCEPT !.levels[bank] =
                         [k \in 0..7 |-> IF k = id THEN level ELSE @[k]]]
        /\ UNCHANGED <<controlVars, analog>>

\* setAnalogOutputVoltage and setAnalogOutputCurrent.  Only the field of the
\* output that is named is set; the other one is sent uninitialised (0 stands for
\* that value) and masked out.  std_analog_output_type_ has a bit for each output
\* like the mask, but is 1 for a voltage on either of them.
SetAnalogOutput(id, type) ==
    LET sent == [k \in 0..1 |-> IF k = id THEN io + 1 ELSE 0]
        types == IF type = "voltage" THEN 1 ELSE 0
    IN  /\ IoSends
        /\ IoWrites(IoAnalogRecipe)
        /\ analog' = [k \in 0..1 |->
                         IF Bit(k, Mask(id))
                         THEN [by |-> sent[k],
                               type |-> IF Bit(k, types) THEN "voltage" ELSE "current"]
                         ELSE analog[k]]
        /\ asked' = [asked EXCEPT !.analog =
                         [k \in 0..1 |-> IF k = id THEN [by |-> io + 1, type |-> type] ELSE @[k]]]
        /\ UNCHANGED <<controlVars, levels>>

SetSpeedSlider ==
    /\ IoSends
    /\ IoWrites(IoSliderRecipe)
    /\ UNCHANGED <<controlVars, levels, analog, asked>>

\* Another number than 18 to 22 throws.
SetInputIntRegister(n) ==
    /\ n \in 18..22
    /\ IoSends
    /\ IoWrites(IoIntRecipe(n))
    /\ UNCHANGED <<controlVars, levels, analog, asked>>

SetInputDoubleRegister(n) ==
    /\ n \in 18..22
    /\ IoSends
    /\ IoWrites(IoDoubleRecipe(n))
    /\ UNCHANGED <<controlVars, levels, analog, asked>>

IoLinkChanges ==
    /\ Within
    /\ io' = io + 1
    /\ link = "up"
    /\ link' \in {"broken", "down"}      \* the network, or disconnect()
    /\ UNCHANGED <<in, controlVars, levels, analog, asked>>

IoReconnect ==
    /\ Within
    /\ io' = io + 1
    /\ link' = "up"
    /\ UNCHANGED <<in, controlVars, levels, analog, asked>>

Next ==
    \/ \E f \in Functions : Call(f) \/ Reject(f)
    \/ Finish \/ FinishContinuous \/ ReadyTimeout
    \/ ScriptIdle \/ ScriptRealtimeCmd \/ ScriptRegularCmd
    \/ \E bank \in Banks, id \in IoIds, level \in BOOLEAN : SetDigitalOut(bank, id, level)
    \/ \E id \in IoIds, type \in {"voltage", "current"} : SetAnalogOutput(id, type)
    \/ SetSpeedSlider
    \/ \E n \in {18, 22} : SetInputIntRegister(n) \/ SetInputDoubleRegister(n)
    \/ IoIsLost \/ IoLinkChanges \/ IoReconnect

Spec == Init /\ [][Next]_vars
-----------------------------------------------------------------------------
\* Types of the state.
TypeOK ==
    /\ DOMAIN in = Registers
    /\ \A r \in Registers : in[r].who \in {"nobody", "control", "io"}
    /\ out \in [OutInt \cup OutDoubles -> 0..MaxCalls]
    /\ log \in Seq(AllFunctions)
    /\ pc \in {"idle", "wait", "read"}
    /\ {executing, ready} \subseteq BOOLEAN
    /\ done \in 0..MaxCalls
    /\ link \in {"up", "broken", "down"}
    /\ levels \in [Banks -> [0..7 -> BOOLEAN]]

Genuine(u) == u.reg.who = "control" /\ u.reg.call = done /\ u.reg.field = u.as

\* What getForwardKinematics with a q and no tcp_offset leaves out, though the
\* branch reads it: see ArgumentsArriveAlways.
Unsent(f, as) == f.fn = "getForwardKinematics(q)" /\ as[1] = "tcp_offset"

\* The arguments of the last command that process_cmd went through were all
\* sent by the call that sent the command, and each as what it is used for:
\* recipes, packing order and register numbers of the four tables agree. Only the
\* tcp_offset of getForwardKinematics(q) is not sent.
ArgumentsArrive == done # 0 => \A u \in used : Genuine(u) \/ Unsent(log[done], u.as)

\* The same for every function.
ArgumentsArriveAlways == \A u \in used : Genuine(u)

\* A function that waits for DONE returns registers that its own command has
\* written, if the controller is recent enough to keep the branch's lines: the
\* table of what process_cmd writes and the table of what the host reads agree.
AnswerIsWritten ==
    LET f == log[ret.call]
    IN  (ret.call # 0 /\ ret.from # {} /\ f.type \notin HostContinuous
            /\ Keeps(Version, ScriptBranch(f.type).need))
        => ret.from = {ret.call}

\* The two interfaces never write each other's registers, whatever order their
\* packages come in: nothing an IO call does can look like a command or change
\* the arguments of one.
Separate ==
    \A r \in Registers :
        in[r].who = "io" <=> r \notin ControlRegisters /\ in[r] # Untouched

\* What setAnalogOutputVoltage gets wrong: see AnalogTypesAsAsked.
Unshifted(k) == k = 1 /\ asked.analog[k].type = "voltage"

\* Every output has the level or value last sent for it and the type asked for:
\* the masks keep a setter from disturbing the other outputs of its bank, an
\* analog field that was not initialised never reaches an output, and an output
\* number past the byte touches nothing.  Only a voltage on analog output 1 is
\* not a voltage.
OutputsAsAsked ==
    /\ levels = asked.levels
    /\ \A k \in 0..1 : /\ analog[k].by = asked.analog[k].by
                       /\ analog[k].type = asked.analog[k].type \/ Unshifted(k)

\* The same for every analog output.
AnalogTypesAsAsked == \A k \in 0..1 : analog[k].type = asked.analog[k].type
=============================================================================
