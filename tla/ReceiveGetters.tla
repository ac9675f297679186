--------------------------- MODULE ReceiveGetters ---------------------------
(***************************************************************************)
(* What the getters of RTDEReceiveInterface make of the RobotState: which  *)
(* variables setupRecipes asks the controller for, which key and type each *)
(* getter asks the RobotState for, and the one getter with a memory, the   *)
(* combined speed scaling, which ramps up after a pause.                   *)
(***************************************************************************)
EXTENDS RobotState

CONSTANTS
    Versions,    \* versions of the controller, <<major, minor, bugfix>>
    Targets      \* values of speed_scaling * target_speed_fraction, in steps of 0.01

\* The controllers of the CB3 and of the e-Series; a speed is not negative.
ASSUME GettersAssumption ==
    /\ Versions \subseteq {3, 5} \X Nat \X Nat
    /\ Targets \subseteq Nat /\ 0 \in Targets

VARIABLES
    version, upper,     \* the controller's version, use_upper_range_registers_
    call,               \* the last getter called, and what came of it
    runtime,            \* runtime_state
    pausing, combined,  \* pausing_state_, speed_scaling_combined_
    rising              \* a history variable: since a pause that a call has seen,
                        \* no value returned has reached the target it was
                        \* compared with, and whether a call saw the target drop

getterVars == <<version, upper, call, runtime, pausing, combined, rising>>

\* STOPPING, STOPPED and PAUSING are all treated alike.
RuntimeStates == {"STOPPED", "PLAYING", "PAUSED", "RESUMING"}

(* setupRecipes *)

major == version[1]
minor == version[2]
bugfix == version[3]

Registers(offset) ==
    {OutIntReg(offset + n) : n \in {2} \cup 12..19} \cup {OutDoubleReg(offset + n) : n \in 12..19}

AlwaysThere == {"timestamp", "target_q", "target_qd", "target_qdd", "target_current",
    "target_moment", "actual_q", "actual_qd", "actual_current", "joint_control_output",
    "actual_TCP_pose", "actual_TCP_speed", "actual_TCP_force", "target_TCP_pose",
    "target_TCP_speed", "actual_digital_input_bits", "joint_temperatures",
    "actual_execution_time", "robot_mode", "joint_mode", "safety_mode",
    "actual_tool_accelerometer", "speed_scaling", "target_speed_fraction", "actual_momentum",
    "actual_main_voltage", "actual_robot_voltage", "actual_robot_current",
    "actual_joint_voltage", "actual_digital_output_bits", "runtime_state",
    "standard_analog_input0", "standard_analog_input1", "standard_analog_output0",
    "standard_analog_output1", "robot_status_bits", "safety_status_bits"}

Since(condition, names) == IF condition THEN names ELSE {}

RegistersAlwaysLower ==
    IF upper
    THEN Since((major = 3 /\ minor >= 9) \/ (major = 5 /\ minor >= 3), Registers(0))
    ELSE Since(major >= 3 /\ minor >= 4, Registers(0))

RegisterVariables ==
    IF upper
    THEN Since((major = 3 /\ minor >= 9) \/ (major = 5 /\ minor >= 3), Registers(24))
    ELSE Since(major >= 3 /\ minor >= 4, Registers(0))

\* The variables of the recipe when the client names none.
Variables ==
    AlwaysThere
    \cup Since(major = 5 /\ minor >= 9, {"ft_raw_wrench"})
    \cup Since(\/ major = 3 /\ minor >= 11
               \/ major = 5 /\ minor >= 5 /\ bugfix >= 1
               \/ major = 5 /\ minor >= 6, {"payload", "payload_cog"})
    \cup Since((major = 3 /\ minor >= 15) \/ (major = 5 /\ minor >= 11), {"payload_inertia"})
    \cup RegisterVariables

\* The getters, in the order of the source: the key each one asks for and the
\* type it asks for it as.
As(type, names) == {<<n, type>> : n \in names}

\* getTimestamp to getDigitalInState.
MotionGetters ==
    As("double", {"timestamp"})
    \cup As("vector<double>", {"target_q", "target_qd", "target_qdd", "target_current",
        "target_moment", "actual_q", "actual_qd", "actual_current", "joint_control_output",
        "actual_TCP_pose", "actual_TCP_speed", "actual_TCP_force", "target_TCP_pose",
        "target_TCP_speed"})
    \cup As("uint64", {"actual_digital_input_bits"})

\* getJointTemperatures to getDigitalOutState.
StatusGetters ==
    As("vector<double>", {"joint_temperatures", "actual_tool_accelerometer",
        "actual_joint_voltage"})
    \cup As("double", {"actual_execution_time", "speed_scaling", "target_speed_fraction",
        "actual_momentum", "actual_main_voltage", "actual_robot_voltage",
        "actual_robot_current"})
    \cup As("int32", {"robot_mode", "safety_mode"})
    \cup As("uint32", {"robot_status_bits", "safety_status_bits"})
    \cup As("uint64", {"actual_digital_output_bits"})
    \cup As("vector<int32>", {"joint_mode"})

\* getRuntimeState to getPayloadInertia, and getFtRawWrench.
DeviceGetters ==
    As("uint32", {"runtime_state"})
    \cup As("double", {"standard_analog_input0", "standard_analog_input1",
        "standard_analog_output0", "standard_analog_output1", "payload"})
    \cup As("vector<double>", {"payload_cog", "payload_inertia", "ft_raw_wrench"})

Getters == MotionGetters \cup StatusGetters \cup DeviceGetters

\* getOutputIntRegister and getOutputDoubleRegister, for the numbers they accept.
RegisterRange == IF upper THEN 36..43 ELSE 12..19
RegisterGetters ==
    {<<OutIntReg(n), "int32">> : n \in RegisterRange}
    \cup {<<OutDoubleReg(n), "double">> : n \in RegisterRange}

-----------------------------------------------------------------------------
GettersInit ==
    /\ version \in Versions /\ upper \in BOOLEAN
    /\ call = <<"none", "none">>
    /\ runtime = "PLAYING"
    /\ pausing = "RUNNING" /\ combined = 0 /\ rising = "no"

\* A package of the controller, external.
Package ==
    /\ runtime' \in RuntimeStates
    /\ UNCHANGED <<version, upper, call, pausing, combined, rising>>

\* RobotState::getStateData: initRobotState has made an entry for the variables
\* of the recipe that the table knows, strict_get insists on the type.
Ask(key, type) ==
    IF key \notin Variables \cap StateTypes THEN "throws"
    ELSE IF TypeOf(key) # type THEN "bad_get" ELSE "value"

Get(getter) ==
    /\ call' = <<getter[1], Ask(getter[1], getter[2])>>
    /\ UNCHANGED <<version, upper, runtime, pausing, combined, rising>>

PausingAfter == CASE runtime = "PAUSED" -> "PAUSED"
                  [] runtime = "PLAYING" /\ pausing = "PAUSED" -> "RAMPUP"
                  [] OTHER -> pausing

RampFromLast(p) == combined

\* Where the ramp stands before this call.
RampFrom(p) == IF p = "RAMPUP" /\ pausing = "PAUSED" THEN 0 ELSE combined

RampCapped(ramp, now) == IF ramp <= now THEN ramp ELSE now

\* The program plays again after a pause: the ramp starts with this call.
Resumed == runtime = "PLAYING" /\ pausing = "PAUSED"

\* The value returned is still below the target that the ramp was compared with.
RisingAfter(value, now, later) ==
    CASE ~ ((Resumed \/ rising # "no") /\ runtime # "PAUSED" /\ value < now) -> "no"
      [] later < now \/ rising = "dropped" -> "dropped"
      [] OTHER -> "steady"

\* getSpeedScalingCombined; the increment 0.01 is one step.  The product of the
\* two speed variables is read twice, and the receive thread may have stored
\* packages between the reads: they are any two products.
GetSpeedScalingCombined ==
    /\ \E now, later \in Targets :
           /\ LET p == PausingAfter
                  ramp == RampFrom(p) + 1
              IN  CASE p = "RAMPUP" ->
                           /\ combined' = RampCapped(ramp, now)
                           /\ pausing' = IF ramp > later THEN "RUNNING" ELSE "RAMPUP"
                    [] p # "RAMPUP" /\ runtime = "RESUMING" -> combined' = 0 /\ pausing' = p
                    [] OTHER -> combined' = now /\ pausing' = p
           /\ rising' = RisingAfter(combined', now, later)
    /\ UNCHANGED <<version, upper, call, runtime>>

GettersNext ==
    \/ Package
    \/ \E g \in Getters \cup RegisterGetters : Get(g)
    \/ GetSpeedScalingCombined

GettersSpec == GettersInit /\ [][GettersNext]_getterVars

-----------------------------------------------------------------------------
(* Properties *)

\* The variables have their types; the combined speed is never more than the
\* largest target.
GettersTypeOK ==
    /\ version \in Versions /\ upper \in BOOLEAN
    /\ call[2] \in {"none", "value", "throws", "bad_get"}
    /\ runtime \in RuntimeStates
    /\ pausing \in {"PAUSED", "RUNNING", "RAMPUP"}
    /\ \E v \in Targets : combined \in 0..v

\* The recipe, the type table and the getters agree, for every version and both
\* register ranges: a getter asks for its variable with the type it is stored
\* as, and throws only for a variable that setupRecipes leaves out for the
\* version.
GettersServed ==
    /\ call[2] # "bad_get"
    /\ call[2] = "throws" =>
          \/ call[1] = "ft_raw_wrench" /\ ~ (major = 5 /\ minor >= 9)
          \/ call[1] \in {"payload", "payload_cog"} /\ minor < 11
          \/ call[1] = "payload_inertia" /\ minor < 15
          \/ call[1] \notin AlwaysThere /\ minor < IF upper /\ major = 3 THEN 9 ELSE 4

Grows == combined' <= 1 + (IF Resumed THEN 0 ELSE combined)

\* After a pause that a call of getSpeedScalingCombined has seen, the first value
\* is at most one increment and every later one at most one increment more than
\* the one before, until a call returns the whole target it read, however the
\* target moves from call to call and whatever the runtime state does but pause
\* again.  It is the end test of the ramp that this rests on: the ramp must not end
\* while a value is still below the target.  The one case in which it does is
\* excepted: the test reads the target a second time, and a package that lowers it
\* between the two reads ("dropped") ends the ramp early.
RampIsGradual ==
    [][GetSpeedScalingCombined /\ runtime # "PAUSED" /\ (Resumed \/ rising = "steady")
            => Grows]_getterVars

\* The same without the exception.  It does not hold (MCRampReads.cfg): with a
\* target of 3 at the first read and 0 at the second the ramp ends at 1, and the
\* next call returns 3.
RampEndsAtTheTarget ==
    [][GetSpeedScalingCombined /\ runtime # "PAUSED" /\ (Resumed \/ rising # "no")
            => Grows]_getterVars
=============================================================================
