----------------------------- MODULE RobotState -----------------------------
(***************************************************************************)
(* RobotState::state_types_: the variables that the interfaces can receive *)
(* from the controller and the type each one is unpacked as.               *)
(***************************************************************************)
EXTENDS Integers, Sequences, TLC

OutIntReg(n) == "output_int_register_" \o ToString(n)
OutDoubleReg(n) == "output_double_register_" \o ToString(n)

Vector6d == {"target_q", "target_qd", "target_qdd", "target_current", "target_moment",
    "actual_q", "actual_qd", "actual_qdd", "actual_current", "actual_moment",
    "joint_control_output", "actual_TCP_pose", "actual_TCP_speed", "actual_TCP_force",
    "target_TCP_pose", "target_TCP_speed", "joint_temperatures", "actual_joint_voltage",
    "ft_raw_wrench", "payload_inertia"}
Vector3d == {"actual_tool_accelerometer", "payload_cog", "elbow_position", "elbow_velocity"}
PlainDouble == {"timestamp", "actual_execution_time", "speed_scaling", "target_speed_fraction",
    "actual_momentum", "actual_main_voltage", "actual_robot_voltage", "actual_robot_current",
    "standard_analog_input0", "standard_analog_input1", "standard_analog_output0",
    "standard_analog_output1", "payload"}
Double == PlainDouble \cup {OutDoubleReg(n) : n \in 0..47}
PlainInt32 == {"robot_mode", "safety_mode"}
Int32 == PlainInt32 \cup {OutIntReg(n) : n \in 0..47}
UInt32 == {"runtime_state", "robot_status_bits", "safety_status_bits",
    "output_bit_registers0_to_31", "output_bit_registers32_to_63"}
UInt64 == {"actual_digital_input_bits", "actual_digital_output_bits"}
Vector6Int32 == {"joint_mode"}

\* The names that are not put together from a number.
Plain == Vector6d \cup Vector3d \cup PlainDouble \cup PlainInt32 \cup UInt32
           \cup UInt64 \cup Vector6Int32

\* A fact about the strings, which the provers do not look into: no register
\* has the name of another variable or of a register of the other type.
ASSUME RegisterNames ==
    \A m, n \in 0..47 :
        /\ OutIntReg(m) \notin Plain /\ OutDoubleReg(n) \notin Plain
        /\ OutIntReg(m) # OutDoubleReg(n)

\* The names that receiveData knows how to unpack.
Unpacked == Vector6d \cup Vector3d \cup Double \cup Int32 \cup UInt32
              \cup UInt64 \cup Vector6Int32

\* The keys of RobotState::state_types_: two names less.
StateTypes == Unpacked \ {"elbow_position", "elbow_velocity"}

\* Words that the unpacking of a variable consumes.
Words(n) == CASE n \in Vector6d -> 12
              [] n \in Vector3d -> 6
              [] n \in Double \cup UInt64 -> 2
              [] n \in Vector6Int32 -> 6
              [] n \in Int32 \cup UInt32 -> 1

TypeOf(n) == CASE n \in Vector6d \cup Vector3d -> "vector<double>"
               [] n \in Double -> "double"
               [] n \in Int32 -> "int32"
               [] n \in UInt32 -> "uint32"
               [] n \in UInt64 -> "uint64"
               [] n \in Vector6Int32 -> "vector<int32>"
=============================================================================
