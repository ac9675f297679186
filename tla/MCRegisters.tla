---------------------------- MODULE MCRegisters ----------------------------
EXTENDS CommandRegisters

Version510 == <<5, 10>>
Version35 == <<3, 5>>

\* Functions that leave every register full, and the one whose second argument
\* may be missing.
KinematicsOnly == Named({"forceMode", "poseTrans", "getForwardKinematics(q)",
                         "getForwardKinematics(q, tcp_offset)", "jogStart", "servoJ"})
=============================================================================
