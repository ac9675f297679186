------------------------------ MODULE MCStream ------------------------------
EXTENDS RtdeStream

\* A scalar, a vector of three, a name that the table lacks and one behind it.
Names == <<"robot_mode", "payload_cog", "elbow_position", "timestamp">>
=============================================================================
