----------------------------- MODULE MCGripper -----------------------------
EXTENDS RobotiqGripper

CONSTANTS t1, t2

\* One thread that prepares the gripper and one that reads; both move it.
TwoThreads == {t1, t2}
CallsOf == t1 :> {"move", "activate", "release"} @@ t2 :> {"move", "getvars"}
=============================================================================
