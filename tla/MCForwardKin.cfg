SPECIFICATION Spec
CONSTANTS
    Version <- Version510
    Functions <- KinematicsOnly
    IoIds = {0}
    MaxCalls = 2
    MaxOps = 2
INVARIANT ArgumentsArriveAlways
CHECK_DEADLOCK FALSE
