SPECIFICATION Spec
CONSTANTS
    Calls = {"GET_TCP_OFFSET", "GET_JOINT_TORQUES"}
    Faults = {}
    UrCap = FALSE
    MaxCalls = 2
    MaxIncidents = 0
    MaxWrites = 2
    MaxPackages = 1
INVARIANT RealtimeAnswerIsFresh
