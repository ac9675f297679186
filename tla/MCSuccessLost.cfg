SPECIFICATION Spec
CONSTANTS
    Calls = {"READ_CONTACT_DETECTION", "START_CONTACT_DETECTION"}
    Faults = {"contact"}
    UrCap = FALSE
    MaxCalls = 2
    MaxIncidents = 1
    MaxWrites = 2
    MaxPackages = 1
INVARIANT SuccessMeansExecutedAlways
