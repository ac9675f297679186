SPECIFICATION FairSpec
CONSTANTS
    Calls = {"SERVOC"}
    Faults = {}
    UrCap = FALSE
    MaxCalls = 1
    MaxIncidents = 0
    MaxWrites = 2
    MaxPackages = 1
PROPERTY ReadyAgain
