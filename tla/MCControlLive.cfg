SPECIFICATION FairSpec
CONSTANTS
    Calls = {"GET_TCP_OFFSET", "SERVOJ", "START_CONTACT_DETECTION"}
    Faults = {"die", "contact"}
    UrCap = TRUE
    MaxCalls = 2
    MaxIncidents = 2
    MaxWrites = 2
    MaxPackages = 2
PROPERTIES UndisturbedCallReturns ReadyAgain
