SPECIFICATION Spec
CONSTANTS
    Calls = {"GET_TCP_OFFSET", "SERVOJ", "START_CONTACT_DETECTION"}
    Faults = {"timeout", "stop", "die", "contact", "slice"}
    UrCap = FALSE
    MaxCalls = 3
    MaxIncidents = 2
    MaxWrites = 2
    MaxPackages = 1
INVARIANTS SuccessMeansExecuted AnswerIsFresh IdleMeansDone AtMostOnce
PROPERTIES InOrder ServiceIsImplemented
