SPECIFICATION Spec
CONSTANTS
    Ops = {"play", "running", "powerOn", "isInRemoteControl", "getSerialNumber"}
    MaxRequests = 4
INVARIANTS AnswerIsOwn TimeoutIsOwn
PROPERTY CallReturns
CHECK_DEADLOCK FALSE
