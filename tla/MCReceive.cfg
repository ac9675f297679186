SPECIFICATION Spec
CONSTANTS
    EmptyPolls = 1
    MaxReconnects = 2
    MaxRecordings = 2
INVARIANTS SocketIsThere NoWriteAfterClose
PROPERTIES LossIsNoticed WaitReturns
CHECK_DEADLOCK FALSE
