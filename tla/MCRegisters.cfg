SPECIFICATION Spec
CONSTANTS
    Version <- Version510
    Functions <- AllFunctions
    IoIds = {1, 8}
    MaxCalls = 2
    MaxOps = 3
INVARIANTS ArgumentsArrive AnswerIsWritten Separate OutputsAsAsked
CHECK_DEADLOCK FALSE
