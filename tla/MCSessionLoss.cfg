SPECIFICATION Spec
CONSTANTS
    MaxThreads = 2
    MaxTexts = 1
PROPERTY SafeToAccess
CHECK_DEADLOCK FALSE
