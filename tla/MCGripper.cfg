SPECIFICATION Spec
CONSTANTS
    t1 = t1
    t2 = t2
    Threads <- TwoThreads
    Calls <- CallsOf
    MaxPos = 2
    Slack = 1
    MaxCalls = 2
PROPERTIES AnswersMatch DoneMeansThere OpenedIsOpen CalibrationCoversTheEnds CallReturns
CHECK_DEADLOCK FALSE
