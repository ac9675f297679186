SPECIFICATION Spec
CONSTANTS
    MaxThreads = 2
    MaxTexts = 1
INVARIANTS StartedMeansSetUp SafeUntilLost ClosedMeansQuiet
PROPERTIES CallEnds
CONSTRAINT OverlapBound
CHECK_DEADLOCK FALSE
