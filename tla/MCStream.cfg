SPECIFICATION Spec
CONSTANTS
    OutputNames <- Names
    MaxPackages = 3
    MaxTexts = 1
    MaxReads = 2
    MaxReconnects = 1
INVARIANTS BufferAligned FirstStateMeansData NewestWhenQuiet
PROPERTIES FeedIsImplemented
CHECK_DEADLOCK FALSE
