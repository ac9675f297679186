SPECIFICATION Spec
CONSTANTS
    Ids = 128
    Counts = 128
    Waypoints = 2
    MaxOps = 1
PROPERTY OperationIdStable
