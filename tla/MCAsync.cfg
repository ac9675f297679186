SPECIFICATION FairSpec
CONSTANTS
    Ids = 3
    Counts = 4
    Waypoints = 2
    MaxOps = 3
INVARIANTS TypeOK OneMover RunningIsAnswered WordIsDecoded EqualMeansUnchanged
PROPERTY RunningEnds
