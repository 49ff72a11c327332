CONSTANTS
    MaxQueue = 1
    MaxJobs = 2
    MaxAwaits = 2
    MaxRuns = 1
    Tasks = {t1, t2}
    Others = {p}
    Ready = ready
    MayTimeOut = TRUE
    MayNest = TRUE
    objects = objects
    shapes = shapes
    NoSpace = NoSpace
SPECIFICATION BothSpec
INVARIANTS JobsRunInOrder OneParkingPerTask NothingLeftAtExit
PROPERTIES AwaitsResume CheckpointEnds HeapUnderStaleRoots
CHECK_DEADLOCK FALSE
