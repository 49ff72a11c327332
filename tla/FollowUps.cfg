CONSTANTS
    MaxQueue = 1
    MaxJobs = 4
    MaxAwaits = 1
    MaxRuns = 1
    Tasks = {t1}
    Others = {p}
    Ready = ready
    MayTimeOut = FALSE
    MayNest = FALSE
SPECIFICATION Spec
INVARIANT FollowUpsRun
CHECK_DEADLOCK FALSE
