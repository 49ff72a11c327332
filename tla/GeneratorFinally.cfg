CONSTANTS
    MaxRequests = 3
    MaxAwaits = 2
    MaxFinally = 1
    MaxDepth = 2
    CallerDepths = {0, 2}
    Kinds = {"next", "return", "throw"}
SPECIFICATION Spec
INVARIANTS FinalizersRun
CHECK_DEADLOCK FALSE
