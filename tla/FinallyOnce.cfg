CONSTANTS
    MaxPromises = 3
    MaxOps = 3
    Plain = {v}
    Inert = {}
    Thenables = {}
    Poisoned = {}
    Undefined = undefined
    TypeErrorValue = typeError
    Operations = {"construct", "settle", "finally"}
SPECIFICATION Spec
INVARIANT FinallyRunsOnce
CHECK_DEADLOCK FALSE
