CONSTANTS
    MaxPromises = 3
    MaxOps = 4
    Plain = {v}
    Inert = {}
    Thenables = {}
    Poisoned = {}
    Undefined = undefined
    TypeErrorValue = typeError
    Operations = {"construct", "settle"}
SPECIFICATION Spec
INVARIANT FirstResolutionWins
CHECK_DEADLOCK FALSE
