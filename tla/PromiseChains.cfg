CONSTANTS
    MaxPromises = 3
    MaxOps = 5
    Plain = {v}
    Inert = {inert}
    Thenables = {}
    Poisoned = {}
    Undefined = undefined
    TypeErrorValue = typeError
    Operations = {"construct", "settle", "then"}
SPECIFICATION ChainSpec
INVARIANTS PassThroughKeepsOutcome NoStrandedRecord
PROPERTIES ImplementsContract ReactionsRun OutcomePropagates
CHECK_DEADLOCK FALSE
