CONSTANTS
    Unused = Unused
    undefined = undefined
    absent = absent
    hole = hole
    null = null
    none = none
    throw = throw
    ancestor = ancestor
    aKey = aKey
    aValue = aValue
    getter = getter
    Kinds = {"all", "allSettled", "any", "race", "allKeyed", "allSettledKeyed",
             "try", "withResolvers"}
    MaxElements = 3
    MaxNesting = 2
    Workers = {w1, w2}
    Tests <- Suite
    Window = 4
    Grace = 1
    Lag = 0
    Sweeps = 2
    MaxFaults = 1
    Objects = {objA, objB}
    Keys = {keyX, keyY}
    Functions = {getter}
    Nobody = none
    Definitions <- GetterOnly
    NoValue = hole
    SpillAt = 2
    MaxShapes = 4
    MaxCalls = 4
    MayRepeat = FALSE
SPECIFICATION LibrarySpec
INVARIANTS CombinatorsSettle HelpersGiveWhatTheyPull ArrayAsWritten
INVARIANTS ProxyKeepsItsWord SlotsAddressable StringsKept LoadsInOrder SweepSound
PROPERTIES OverIsOver
CHECK_DEADLOCK FALSE
