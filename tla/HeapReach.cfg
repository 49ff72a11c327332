CONSTANTS
    objects = objects
    shapes = shapes
    NoSpace = NoSpace
    Spaces <- MCSpaces
    ObjectSpace = objects
    ShapeSpace = shapes
    ObjectSlots = 1
    ShapeSlots = 3
    MaxCap = 4
    Cap <- MCCap
    SweepBudget = 2
    MaxRefs = 1
    MaxRoots = 2
    KeepStale = FALSE
SPECIFICATION Spec
INVARIANTS NoDangling FreeListExact SweepComplete
PROPERTIES AllocatesDeadSlot ImplementsManagedHeap
CHECK_DEADLOCK FALSE
