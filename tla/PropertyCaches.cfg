CONSTANTS
    Objects = {o1, o2, o3}
    Keys = {a, b}
    Values = {x, y}
    Undefined = undef
    None = none
    Hole = hole
    MaxShapes = 4
    StubEntries = 1
    IcEntries = 1
    Programs <- Kinds
    MayCycle = FALSE
    Redefines <- Descs
SYMMETRY Sym
SPECIFICATION Spec
INVARIANTS SlotsInStep ReadsSeeTheWalkUnlessHoled
PROPERTIES OneObjectOnePropertyAStep IntegrityKept
CHECK_DEADLOCK FALSE
