CONSTANTS
    Objects = {o1, o2, o3}
    Keys = {a, b}
    Values = {x, y}
    Undefined = undef
    None = none
    Hole = hole
    MaxShapes = 4
    StubEntries = 1
    IcEntries = 1
    Programs <- Chains
    MayCycle = FALSE
    Redefines <- Descs
SYMMETRY Sym
SPECIFICATION Spec
INVARIANTS ReadsSeeTheWalk
CHECK_DEADLOCK FALSE
