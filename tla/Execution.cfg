CONSTANTS
    Compile <- compile_unit
    Expected <- Meaning
    Programs <- AllPrograms
    MaxDecisions = 6
    MaxThrows = 2
    Unused = Unused
    MaxFrames = 3
    MaxSeams = 1
    MaxCalls = 4
    Deadline = TRUE
SPECIFICATION AnySpec
INVARIANTS ProgramsRunAsWritten CleanUpNests ReferencesResolve CompiledRunsAsWritten
INVARIANTS CallsUnwind TiersAgree
PROPERTIES CallsKeepToTheirFloor
CHECK_DEADLOCK FALSE
