SPECIFICATION Spec
CONSTANTS
    sys = sys
    data = data
    Chunks <- MCChunks
    Sys = sys
    MaxWrites = 3
    MaxOpens = 2
    MaxFailures = 0
    CloseEarly = TRUE
    UserEarly = FALSE
    BadImports = FALSE
INVARIANTS SystemIsThere
CHECK_DEADLOCK FALSE
