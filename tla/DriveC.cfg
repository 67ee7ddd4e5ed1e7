SPECIFICATION Spec
CONSTANTS
    sys = sys
    data = data
    Chunks <- MCChunks
    Sys = sys
    MaxWrites = 4
    MaxOpens = 3
    MaxFailures = 1
    CloseEarly = TRUE
    UserEarly = FALSE
    BadImports = TRUE
INVARIANTS Consistent CleanIsSaved
PROPERTIES StoreNeverRegresses WritesAreSaved ImportEndsRunning
CHECK_DEADLOCK FALSE
