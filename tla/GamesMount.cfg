SPECIFICATION Spec
CONSTANTS
    a = a
    b = b
    first = first
    second = second
    Folders = {a, b}
    None = None
    NDisks = 2
    Connects = {first}
    MaxWrites = 2
    MaxOpens = 3
    MaxUser = 4
    MaxFailures = 2
    Impatient = FALSE
INVARIANTS Consistent OverlaysAreTheirFolders CleanIsSaved
PROPERTIES WritesAreSaved RunsAgain
CHECK_DEADLOCK FALSE
