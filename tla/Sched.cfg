SPECIFICATION Spec
CONSTANTS
    Second = 10
    PitHz = 3
    Mega = 3
    Khz = 2
    IoCost = 1
    IntCost = 3
    Full = 3
    Reloads = {0, 2}
    KbdDelay = 1
    Waits = {0, 8}
    Abandons = FALSE
    Slices = {5, 8}
    MaskedHalt = FALSE
    MaxNs = 12
    MaxTicks = 4
    MaxResets = 1
INVARIANTS Consistent TimeIsCycles TicksOnGrid WaitsInFull
PROPERTIES NowNeverRunsBack SliceEnds
CHECK_DEADLOCK FALSE
