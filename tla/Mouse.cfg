SPECIFICATION Spec
CONSTANTS
    Buttons = {"left"}
    Moves <- SomeMoves
    Modes <- SomeModes
    MQ = 2
    MaxEvents = 3
    MaxCalls = 2
INVARIANTS Consistent EachCountedOnce StuckOnlyIfDropped
PROPERTIES QueueDrains
CHECK_DEADLOCK FALSE
