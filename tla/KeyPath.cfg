SPECIFICATION Spec
CONSTANTS
    QSize = 3
    Slots = 3
    MaxEvents = 3
    MaxTicks = 1
INVARIANTS Consistent InOrder ShiftsFollowKeys
PROPERTIES KeysArrive
CHECK_DEADLOCK FALSE
