SPECIFICATION Spec
CONSTANTS
    Lines <- MCLines
    MaxRaises = 5
INVARIANTS Consistent
PROPERTIES RequestsAreHandled WorkIsDone
CHECK_DEADLOCK FALSE
