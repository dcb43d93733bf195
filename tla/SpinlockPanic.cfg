SPECIFICATION Spec
CONSTANTS
    p1 = p1
    p2 = p2
    p3 = p3
    Procs <- Three
    MaxCalls = 2
INVARIANTS ReleasedEvenIfPanics
CHECK_DEADLOCK FALSE
