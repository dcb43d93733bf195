SPECIFICATION WhileSpec
CONSTANTS
    p1 = p1
    p2 = p2
    p3 = p3
    Procs <- Three
    CanPark <- Three
    Consumers <- NotP1
    Waits <- Tasks
    MaxCalls <- Twice
    MaxSpurious = 0
INVARIANTS OneIsWokenUp
CHECK_DEADLOCK FALSE
