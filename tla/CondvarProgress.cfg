SPECIFICATION FairSpec
CONSTANTS
    p1 = p1
    p2 = p2
    p3 = p3
    Procs <- Three
    CanPark <- NotP1
    Waits <- OneOfEach
    MaxCalls <- Twice
    MaxSpurious = 0
PROPERTIES NotifyAllWakes TimedWaitsEnd
CHECK_DEADLOCK FALSE
