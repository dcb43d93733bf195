SPECIFICATION Spec
CONSTANTS
    p1 = p1
    p2 = p2
    p3 = p3
    Procs <- Three
    CanPark <- Three
    Waits <- AnyWait
    MaxCalls <- ThriceP1
    MaxSpurious = 1
INVARIANTS TypeOK NoLostNotification
PROPERTIES OnlyNotified HonestResult
CHECK_DEADLOCK FALSE
