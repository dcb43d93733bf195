SPECIFICATION FairSpec
CONSTANTS
    p1 = p1
    p2 = p2
    Procs <- Two
    CanPark <- Two
    Methods <- ThreadAndTask
    Waits <- ParkOrAwait
    MaxCalls <- ThriceP1
    MaxSpurious = 1
INVARIANTS TypeOK NoLostUnpark NoLostNotification
PROPERTIES OnlyNotified NotifiedWaitsReturn
CHECK_DEADLOCK FALSE
