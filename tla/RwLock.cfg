SPECIFICATION FairSpec
CONSTANTS
    p1 = p1
    p2 = p2
    p3 = p3
    Procs <- Three
    CanPark <- NotP1
    Methods <- OneOfEach
    LOCKED_WRITE = 3
    MaxCalls <- TwiceP1
    MaxSpurious = 1
INVARIANTS TypeOK LockWordCounts NoLostWakeup MainThreadNeverParks
PROPERTIES ImplementsRwLock HonestFailure EveryCallReturns ReadUnlocksReturn
CHECK_DEADLOCK FALSE
