SPECIFICATION FairSpec
CONSTANTS
    p1 = p1
    p2 = p2
    p3 = p3
    Procs <- Three
    CanPark <- NotP1
    Methods <- OneOfEach
    MaxCalls <- TwiceP1
    MaxSpurious = 1
INVARIANTS TypeOK MutualExclusion NoLostUnpark NoLostSend MainThreadNeverParks
PROPERTIES ImplementsLock HonestFailure EveryCallReturns TimedCallsReturn
CHECK_DEADLOCK FALSE
