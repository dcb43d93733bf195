SPECIFICATION ChannelSpec
CONSTANTS
    s1 = s1
    s2 = s2
    r = r
    receiver = r
    first = s1
    Senders <- Both
    Procs <- BothAndReceiver
    CanPark <- BothAndReceiver
    Waits <- Parking
    MaxCalls <- TwiceR
    MaxSpurious = 1
INVARIANTS NoMissedMessage
CHECK_DEADLOCK FALSE
