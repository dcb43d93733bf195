SPECIFICATION ChannelFairSpec
CONSTANTS
    s1 = s1
    s2 = s2
    r = r
    receiver = r
    first = s1
    Senders <- Both
    Procs <- BothAndReceiver
    CanPark <- BothAndReceiver
    Waits <- NoStray
    MaxCalls <- TwiceR
    MaxSpurious = 0
INVARIANTS ChannelTypeOK NoMissedMessage
PROPERTIES ImplementsChannel NoSendToNobody RecvReturns
CHECK_DEADLOCK FALSE
