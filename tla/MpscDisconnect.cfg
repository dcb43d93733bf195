SPECIFICATION ChannelFairSpec
CONSTANTS
    s1 = s1
    s2 = s2
    r = r
    receiver = r
    first = s1
    Senders <- One
    Procs <- OneAndReceiver
    CanPark <- OneAndReceiver
    Waits <- Iterating
    MaxCalls <- Once
    MaxSpurious = 0
PROPERTIES RecvSeesDisconnect
CHECK_DEADLOCK FALSE
