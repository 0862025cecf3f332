CONSTANTS
    a1 = a1
    a2 = a2
    torn = torn
    Addr <- MCAddr
    Idx <- MCIdx
    Timeout <- MCTimeout
    TORN <- torn
    MaxTime = 2
    MaxAnnounce = 3
    MaxCrash = 0
    RpcCanFail = FALSE
    WriteCanFail = FALSE
    TornWrites = FALSE
SPECIFICATION LiveSpec
PROPERTY AnnouncedEventuallyDurable
