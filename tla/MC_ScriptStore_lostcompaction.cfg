CONSTANTS
    a1 = a1
    a2 = a2
    torn = torn
    Addr <- MCAddr
    Idx <- MCIdx
    Timeout <- MCTimeout
    TORN <- torn
    MaxTime = 2
    MaxAnnounce = 3
    MaxCrash = 2
    RpcCanFail = FALSE
    WriteCanFail = FALSE
    TornWrites = FALSE
SPECIFICATION Spec
INVARIANT DurableLiveWatched
