CONSTANTS
    a1 = a1
    a2 = a2
    torn = torn
    Addr <- MCAddr
    Idx <- MCIdx
    Timeout <- MCTimeout
    TORN <- torn
    MaxTime = 2
    MaxAnnounce = 3
    MaxCrash = 1
    RpcCanFail = FALSE
    WriteCanFail = FALSE
    TornWrites = TRUE
SPECIFICATION LiveSpec
PROPERTY RestartRecovers
