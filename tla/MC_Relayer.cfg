CONSTANTS
    a1 = a1
    o1 = o1
    o2 = o2
    NoTipValue = NoTipValue
    Addr <- MCAddr
    Idx = {0}
    Timeout <- MCTimeout
    MaxTime = 1
    Deposits <- MCDeposits
    DepHeight <- MCDepHeight
    DepScript <- MCDepScript
    DepDust <- MCDepDust
    MinScan = 2
    MaxHeight = 3
    InitTips = {0}
    NoTip <- NoTipValue
    OtherRelayers = TRUE
    MaxDepositErrors = 1
    NumCheckpoints = 2
    MaxCkptErrors = 1
    MaxEvictions = 1
SPECIFICATION Spec
INVARIANT RelayerTypeOK ScanCovered
PROPERTY RelayedBlockKnown DepositsRelayed CheckpointsConfirmed
